--------------------------- MODULE StreamIOProofs ---------------------------
(***************************************************************************)
(* Strict reads with the loop of pipes and with recv(MSG_WAITALL) are      *)
(* exact, for messages of any number and lengths, cut in any way; and the  *)
(* lines of a text_socket, which looks for a separator instead of counting, *)
(* are those that were written.  So are the values of a simple_socket,     *)
(* whose reader learns from what it has read what to read next.            *)
(***************************************************************************)
EXTENDS Values, TextSocket, TLAPS, SequenceTheorems, NaturalsInduction, WellFoundedInduction

\* The two implementations that count what they still have to get.
ExactReader == Reader \in {"pipe", "waitall"}

\* What the sender gave is the messages it wrote, and a part of the next one
\* only if it has given up.
SenderState ==
  /\ Bound[written] <= sent
  /\ ~closed => sent = Bound[written]

\* Where the reader is in its message.
ReaderState ==
  /\ pc = "idle" => got = Bound[read]
  /\ pc \in {"first", "more"} =>
       /\ read < Messages
       /\ rest \in 1..Length(read)
       /\ got = Bound[read + 1] - rest
  /\ pc = "failed" =>
       /\ read < Messages
       /\ got <= Bound[read + 1]
       /\ Interrupted

IInv == TypeOK /\ SenderState /\ ReaderState

-----------------------------------------------------------------------------
\* A message has a length, a positive one that size_t can hold.
LEMMA LengthFact ==
  ASSUME NEW k \in 0..Messages, k < Messages
  PROVE  /\ k + 1 \in 0..Messages
         /\ Bound[k] \in Nat /\ Bound[k + 1] \in Nat
         /\ Length(k) \in 1..(SizeMax - 1)
         /\ Bound[k + 1] = Bound[k] + Length(k)
BY StreamAssumption DEF Length

\* No message ends after the last one.
LEMMA BoundFact ==
  ASSUME NEW k \in 0..Messages
  PROVE  Bound[k] \in 0..Bound[Messages]
<1>1. Messages \in 0..Messages /\ Bound[k] \in Nat /\ Bound[Messages] \in Nat
  BY StreamAssumption
<1>2. k = Messages \/ k < Messages
  BY StreamAssumption
<1>3. k < Messages => Bound[k] < Bound[Messages]
  BY <1>1, StreamAssumption
<1> QED
  BY <1>1, <1>2, <1>3

\* An exact reader never asks for more than it still has to get.
LEMMA ExactRequest ==
  ASSUME ExactReader, NEW l PROVE Requested(l) = l
BY DEF ExactReader, Requested

\* Counting down from rest without passing zero stays within size_t.
LEMMA RemainingFact ==
  ASSUME NEW n \in Nat, rest \in 0..(SizeMax - 1), n <= rest
  PROVE  Remaining(n) = rest - n
<1>1. SizeMax \in Nat \ {0} /\ rest - n \in 0..(SizeMax - 1)
  BY StreamAssumption
<1>2. \A m \in Nat \ {0} : \A x \in 0..(m - 1) : x % m = x
  OBVIOUS
<1> QED
  BY <1>1, <1>2 DEF Remaining

-----------------------------------------------------------------------------
\* Nothing is sent or read at first.
LEMMA InitEstablishes == Init => IInv
<1> SUFFICES ASSUME Init PROVE IInv
  OBVIOUS
<1>1. Bound[0] = 0 /\ 0 \in 0..Messages /\ Messages \in Nat /\ Bound[Messages] \in Nat
  BY StreamAssumption
<1>2. 0 \in 0..(SizeMax - 1) /\ 0 \in 0..Bound[Messages] /\ 0 \in 0..0
  BY <1>1, StreamAssumption
<1>3. TypeOK
  BY <1>1, <1>2 DEF Init, TypeOK
<1>4. SenderState /\ ReaderState
  BY <1>1 DEF Init, SenderState, ReaderState
<1> QED
  BY <1>3, <1>4 DEF IInv

\* The next message is written, whole.
LEMMA WriteStep == IInv /\ Write => IInv'
<1> SUFFICES ASSUME IInv, Write PROVE IInv'
  OBVIOUS
<1>1. /\ written \in 0..Messages /\ written < Messages
      /\ sent \in Nat /\ arrived \in 0..sent
      /\ sent = Bound[written]
  BY BoundFact DEF IInv, TypeOK, SenderState, Write
<1>2. written + 1 \in 0..Messages /\ Bound[written] < Bound[written + 1]
  BY <1>1, LengthFact
<1>3. sent' \in 0..Bound[Messages] /\ sent < sent'
  BY <1>1, <1>2, BoundFact DEF Write
<1>4. TypeOK'
  BY <1>1, <1>2, <1>3 DEF IInv, TypeOK, Write, reader
<1>5. SenderState'
  BY <1>2, <1>3 DEF SenderState, Write
<1>6. ReaderState'
  BY DEF IInv, ReaderState, Write, reader, Interrupted, Length
<1> QED
  BY <1>4, <1>5, <1>6 DEF IInv

\* A write fails within its message, and the writer ends.
LEMMA WriteFailsStep == IInv /\ WriteFails => IInv'
<1> SUFFICES ASSUME IInv, WriteFails PROVE IInv'
  OBVIOUS
<1>1. /\ written \in 0..Messages /\ written < Messages
      /\ sent \in Nat /\ arrived \in 0..sent
      /\ sent = Bound[written]
  BY BoundFact DEF IInv, TypeOK, SenderState, WriteFails
<1>2. PICK n \in 0..(Length(written) - 1) : sent' = Bound[written] + n
  BY DEF WriteFails
<1>3. /\ Length(written) \in Nat
      /\ Bound[written + 1] = Bound[written] + Length(written)
      /\ Bound[written + 1] \in 0..Bound[Messages]
      /\ Bound[Messages] \in Nat
  BY <1>1, LengthFact, BoundFact, StreamAssumption
<1>4. sent' \in 0..Bound[Messages] /\ sent <= sent'
  BY <1>1, <1>2, <1>3
<1>5. TypeOK'
  BY <1>1, <1>4 DEF IInv, TypeOK, WriteFails, reader
<1>6. SenderState'
  BY <1>1, <1>4 DEF SenderState, WriteFails
<1>7. ReaderState'
  BY DEF IInv, ReaderState, WriteFails, reader, Interrupted, Length
<1> QED
  BY <1>5, <1>6, <1>7 DEF IInv

\* The writer closes its end.
LEMMA CloseStep == IInv /\ Close => IInv'
BY DEF IInv, TypeOK, SenderState, ReaderState, Close, reader, Interrupted, Length

\* The network delivers a part of what was sent.
LEMMA DeliverStep == IInv /\ Deliver => IInv'
<1> SUFFICES ASSUME IInv, Deliver PROVE IInv'
  OBVIOUS
<1>1. PICK n \in (arrived + 1)..sent : arrived' = n
  BY DEF Deliver
<1>2. sent \in Nat /\ arrived \in 0..sent /\ got \in 0..arrived
  BY BoundFact, StreamAssumption DEF IInv, TypeOK
<1>3. TypeOK'
  BY <1>1, <1>2 DEF IInv, TypeOK, Deliver, sender, reader
<1>4. SenderState'
  BY DEF IInv, SenderState, Deliver, sender
<1>5. ReaderState'
  BY <1>1, <1>2 DEF IInv, ReaderState, Deliver, sender, reader, Interrupted, Length
<1> QED
  BY <1>3, <1>4, <1>5 DEF IInv

\* _i_fixsize() is called for the next message.
LEMMA CallStep == IInv /\ Call => IInv'
<1> SUFFICES ASSUME IInv, Call PROVE IInv'
  OBVIOUS
<1>1. read \in 0..Messages /\ read < Messages /\ got = Bound[read]
  BY DEF IInv, TypeOK, ReaderState, Call
<1>2. /\ Bound[read] \in Nat
      /\ Length(read) \in 1..(SizeMax - 1)
      /\ Bound[read + 1] = Bound[read] + Length(read)
  BY <1>1, LengthFact
<1>3. SizeMax \in Nat
  BY StreamAssumption
<1>4. TypeOK'
  BY <1>2, <1>3 DEF IInv, TypeOK, Call, sender
<1>5. SenderState'
  BY DEF IInv, SenderState, Call, sender
<1>6. /\ pc' = "first" /\ read' = read /\ got' = got /\ rest' = Length(read)
      /\ Length(read)' = Length(read)
  BY DEF Call, Length
<1>7. got = Bound[read + 1] - Length(read) /\ Length(read) \in 1..Length(read)
  BY <1>1, <1>2
<1>8. ReaderState'
  BY <1>1, <1>6, <1>7 DEF ReaderState
<1> QED
  BY <1>4, <1>5, <1>8 DEF IInv

\* A read() or recv() gives the whole rest of the message or a part of it.
LEMMA ReadStep == ExactReader /\ IInv /\ Read => IInv'
<1> SUFFICES ASSUME ExactReader, IInv, Read PROVE IInv'
  OBVIOUS
<1>1. /\ read \in 0..Messages /\ read < Messages
      /\ rest \in 1..Length(read) /\ rest \in 0..(SizeMax - 1)
      /\ got = Bound[read + 1] - rest
      /\ sent \in Nat /\ arrived \in 0..sent /\ got \in 0..arrived
      /\ SizeMax \in Nat
  BY BoundFact, StreamAssumption DEF IInv, TypeOK, ReaderState, Read
<1>2. /\ Bound[read] \in Nat /\ Bound[read + 1] \in Nat
      /\ Length(read) \in Nat
      /\ read + 1 \in 0..Messages
  BY <1>1, LengthFact
<1>3. PICK n \in 1..(arrived - got) :
        /\ Returned(n)
        /\ got' = got + n
        /\ rest' = Remaining(n)
        /\ IF ~Enough(n) \/ ~Complete(n) THEN pc' = "failed" /\ UNCHANGED read
           ELSE IF rest' = 0 \/ Reader = "waitall" THEN pc' = "idle" /\ read' = read + 1
           ELSE pc' = "more" /\ UNCHANGED read
  BY DEF Read
<1>4. n \in Nat /\ n >= 1 /\ n <= rest
  BY <1>1, <1>3, ExactRequest DEF Returned
<1>5. rest' = rest - n
  BY <1>1, <1>3, <1>4, RemainingFact
<1>6. UNCHANGED <<written, sent, closed, arrived>>
  BY DEF Read, sender
<1>7. Enough(n)
  BY DEF ExactReader, Enough
<1>8. /\ pc' \in {"idle", "more", "failed"} /\ read' \in 0..Messages
      /\ got' \in 0..arrived /\ rest' \in 0..(SizeMax - 1)
  BY <1>1, <1>2, <1>3, <1>4, <1>5
<1>9. TypeOK'
  BY <1>6, <1>8 DEF IInv, TypeOK
<1>10. SenderState'
  BY <1>6 DEF IInv, SenderState
<1>11. ReaderState'
  <2>1. CASE ~Complete(n)
    <3>1. pc' = "failed" /\ read' = read
      BY <1>3, <2>1
    <3>2. Reader = "waitall" /\ n # rest
      BY <2>1 DEF Complete
    <3>3. Interrupted
      BY <1>1, <1>3, <1>4, <3>2 DEF Returned
    <3>4. Interrupted'
      BY <1>6, <3>3 DEF Interrupted
    <3>5. got' <= Bound[read + 1]
      BY <1>1, <1>2, <1>3, <1>4
    <3> QED
      BY <1>1, <3>1, <3>4, <3>5 DEF ReaderState
  <2>2. CASE Complete(n) /\ (rest' = 0 \/ Reader = "waitall")
    <3>1. pc' = "idle" /\ read' = read + 1
      BY <1>3, <1>7, <2>2
    <3>2. n = rest
      BY <1>1, <1>4, <1>5, <2>2 DEF Complete
    <3>3. got' = Bound[read + 1]
      BY <1>1, <1>2, <1>3, <3>2
    <3> QED
      BY <3>1, <3>3 DEF ReaderState
  <2>3. CASE Complete(n) /\ rest' # 0 /\ Reader # "waitall"
    <3>1. pc' = "more" /\ read' = read
      BY <1>3, <1>7, <2>3
    <3>2. Length(read)' = Length(read)
      BY <3>1 DEF Length
    <3>3. rest' \in 1..Length(read)
      BY <1>1, <1>2, <1>4, <1>5, <2>3
    <3>4. got' = Bound[read + 1] - rest'
      BY <1>1, <1>2, <1>3, <1>4, <1>5
    <3> QED
      BY <1>1, <3>1, <3>2, <3>3, <3>4 DEF ReaderState
  <2> QED
    BY <2>1, <2>2, <2>3
<1> QED
  BY <1>9, <1>10, <1>11 DEF IInv

\* A read finds the end of the stream, or is interrupted by its timeout.
LEMMA ReadFailsStep == IInv /\ ReadFails => IInv'
<1> SUFFICES ASSUME IInv, ReadFails PROVE IInv'
  OBVIOUS
<1>1. /\ read \in 0..Messages /\ read < Messages
      /\ rest \in 1..Length(read)
      /\ got = Bound[read + 1] - rest
  BY DEF IInv, TypeOK, ReaderState, ReadFails
<1>2. Bound[read + 1] \in Nat /\ Length(read) \in Nat
  BY <1>1, LengthFact
<1>3. got <= Bound[read + 1]
  BY <1>1, <1>2
<1> QED
  BY <1>1, <1>3 DEF IInv, TypeOK, SenderState, ReaderState, ReadFails, sender, Interrupted

\* What no step changes stays so.
LEMMA StutterStep == IInv /\ UNCHANGED vars => IInv'
BY DEF IInv, TypeOK, SenderState, ReaderState, vars, Interrupted, Length

-----------------------------------------------------------------------------
\* The inductive invariant of an exact reader.
THEOREM StreamInductive ==
  ASSUME ExactReader
  PROVE  Spec => []IInv
<1>1. IInv /\ [Next]_vars => IInv'
  BY WriteStep, WriteFailsStep, CloseStep, DeliverStep, CallStep, ReadStep,
     ReadFailsStep, StutterStep
  DEF Next
<1> QED
  BY <1>1, InitEstablishes, PTL DEF Spec

\* The counts of both ends stay in their ranges: what is left of a read never wraps.
THEOREM TypeCorrect ==
  ASSUME ExactReader
  PROVE  Spec => []TypeOK
<1>1. IInv => TypeOK
  BY DEF IInv
<1> QED
  BY <1>1, StreamInductive, PTL

\* The reader is at the start of a message whenever it is not in a read: what
\* _i_fixsize() returned is its message and nothing else.
THEOREM ReadsAreExact ==
  ASSUME ExactReader
  PROVE  Spec => []Framed
<1>1. IInv => Framed
  BY DEF IInv, ReaderState, Framed
<1> QED
  BY <1>1, StreamInductive, PTL

\* Where the reader is in its message, it is not past it.
LEMMA IInvStays == IInv => StaysInMessage
<1> SUFFICES ASSUME IInv, pc # "idle" PROVE got <= Bound[read + 1]
  BY DEF StaysInMessage
<1>1. CASE pc \in {"first", "more"}
  <2>1. /\ read \in 0..Messages /\ read < Messages
        /\ rest \in 1..Length(read)
        /\ got = Bound[read + 1] - rest
    BY <1>1 DEF IInv, TypeOK, ReaderState
  <2>2. Bound[read + 1] \in Nat /\ Length(read) \in Nat
    BY <2>1, LengthFact
  <2> QED
    BY <2>1, <2>2
<1>2. CASE pc = "failed"
  BY <1>2 DEF IInv, ReaderState
<1> QED
  BY <1>1, <1>2 DEF IInv, TypeOK

\* A read, even one that throws, leaves the messages after its own alone.
THEOREM NoOverRead ==
  ASSUME ExactReader
  PROVE  Spec => []StaysInMessage
BY IInvStays, StreamInductive, PTL

\* A read throws only at the end of the stream, or when a timeout may cut it.
THEOREM ErrorsAreReal ==
  ASSUME ExactReader
  PROVE  Spec => []NoFalseError
<1>1. IInv => NoFalseError
  BY DEF IInv, ReaderState, NoFalseError
<1> QED
  BY <1>1, StreamInductive, PTL

-----------------------------------------------------------------------------
\* What an induction over the natural numbers rests on: there is no bad number if
\* there is no least one.
LEMMA LeastNumber ==
  ASSUME NEW S, S \subseteq Nat, S # {}
  PROVE  \E n \in S : \A m \in S : ~(m < n)
<1>1. PICK n \in S : \A m \in S : <<m, n>> \notin OpToRel(<, Nat)
  BY NatLessThanWellFounded, WFMin
<1> QED
  BY <1>1 DEF OpToRel

\* A set of sequences that has the empty one, and each one longer than one it has,
\* has all of them.
LEMMA AllByAppend ==
  ASSUME NEW T, NEW P, <<>> \in P,
         \A s \in Seq(T) : s \in P => \A e \in T : Append(s, e) \in P
  PROVE  Seq(T) \subseteq P
<1> DEFINE bad == {n \in Nat : \E s \in Seq(T) : Len(s) = n /\ s \notin P}
<1> SUFFICES ASSUME bad # {} PROVE FALSE
  <2>1. ASSUME NEW s \in Seq(T), s \notin P PROVE Len(s) \in bad
    BY <2>1, LenProperties
  <2> QED
    BY <2>1
<1>1. PICK n \in bad : \A m \in bad : ~(m < n)
  <2>1. bad \subseteq Nat
    OBVIOUS
  <2> HIDE DEF bad
  <2> QED
    BY <2>1, LeastNumber
<1>2. PICK s \in Seq(T) : Len(s) = n /\ s \notin P
  OBVIOUS
<1>3. PICK r \in Seq(T), e \in T : s = Append(r, e)
  BY <1>2, SequenceEmptyOrAppend
<1>4. Len(r) \in Nat /\ Len(r) < n
  BY <1>2, <1>3, LenProperties, AppendProperties
<1>5. r \in P
  BY <1>1, <1>4
<1> QED
  BY <1>2, <1>3, <1>5

-----------------------------------------------------------------------------
\* The sequences that FlattenSeq joins, one more at each place.
Joined(f, ss, n) == f = [i \in 1..n |-> IF i = 1 THEN ss[i] ELSE f[i - 1] \o ss[i]]

\* There is such a function for as many sequences as one likes.
LEMMA JoinedExists ==
  ASSUME NEW ss, NEW n \in Nat
  PROVE  \E f : Joined(f, ss, n)
<1> DEFINE bad == {m \in Nat : ~ \E f : Joined(f, ss, m)}
<1> SUFFICES ASSUME bad # {} PROVE FALSE
  OBVIOUS
<1>1. PICK m \in bad : \A k \in bad : ~(k < m)
  <2>1. bad \subseteq Nat
    OBVIOUS
  <2> HIDE DEF bad
  <2> QED
    BY <2>1, LeastNumber
<1>2. m \in Nat /\ ~ \E f : Joined(f, ss, m)
  OBVIOUS
<1>3. CASE m = 0
  <2> DEFINE f == [i \in 1..0 |-> <<>>]
  <2>1. Joined(f, ss, 0)
    BY DEF Joined
  <2> QED
    BY <1>2, <1>3, <2>1
<1>4. CASE m # 0
  <2>1. m - 1 \in Nat /\ m - 1 < m
    BY <1>2, <1>4
  <2>2. PICK f : Joined(f, ss, m - 1)
    <3>1. m - 1 \notin bad
      BY <1>1, <2>1
    <3> QED
      BY <2>1, <3>1
  <2> DEFINE g == [i \in 1..m |-> IF i = m THEN IF m = 1 THEN ss[m] ELSE f[m - 1] \o ss[m] ELSE f[i]]
  <2>3. \A i \in 1..(m - 1) : f[i] = IF i = 1 THEN ss[i] ELSE f[i - 1] \o ss[i]
    BY <2>2 DEF Joined
  <2>4. ASSUME NEW i \in 1..m PROVE g[i] = IF i = 1 THEN ss[i] ELSE g[i - 1] \o ss[i]
    <3>1. CASE i = m
      <4>1. i # 1 => i - 1 \in 1..m /\ i - 1 # m
        BY <1>2, <3>1
      <4> QED
        BY <1>4, <3>1, <4>1
    <3>2. CASE i # m
      <4>1. i \in 1..(m - 1) /\ (i # 1 => i - 1 \in 1..m /\ i - 1 # m)
        BY <1>2, <3>2
      <4> QED
        BY <2>3, <3>2, <4>1
    <3> QED
      BY <3>1, <3>2
  <2>5. Joined(g, ss, m)
    <3>1. g = [i \in 1..m |-> g[i]]
      OBVIOUS
    <3> HIDE DEF g
    <3> QED
      BY <2>4, <3>1 DEF Joined
  <2> QED
    BY <1>2, <2>5
<1> QED
  BY <1>3, <1>4

\* It depends on the sequences that it joins and on nothing else.
LEMMA JoinedSame ==
  ASSUME NEW ss, NEW tt, NEW f, NEW g, NEW m \in Nat, NEW n \in Nat, Joined(f, ss, m), Joined(g, tt, n),
         m <= n, \A i \in 1..m : ss[i] = tt[i]
  PROVE  \A i \in 1..m : f[i] = g[i]
<1> DEFINE bad == {i \in 1..m : f[i] # g[i]}
<1> SUFFICES ASSUME bad # {} PROVE FALSE
  OBVIOUS
<1>1. PICK i \in bad : \A j \in bad : ~(j < i)
  <2>1. bad \subseteq Nat
    OBVIOUS
  <2> HIDE DEF bad
  <2> QED
    BY <2>1, LeastNumber
<1>2. i \in 1..m /\ i \in 1..n /\ f[i] # g[i]
  OBVIOUS
<1>3. /\ f[i] = IF i = 1 THEN ss[i] ELSE f[i - 1] \o ss[i]
      /\ g[i] = IF i = 1 THEN tt[i] ELSE g[i - 1] \o tt[i]
  BY <1>2 DEF Joined
<1>4. CASE i # 1
  <2>1. i - 1 \in 1..m /\ i - 1 < i
    BY <1>2, <1>4
  <2>2. f[i - 1] = g[i - 1]
    BY <1>1, <2>1
  <2> QED
    BY <1>2, <1>3, <1>4, <2>2
<1> QED
  BY <1>2, <1>3, <1>4

\* What FlattenSeq is.
LEMMA FlattenIs ==
  ASSUME NEW ss, Len(ss) \in Nat, Len(ss) # 0, NEW f, Joined(f, ss, Len(ss))
  PROVE  FlattenSeq(ss) = f[Len(ss)]
<1> DEFINE n == Len(ss)
           g == CHOOSE h : Joined(h, ss, n)
<1>1. Joined(g, ss, n)
  <2>1. \E h : Joined(h, ss, n)
    OBVIOUS
  <2> QED
    BY <2>1, Zenon
<1>2. FlattenSeq(ss) = g[n]
  BY DEF FlattenSeq, Joined
<1>3. g[n] = f[n]
  <2> HIDE DEF g
  <2>1. \A i \in 1..n : g[i] = f[i]
    <3>1. n <= n /\ \A i \in 1..n : ss[i] = ss[i]
      OBVIOUS
    <3> HIDE DEF n
    <3> QED
      BY <1>1, <3>1, JoinedSame DEF n
  <2> QED
    BY <2>1
<1> QED
  BY <1>2, <1>3

\* Nothing joined is nothing.
LEMMA FlattenEmpty == FlattenSeq(<<>>) = <<>>
BY DEF FlattenSeq

\* FlattenSeq, one sequence at a time.
LEMMA FlattenAppend ==
  ASSUME NEW S, NEW ss \in Seq(Seq(S)), NEW s \in Seq(S)
  PROVE  FlattenSeq(Append(ss, s)) = FlattenSeq(ss) \o s
<1> DEFINE tt == Append(ss, s)
           n == Len(ss)
<1>1. /\ n \in Nat /\ Len(tt) = n + 1 /\ tt[n + 1] = s /\ \A i \in 1..n : tt[i] = ss[i]
  BY AppendProperties, LenProperties
<1> HIDE DEF n, tt
<1>2. PICK f : Joined(f, tt, n + 1)
  <2>1. n + 1 \in Nat
    BY <1>1
  <2> QED
    BY <2>1, JoinedExists
<1>3. FlattenSeq(tt) = f[n + 1]
  <2>1. Len(tt) \in Nat /\ Len(tt) # 0 /\ Joined(f, tt, Len(tt))
    BY <1>1, <1>2
  <2>2. FlattenSeq(tt) = f[Len(tt)]
    BY <2>1, FlattenIs
  <2> QED
    BY <1>1, <2>2
<1>4. f[n + 1] = IF n + 1 = 1 THEN tt[n + 1] ELSE f[(n + 1) - 1] \o tt[n + 1]
  <2>1. n + 1 \in 1..(n + 1)
    BY <1>1
  <2> QED
    BY <1>2, <2>1 DEF Joined
<1>5. CASE n = 0
  <2>1. ss = <<>>
    BY <1>5, EmptySeq DEF n
  <2>2. FlattenSeq(ss) \o s = s
    BY <2>1, FlattenEmpty, ConcatEmptySeq
  <2> QED
    BY <1>1, <1>3, <1>4, <1>5, <2>2 DEF tt
<1>6. CASE n # 0
  <2>1. PICK g : Joined(g, ss, n)
    BY <1>1, JoinedExists
  <2>2. FlattenSeq(ss) = g[n]
    BY <1>1, <1>6, <2>1, FlattenIs DEF n
  <2>3. f[n] = g[n]
    <3>1. n + 1 \in Nat /\ n <= n + 1 /\ n <= n /\ n \in 1..n
      BY <1>1, <1>6
    <3>2. \A i \in 1..n : g[i] = f[i]
      <4>1. \A i \in 1..n : ss[i] = tt[i]
        BY <1>1
      <4> QED
        BY <1>1, <1>2, <2>1, <3>1, <4>1, JoinedSame
    <3> QED
      BY <3>1, <3>2
  <2>4. (n + 1) - 1 = n /\ n + 1 # 1
    BY <1>1, <1>6
  <2> QED
    BY <1>1, <1>3, <1>4, <2>2, <2>3, <2>4 DEF tt
<1> QED
  BY <1>5, <1>6

\* It joins sequences of a set to one of that set.
LEMMA FlattenType ==
  ASSUME NEW S, NEW ss \in Seq(Seq(S))
  PROVE  FlattenSeq(ss) \in Seq(S)
<1> DEFINE P == {r \in Seq(Seq(S)) : FlattenSeq(r) \in Seq(S)}
<1>1. <<>> \in P
  BY FlattenEmpty, EmptySeq
<1>2. ASSUME NEW r \in Seq(Seq(S)), r \in P, NEW s \in Seq(S) PROVE Append(r, s) \in P
  <2>1. FlattenSeq(Append(r, s)) = FlattenSeq(r) \o s
    BY FlattenAppend
  <2>2. FlattenSeq(r) \o s \in Seq(S)
    BY <1>2, ConcatProperties
  <2> QED
    BY <2>1, <2>2, AppendProperties
<1> HIDE DEF P
<1>3. Seq(Seq(S)) \subseteq P
  BY <1>1, <1>2, AllByAppend
<1> QED
  BY <1>3 DEF P

\* One sequence joined is that sequence.
LEMMA FlattenOne == ASSUME NEW S, NEW s \in Seq(S) PROVE FlattenSeq(<<s>>) = s
<1>1. <<>> \in Seq(Seq(S)) /\ Append(<<>>, s) = <<s>>
  BY EmptySeq
<1>2. FlattenSeq(Append(<<>>, s)) = FlattenSeq(<<>>) \o s
  BY <1>1, FlattenAppend
<1> QED
  BY <1>1, <1>2, FlattenEmpty, ConcatEmptySeq

\* What joining two lists of sequences gives.
LEMMA FlattenConcat ==
  ASSUME NEW S, NEW ss \in Seq(Seq(S)), NEW tt \in Seq(Seq(S))
  PROVE  FlattenSeq(ss \o tt) = FlattenSeq(ss) \o FlattenSeq(tt)
<1> DEFINE P == {r \in Seq(Seq(S)) : FlattenSeq(ss \o r) = FlattenSeq(ss) \o FlattenSeq(r)}
<1>1. <<>> \in P
  BY FlattenEmpty, FlattenType, EmptySeq, ConcatEmptySeq
<1>2. ASSUME NEW r \in Seq(Seq(S)), r \in P, NEW s \in Seq(S) PROVE Append(r, s) \in P
  <2>1. ss \o r \in Seq(Seq(S)) /\ FlattenSeq(ss) \in Seq(S) /\ FlattenSeq(r) \in Seq(S)
    BY ConcatProperties, FlattenType
  <2>2. ss \o Append(r, s) = Append(ss \o r, s)
    <3>1. <<s>> \in Seq(Seq(S))
      OBVIOUS
    <3>2. Append(r, s) = r \o <<s>> /\ Append(ss \o r, s) = (ss \o r) \o <<s>>
      BY <2>1, AppendIsConcat
    <3> QED
      BY <3>1, <3>2, ConcatAssociative
  <2>3. FlattenSeq(ss \o Append(r, s)) = FlattenSeq(ss \o r) \o s
    BY <2>1, <2>2, FlattenAppend
  <2>4. FlattenSeq(Append(r, s)) = FlattenSeq(r) \o s
    BY FlattenAppend
  <2>5. (FlattenSeq(ss) \o FlattenSeq(r)) \o s = FlattenSeq(ss) \o (FlattenSeq(r) \o s)
    BY <2>1, ConcatAssociative
  <2>6. Append(r, s) \in Seq(Seq(S))
    BY AppendProperties
  <2> QED
    BY <1>2, <2>3, <2>4, <2>5, <2>6
<1> HIDE DEF P
<1>3. Seq(Seq(S)) \subseteq P
  BY <1>1, <1>2, AllByAppend
<1> QED
  BY <1>3 DEF P

\* And joining what each list of a list of lists joins.
LEMMA FlattenTwice ==
  ASSUME NEW S, NEW sss \in Seq(Seq(Seq(S)))
  PROVE  /\ [k \in DOMAIN sss |-> FlattenSeq(sss[k])] \in Seq(Seq(S))
         /\ FlattenSeq(FlattenSeq(sss)) = FlattenSeq([k \in DOMAIN sss |-> FlattenSeq(sss[k])])
<1> DEFINE Each(r) == [k \in DOMAIN r |-> FlattenSeq(r[k])]
           P == {r \in Seq(Seq(Seq(S))) : /\ Each(r) \in Seq(Seq(S))
                                          /\ FlattenSeq(FlattenSeq(r)) = FlattenSeq(Each(r))}
<1>0. Each(<<>>) = <<>>
  OBVIOUS
<1>1. <<>> \in P
  <2>1. FlattenSeq(FlattenSeq(<<>>)) = FlattenSeq(<<>>)
    BY FlattenEmpty
  <2>2. <<>> \in Seq(Seq(Seq(S))) /\ <<>> \in Seq(Seq(S))
    BY EmptySeq
  <2> QED
    BY <1>0, <2>1, <2>2
<1>2. ASSUME NEW r \in Seq(Seq(Seq(S))), r \in P, NEW ss \in Seq(Seq(S)) PROVE Append(r, ss) \in P
  <2>1. Append(r, ss) \in Seq(Seq(Seq(S))) /\ FlattenSeq(r) \in Seq(Seq(S)) /\ FlattenSeq(ss) \in Seq(S)
    BY AppendProperties, FlattenType
  <2>2. Each(Append(r, ss)) = Append(Each(r), FlattenSeq(ss))
    <3>1. /\ Len(r) \in Nat /\ DOMAIN r = 1..Len(r) /\ DOMAIN Append(r, ss) = 1..(Len(r) + 1)
          /\ \A k \in 1..Len(r) : Append(r, ss)[k] = r[k]
          /\ Append(r, ss)[Len(r) + 1] = ss
      BY <2>1, AppendProperties, LenProperties
    <3>2. Each(r) \in Seq(Seq(S)) /\ Len(Each(r)) = Len(r)
      BY <1>2, <3>1
    <3>3. /\ Append(Each(r), FlattenSeq(ss)) \in Seq(Seq(S))
          /\ DOMAIN Append(Each(r), FlattenSeq(ss)) = 1..(Len(r) + 1)
          /\ \A k \in 1..Len(r) : Append(Each(r), FlattenSeq(ss))[k] = Each(r)[k]
          /\ Append(Each(r), FlattenSeq(ss))[Len(r) + 1] = FlattenSeq(ss)
      <4> HIDE DEF Each
      <4> QED
        BY <2>1, <3>2, AppendProperties, LenProperties
    <3>4. \A k \in 1..(Len(r) + 1) : Each(Append(r, ss))[k] = Append(Each(r), FlattenSeq(ss))[k]
      <4>1. ASSUME NEW k \in 1..(Len(r) + 1)
            PROVE  Each(Append(r, ss))[k] = Append(Each(r), FlattenSeq(ss))[k]
        <5>1. k \in 1..Len(r) \/ k = Len(r) + 1
          BY <3>1
        <5>2. Each(Append(r, ss))[k] = FlattenSeq(Append(r, ss)[k])
          BY <3>1
        <5>3. k \in 1..Len(r) => Each(r)[k] = FlattenSeq(r[k])
          BY <3>1
        <5> HIDE DEF Each
        <5> QED
          BY <3>1, <3>3, <5>1, <5>2, <5>3
      <4> QED
        BY <4>1
    <3>5. /\ DOMAIN Each(Append(r, ss)) = 1..(Len(r) + 1)
          /\ Each(Append(r, ss)) = [k \in 1..(Len(r) + 1) |-> Each(Append(r, ss))[k]]
      BY <3>1
    <3>6. Append(Each(r), FlattenSeq(ss)) = [k \in 1..(Len(r) + 1) |-> Append(Each(r), FlattenSeq(ss))[k]]
      <4> HIDE DEF Each
      <4> QED
        BY <3>3, LenProperties
    <3> HIDE DEF Each
    <3> QED
      BY <3>4, <3>5, <3>6
  <2>3. FlattenSeq(Append(r, ss)) = FlattenSeq(r) \o ss
    BY FlattenAppend
  <2>4. FlattenSeq(FlattenSeq(r) \o ss) = FlattenSeq(FlattenSeq(r)) \o FlattenSeq(ss)
    BY <2>1, FlattenConcat
  <2> HIDE DEF Each
  <2>5. FlattenSeq(Append(Each(r), FlattenSeq(ss))) = FlattenSeq(Each(r)) \o FlattenSeq(ss)
    BY <1>2, <2>1, FlattenAppend
  <2>6. Append(Each(r), FlattenSeq(ss)) \in Seq(Seq(S))
    BY <1>2, <2>1, AppendProperties
  <2> QED
    BY <1>2, <2>1, <2>2, <2>3, <2>4, <2>5, <2>6
<1> HIDE DEF P
<1>3. Seq(Seq(Seq(S))) \subseteq P
  BY <1>1, <1>2, AllByAppend
<1> QED
  BY <1>3 DEF P

-----------------------------------------------------------------------------
\* The separator and the texts are sequences of bytes.
LEMMA TextFacts ==
  /\ Sep \in Seq(Chars) /\ Len(Sep) \in Nat /\ Len(Sep) >= 1 /\ Len(Sep) <= SizeMod
  /\ \A t \in Lines \union Texts : t \in Seq(Chars)
  /\ SepSize \in 0..Len(Sep) /\ (Len(Sep) < SizeMod => SepSize = Len(Sep))
<1>1. \A t \in {Sep} \union Lines \union Texts : Range(t) \subseteq Chars
  BY DEF Chars
<1>2. \A t \in {Sep} \union Lines \union Texts : t \in Seq(Chars)
  BY <1>1, TextAssumption, SeqMonotonic DEF TextAssumption
<1>3. Len(Sep) \in Nat /\ Len(Sep) >= 1 /\ Len(Sep) <= SizeMod /\ SizeMod \in Nat \ {0}
  BY TextAssumption DEF TextAssumption
<1>4. \A n, m \in Nat : n >= 1 /\ n < m => n % m = n
  OBVIOUS
<1>5. \A m \in Nat \ {0} : m % m = 0
  OBVIOUS
<1>6. CASE Len(Sep) < SizeMod
  BY <1>2, <1>3, <1>4, <1>6 DEF SepSize
<1>7. CASE Len(Sep) = SizeMod
  BY <1>2, <1>3, <1>5, <1>7 DEF SepSize
<1> QED
  BY <1>3, <1>6, <1>7

\* What a prefix is, place by place.
LEMMA PrefixIs ==
  ASSUME NEW S, NEW s \in Seq(S), NEW t \in Seq(S)
  PROVE  IsPrefix(s, t) <=> (Len(s) <= Len(t) /\ \A i \in 1..Len(s) : s[i] = t[i])
<1>1. Len(s) \in Nat /\ Len(t) \in Nat /\ SubSeq(s, 1, Len(s)) = s
  BY LenProperties, SubSeqFull
<1>2. ASSUME Len(s) <= Len(t)
      PROVE  s = SubSeq(t, 1, Len(s)) <=> \A i \in 1..Len(s) : s[i] = t[i]
  <2>1. \A i \in 1..Len(s) : t[i] \in S
    BY <1>1, <1>2, ElementOfSeq
  <2>2. /\ SubSeq(t, 1, Len(s)) \in Seq(S) /\ Len(SubSeq(t, 1, Len(s))) = Len(s)
        /\ \A i \in 1..Len(s) : SubSeq(t, 1, Len(s))[i] = t[i]
    BY <1>1, <2>1
  <2> QED
    BY <2>2, SeqEqual
<1> QED
  BY <1>1, <1>2 DEF IsPrefix

\* The separator is at i in b.
SepAt(b, i) == i - 1 + Len(Sep) <= Len(b) /\ \A j \in 1..Len(Sep) : b[i - 1 + j] = Sep[j]

LEMMA SepAtIs ==
  ASSUME NEW b \in Seq(Chars), NEW i \in 1..(Len(b) + 1)
  PROVE  IsPrefix(Sep, SubSeq(b, i, Len(b))) <=> SepAt(b, i)
<1> DEFINE t == SubSeq(b, i, Len(b))
<1>1. Len(b) \in Nat /\ i \in Nat /\ Sep \in Seq(Chars) /\ Len(Sep) \in Nat /\ Len(Sep) >= 1
  BY TextFacts, LenProperties
<1>2. t \in Seq(Chars) /\ Len(t) = Len(b) - i + 1 /\ \A j \in 1..(Len(b) - i + 1) : t[j] = b[i + j - 1]
  <2>1. \A k \in i..Len(b) : b[k] \in Chars
    BY <1>1, ElementOfSeq
  <2> QED
    BY <1>1, <2>1, SubSeqProperties
<1> HIDE DEF t
<1>3. IsPrefix(Sep, t) <=> (Len(Sep) <= Len(t) /\ \A j \in 1..Len(Sep) : Sep[j] = t[j])
  BY <1>1, <1>2, PrefixIs
<1>4. Len(Sep) <= Len(t) <=> i - 1 + Len(Sep) <= Len(b)
  BY <1>1, <1>2
<1>5. ASSUME Len(Sep) <= Len(t), NEW j \in 1..Len(Sep) PROVE t[j] = b[i - 1 + j]
  <2>1. j \in 1..(Len(b) - i + 1) /\ i + j - 1 = i - 1 + j
    BY <1>1, <1>2, <1>5
  <2> QED
    BY <1>2, <2>1
<1> QED
  BY <1>3, <1>4, <1>5 DEF SepAt, t

\* Where read_line finds the separator, when its size fits.
LEMMA FoundIs ==
  ASSUME NEW b \in Seq(Chars), Len(Sep) < SizeMod
  PROVE  /\ \A i : i \in Found(b) <=> (i \in Nat /\ i >= 1 /\ SepAt(b, i))
         /\ Found(b) \subseteq Nat
<1>1. Len(b) \in Nat /\ SepSize = Len(Sep) /\ Len(Sep) \in Nat /\ Len(Sep) >= 1
  BY TextFacts, LenProperties
<1>2. ASSUME NEW i \in 1..(Len(b) - Len(Sep) + 1) PROVE i \in 1..(Len(b) + 1)
  BY <1>1
<1>3. ASSUME NEW i \in Nat, i >= 1, SepAt(b, i) PROVE i \in 1..(Len(b) - Len(Sep) + 1)
  BY <1>1, <1>3 DEF SepAt
<1>4. 1..(Len(b) - Len(Sep) + 1) \subseteq Nat
  BY <1>1
<1> QED
  BY <1>1, <1>2, <1>3, <1>4, SepAtIs DEF Found

\* In a line that is not ambiguous the separator is nowhere, before the one that ends it.
LEMMA ClearIs ==
  ASSUME NEW l \in Seq(Chars), Clear(l)
  PROVE  \A i \in 1..Len(l) : ~SepAt(l \o Sep, i)
<1>1. l \o Sep \in Seq(Chars) /\ Len(l \o Sep) = Len(l) + Len(Sep) /\ Len(l) \in Nat /\ Len(Sep) \in Nat
  BY TextFacts, ConcatProperties, LenProperties
<1>2. ASSUME NEW i \in 1..Len(l) PROVE ~SepAt(l \o Sep, i)
  <2>1. i \in 1..(Len(l \o Sep) + 1)
    BY <1>1
  <2> QED
    BY <1>1, <2>1, SepAtIs DEF Clear
<1> QED
  BY <1>2

\* The buffer cut at a separator.
LEMMA Splits ==
  ASSUME NEW b \in Seq(Chars), NEW i \in Nat, i >= 1, SepAt(b, i)
  PROVE  /\ SubSeq(b, 1, i - 1) \in Seq(Chars) /\ SubSeq(b, i + Len(Sep), Len(b)) \in Seq(Chars)
         /\ b = (SubSeq(b, 1, i - 1) \o Sep) \o SubSeq(b, i + Len(Sep), Len(b))
         /\ Len(SubSeq(b, i + Len(Sep), Len(b))) <= Len(b)
<1>1. /\ Len(b) \in Nat /\ Sep \in Seq(Chars) /\ Len(Sep) \in Nat /\ Len(Sep) >= 1
      /\ i - 1 + Len(Sep) <= Len(b) /\ \A k \in 1..Len(b) : b[k] \in Chars
  BY TextFacts, LenProperties, ElementOfSeq DEF SepAt
<1>2. SubSeq(b, i, i - 1 + Len(Sep)) = Sep
  <2> DEFINE t == SubSeq(b, i, i - 1 + Len(Sep))
  <2>1. \A k \in i..(i - 1 + Len(Sep)) : b[k] \in Chars
    BY <1>1
  <2>2. t \in Seq(Chars) /\ Len(t) = Len(Sep) /\ \A j \in 1..Len(Sep) : t[j] = b[i + j - 1]
    BY <1>1, <2>1, SubSeqProperties
  <2>3. \A j \in 1..Len(Sep) : i + j - 1 = i - 1 + j
    BY <1>1
  <2>4. \A j \in 1..Len(Sep) : t[j] = Sep[j]
    BY <2>2, <2>3 DEF SepAt
  <2> HIDE DEF t
  <2>5. t = Sep
    BY <1>1, <2>2, <2>4, SeqEqual
  <2> QED
    BY <2>5 DEF t
<1>3. SubSeq(b, 1, i - 1) \o SubSeq(b, i, i - 1 + Len(Sep)) = SubSeq(b, 1, i - 1 + Len(Sep))
  <2>1. 1 \in 1..(Len(b) + 1) /\ i - 1 \in 0..Len(b) /\ i - 1 + Len(Sep) \in (i - 1)..Len(b)
        /\ (i - 1) + 1 = i /\ 1 - 1 = 0
    BY <1>1
  <2>2. SubSeq(b, 1, i - 1) \o SubSeq(b, (i - 1) + 1, i - 1 + Len(Sep)) = SubSeq(b, 1, i - 1 + Len(Sep))
    BY <2>1, ConcatAdjacentSubSeq
  <2> QED
    BY <2>1, <2>2
<1>4. SubSeq(b, 1, i - 1 + Len(Sep)) \o SubSeq(b, i + Len(Sep), Len(b)) = b
  <2>1. /\ 1 \in 1..(Len(b) + 1) /\ i - 1 + Len(Sep) \in 0..Len(b) /\ 1 - 1 = 0
        /\ Len(b) \in (i - 1 + Len(Sep))..Len(b) /\ (i - 1 + Len(Sep)) + 1 = i + Len(Sep)
    BY <1>1
  <2>2. SubSeq(b, 1, i - 1 + Len(Sep)) \o SubSeq(b, (i - 1 + Len(Sep)) + 1, Len(b)) = SubSeq(b, 1, Len(b))
    BY <2>1, ConcatAdjacentSubSeq
  <2> QED
    BY <2>1, <2>2, SubSeqFull
<1>5. SubSeq(b, 1, i - 1) \in Seq(Chars)
  BY <1>1, SubSeqProperties
<1>6. /\ SubSeq(b, i + Len(Sep), Len(b)) \in Seq(Chars)
      /\ Len(SubSeq(b, i + Len(Sep), Len(b))) <= Len(b)
  BY <1>1, SubSeqProperties
<1> QED
  BY <1>2, <1>3, <1>4, <1>5, <1>6

\* The first separator of a buffer ends the line that was written.
LEMMA FirstLine ==
  ASSUME NEW b \in Seq(Chars), NEW x \in Seq(Chars), NEW a \in Seq(Chars), NEW y \in Seq(Chars),
         b \o x = (a \o Sep) \o y, Clear(a), Len(Sep) < SizeMod,
         NEW i \in Found(b), \A j \in Found(b) : i <= j
  PROVE  SubSeq(b, 1, i - 1) = a
<1> DEFINE z == b \o x
           w == a \o Sep
<1>1. /\ i \in Nat /\ i >= 1 /\ SepAt(b, i) /\ Len(b) \in Nat /\ Len(a) \in Nat
      /\ Sep \in Seq(Chars) /\ Len(Sep) \in Nat /\ Len(Sep) >= 1
  BY FoundIs, TextFacts, LenProperties
<1>2. /\ w \in Seq(Chars) /\ Len(w) = Len(a) + Len(Sep)
      /\ \A k \in 1..Len(a) : w[k] = a[k]
      /\ \A k \in 1..Len(Sep) : w[Len(a) + k] = Sep[k]
  BY <1>1, ConcatProperties
<1>3. (\A k \in 1..Len(b) : z[k] = b[k]) /\ (\A k \in 1..Len(w) : z[k] = w[k])
  <2>1. \A k \in 1..Len(b) : z[k] = b[k]
    BY <1>1, ConcatProperties, LenProperties
  <2>2. z = w \o y
    OBVIOUS
  <2> HIDE DEF z, w
  <2>3. \A k \in 1..Len(w) : z[k] = w[k]
    BY <1>2, <2>2, ConcatProperties, LenProperties
  <2> QED
    BY <2>1, <2>3
<1> HIDE DEF z, w
<1>4. ASSUME Len(a) + 1 < i PROVE FALSE
  <2>1. Len(a) + Len(Sep) <= Len(b)
    BY <1>1, <1>4 DEF SepAt
  <2>2. ASSUME NEW j \in 1..Len(Sep) PROVE b[(Len(a) + 1) - 1 + j] = Sep[j]
    <3>1. Len(a) + j \in 1..Len(b) /\ Len(a) + j \in 1..Len(w) /\ (Len(a) + 1) - 1 + j = Len(a) + j
      BY <1>1, <1>2, <2>1
    <3> QED
      BY <1>2, <1>3, <3>1
  <2>3. SepAt(b, Len(a) + 1) /\ Len(a) + 1 \in Nat /\ Len(a) + 1 >= 1
    BY <1>1, <2>1, <2>2 DEF SepAt
  <2>4. Len(a) + 1 \in Found(b)
    BY <2>3, FoundIs
  <2> QED
    BY <1>1, <1>4, <2>4
<1>5. ASSUME i < Len(a) + 1 PROVE FALSE
  <2>1. i \in 1..Len(a) /\ i - 1 + Len(Sep) <= Len(w)
    BY <1>1, <1>2, <1>5
  <2>2. ASSUME NEW j \in 1..Len(Sep) PROVE w[i - 1 + j] = Sep[j]
    <3>1. i - 1 + j \in 1..Len(b) /\ i - 1 + j \in 1..Len(w)
      BY <1>1, <1>2, <2>1 DEF SepAt
    <3>2. b[i - 1 + j] = Sep[j]
      BY <1>1 DEF SepAt
    <3> QED
      BY <1>3, <3>1, <3>2
  <2>3. SepAt(w, i)
    BY <2>1, <2>2 DEF SepAt
  <2> QED
    BY <2>1, <2>3, ClearIs DEF w
<1>6. i = Len(a) + 1
  BY <1>1, <1>4, <1>5
<1>7. /\ SubSeq(b, 1, i - 1) \in Seq(Chars) /\ Len(SubSeq(b, 1, i - 1)) = Len(a)
      /\ \A k \in 1..Len(a) : SubSeq(b, 1, i - 1)[k] = b[k]
  <2>1. \A k \in 1..Len(a) : b[k] \in Chars
    BY <1>1, <1>6, ElementOfSeq DEF SepAt
  <2>2. i - 1 = Len(a)
    BY <1>1, <1>6
  <2>3. /\ SubSeq(b, 1, Len(a)) \in Seq(Chars) /\ Len(SubSeq(b, 1, Len(a))) = Len(a)
        /\ \A k \in 1..Len(a) : SubSeq(b, 1, Len(a))[k] = b[k]
    BY <1>1, <2>1, SubSeqProperties
  <2> QED
    BY <2>2, <2>3
<1>8. \A k \in 1..Len(a) : b[k] = a[k]
  <2>1. \A k \in 1..Len(a) : k \in 1..Len(b) /\ k \in 1..Len(w)
    BY <1>1, <1>2, <1>6 DEF SepAt
  <2> QED
    BY <1>2, <1>3, <2>1
<1> QED
  BY <1>7, <1>8, SeqEqual

-----------------------------------------------------------------------------
\* The stream of these lines.
Ended(ls) == [k \in DOMAIN ls |-> ls[k] \o Sep]
Written(ls) == FlattenSeq(Ended(ls))

\* Lines with their separators are sequences of bytes.
LEMMA EndedType ==
  ASSUME NEW ls \in Seq(Seq(Chars))
  PROVE  /\ Ended(ls) \in Seq(Seq(Chars)) /\ Len(Ended(ls)) = Len(ls) /\ DOMAIN ls = 1..Len(ls)
         /\ Written(ls) \in Seq(Chars)
<1>1. Len(ls) \in Nat /\ DOMAIN ls = 1..Len(ls) /\ \A k \in 1..Len(ls) : ls[k] \in Seq(Chars)
  BY LenProperties, ElementOfSeq
<1>2. \A k \in 1..Len(ls) : ls[k] \o Sep \in Seq(Chars)
  BY <1>1, TextFacts, ConcatProperties
<1>3. Ended(ls) \in Seq(Seq(Chars)) /\ Len(Ended(ls)) = Len(ls)
  BY <1>1, <1>2 DEF Ended
<1> QED
  BY <1>1, <1>3, FlattenType DEF Written

\* No line, no byte.
LEMMA WrittenNone == Written(<<>>) = <<>>
<1>1. Ended(<<>>) = <<>>
  BY DEF Ended
<1> QED
  BY <1>1, FlattenEmpty DEF Written

\* The stream of two lists of lines, one after the other.
LEMMA WrittenConcat ==
  ASSUME NEW us \in Seq(Seq(Chars)), NEW vs \in Seq(Seq(Chars))
  PROVE  Written(us \o vs) = Written(us) \o Written(vs)
<1>1. /\ us \o vs \in Seq(Seq(Chars)) /\ Len(us \o vs) = Len(us) + Len(vs)
      /\ Len(us) \in Nat /\ Len(vs) \in Nat
      /\ \A k \in 1..(Len(us) + Len(vs)) : (us \o vs)[k] = IF k <= Len(us) THEN us[k] ELSE vs[k - Len(us)]
  BY ConcatProperties, LenProperties
<1>2. /\ Ended(us \o vs) \in Seq(Seq(Chars)) /\ Len(Ended(us \o vs)) = Len(us) + Len(vs)
      /\ Ended(us) \in Seq(Seq(Chars)) /\ Len(Ended(us)) = Len(us) /\ DOMAIN us = 1..Len(us)
      /\ Ended(vs) \in Seq(Seq(Chars)) /\ Len(Ended(vs)) = Len(vs) /\ DOMAIN vs = 1..Len(vs)
      /\ DOMAIN (us \o vs) = 1..(Len(us) + Len(vs))
  BY <1>1, EndedType
<1>3. /\ Ended(us) \o Ended(vs) \in Seq(Seq(Chars))
      /\ Len(Ended(us) \o Ended(vs)) = Len(us) + Len(vs)
      /\ \A k \in 1..(Len(us) + Len(vs)) : (Ended(us) \o Ended(vs))[k] =
           IF k <= Len(us) THEN Ended(us)[k] ELSE Ended(vs)[k - Len(us)]
  <2>1. ASSUME NEW es \in Seq(Seq(Chars)), NEW fs \in Seq(Seq(Chars))
        PROVE  /\ es \o fs \in Seq(Seq(Chars)) /\ Len(es \o fs) = Len(es) + Len(fs)
               /\ \A k \in 1..(Len(es) + Len(fs)) : (es \o fs)[k] =
                    IF k <= Len(es) THEN es[k] ELSE fs[k - Len(es)]
    BY ConcatProperties
  <2>2. Ended(us) \in Seq(Seq(Chars)) /\ Ended(vs) \in Seq(Seq(Chars))
    BY <1>2
  <2>3. /\ Ended(us) \o Ended(vs) \in Seq(Seq(Chars))
        /\ Len(Ended(us) \o Ended(vs)) = Len(Ended(us)) + Len(Ended(vs))
        /\ \A k \in 1..(Len(Ended(us)) + Len(Ended(vs))) : (Ended(us) \o Ended(vs))[k] =
             IF k <= Len(Ended(us)) THEN Ended(us)[k] ELSE Ended(vs)[k - Len(Ended(us))]
    BY <2>1, <2>2
  <2>4. Len(Ended(us)) = Len(us) /\ Len(Ended(vs)) = Len(vs)
    BY <1>2
  <2> QED
    BY <2>3, <2>4
<1>4. ASSUME NEW k \in 1..(Len(us) + Len(vs)) PROVE Ended(us \o vs)[k] = (Ended(us) \o Ended(vs))[k]
  <2>1. Ended(us \o vs)[k] = (us \o vs)[k] \o Sep
    BY <1>2 DEF Ended
  <2>2. CASE k <= Len(us)
    <3>1. k \in DOMAIN us
      <4>1. Len(us) \in Nat /\ Len(vs) \in Nat /\ DOMAIN us = 1..Len(us)
        BY <1>1, <1>2
      <4> QED
        BY <2>2, <4>1
    <3>2. Ended(us)[k] = us[k] \o Sep
      BY <3>1 DEF Ended
    <3> QED
      BY <1>1, <1>3, <2>1, <2>2, <3>2
  <2>3. CASE ~(k <= Len(us))
    <3>1. k - Len(us) \in DOMAIN vs
      <4>1. Len(us) \in Nat /\ Len(vs) \in Nat /\ DOMAIN vs = 1..Len(vs)
        BY <1>1, <1>2
      <4> QED
        BY <2>3, <4>1
    <3>2. Ended(vs)[k - Len(us)] = vs[k - Len(us)] \o Sep
      BY <3>1 DEF Ended
    <3> QED
      BY <1>1, <1>3, <2>1, <2>3, <3>2
  <2> QED
    BY <2>2, <2>3
<1>5. Ended(us \o vs) = Ended(us) \o Ended(vs)
  BY <1>2, <1>3, <1>4, SeqEqual
<1> QED
  BY <1>2, <1>5, FlattenConcat DEF Written

\* The stream of one line.
LEMMA WrittenOne == ASSUME NEW l \in Seq(Chars) PROVE Written(<<l>>) = l \o Sep
<1> DEFINE one == <<l>>
           line == l \o Sep
<1>1. one \in Seq(Seq(Chars)) /\ Len(one) = 1 /\ DOMAIN one = {1} /\ one[1] = l
  OBVIOUS
<1>2. line \in Seq(Chars)
  BY TextFacts, ConcatProperties
<1>3. Ended(one) = <<line>>
  <2> HIDE DEF one
  <2>1. Ended(one) = [k \in {1} |-> line]
    BY <1>1 DEF Ended
  <2> HIDE DEF line
  <2>2. [k \in {1} |-> line] = <<line>>
    OBVIOUS
  <2> QED
    BY <2>1, <2>2
<1> HIDE DEF one, line
<1>4. Written(one) = line
  BY <1>2, <1>3, FlattenOne DEF Written
<1> QED
  BY <1>4 DEF one, line

\* And of one more line.
LEMMA WrittenAppend ==
  ASSUME NEW ls \in Seq(Seq(Chars)), NEW l \in Seq(Chars)
  PROVE  Written(Append(ls, l)) = Written(ls) \o (l \o Sep)
<1>1. <<l>> \in Seq(Seq(Chars)) /\ Append(ls, l) = ls \o <<l>>
  BY AppendIsConcat
<1> QED
  BY <1>1, WrittenConcat, WrittenOne

-----------------------------------------------------------------------------
\* What Cut goes through: how much of a text was cut after each of its characters.
CutSoFar(f, t, m) ==
  f = [n \in 0..m |->
        IF n = 0 THEN [ended |-> <<>>, tail |-> <<>>]
        ELSE IF t[n] = NewLine THEN [ended |-> Append(f[n - 1].ended, f[n - 1].tail), tail |-> <<>>]
        ELSE [ended |-> f[n - 1].ended, tail |-> Append(f[n - 1].tail, t[n])]]

\* There is such a function for a text of any length.
LEMMA CutExists ==
  ASSUME NEW t, NEW n \in Nat
  PROVE  \E f : CutSoFar(f, t, n)
<1> DEFINE bad == {m \in Nat : ~ \E f : CutSoFar(f, t, m)}
<1> SUFFICES ASSUME bad # {} PROVE FALSE
  OBVIOUS
<1>1. PICK m \in bad : \A k \in bad : ~(k < m)
  <2>1. bad \subseteq Nat
    OBVIOUS
  <2> HIDE DEF bad
  <2> QED
    BY <2>1, LeastNumber
<1>2. m \in Nat /\ ~ \E f : CutSoFar(f, t, m)
  OBVIOUS
<1>3. CASE m = 0
  <2> DEFINE f == [i \in 0..0 |-> [ended |-> <<>>, tail |-> <<>>]]
  <2>1. CutSoFar(f, t, 0)
    BY DEF CutSoFar
  <2> QED
    BY <1>2, <1>3, <2>1
<1>4. CASE m # 0
  <2>1. m - 1 \in Nat /\ m - 1 < m
    BY <1>2, <1>4
  <2>2. PICK f : CutSoFar(f, t, m - 1)
    <3>1. m - 1 \notin bad
      BY <1>1, <2>1
    <3> QED
      BY <2>1, <3>1
  <2> DEFINE Next1(c, x) == IF x = NewLine THEN [ended |-> Append(c.ended, c.tail), tail |-> <<>>]
                            ELSE [ended |-> c.ended, tail |-> Append(c.tail, x)]
             g == [i \in 0..m |-> IF i = m THEN Next1(f[m - 1], t[m]) ELSE f[i]]
  <2>3. \A i \in 0..(m - 1) : f[i] = IF i = 0 THEN [ended |-> <<>>, tail |-> <<>>] ELSE Next1(f[i - 1], t[i])
    BY <2>2 DEF CutSoFar
  <2>4. ASSUME NEW i \in 0..m
        PROVE  g[i] = IF i = 0 THEN [ended |-> <<>>, tail |-> <<>>] ELSE Next1(g[i - 1], t[i])
    <3> HIDE DEF Next1
    <3>1. CASE i = m
      <4>1. i # 0 /\ i - 1 \in 0..m /\ i - 1 # m
        BY <1>2, <1>4, <3>1
      <4> QED
        BY <3>1, <4>1
    <3>2. CASE i # m
      <4>1. i \in 0..(m - 1) /\ (i # 0 => i - 1 \in 0..m /\ i - 1 # m)
        BY <1>2, <3>2
      <4> QED
        BY <2>3, <3>2, <4>1
    <3> QED
      BY <3>1, <3>2
  <2>5. CutSoFar(g, t, m)
    <3>1. g = [i \in 0..m |-> g[i]]
      OBVIOUS
    <3> HIDE DEF g
    <3> QED
      BY <2>4, <3>1 DEF CutSoFar
  <2> QED
    BY <1>2, <2>5
<1> QED
  BY <1>3, <1>4

\* The lines and the tail of a text are made of its bytes.
LEMMA CutType ==
  ASSUME NEW S, NEW t \in Seq(S)
  PROVE  Cut(t).ended \in Seq(Seq(S)) /\ Cut(t).tail \in Seq(S)
<1> DEFINE n == Len(t)
           f == CHOOSE h : CutSoFar(h, t, n)
<1>1. n \in Nat
  BY LenProperties
<1>2. CutSoFar(f, t, n)
  <2>1. \E h : CutSoFar(h, t, n)
    BY <1>1, CutExists
  <2> QED
    BY <2>1, Zenon
<1>3. Cut(t) = f[n]
  BY DEF Cut, CutSoFar
<1> HIDE DEF f
<1> DEFINE Good(c) == c.ended \in Seq(Seq(S)) /\ c.tail \in Seq(S)
           bad == {i \in 0..n : ~Good(f[i])}
<1>4. bad = {}
  <2> SUFFICES ASSUME bad # {} PROVE FALSE
    OBVIOUS
  <2>1. PICK i \in bad : \A j \in bad : ~(j < i)
    <3>1. bad \subseteq Nat
      BY <1>1
    <3> HIDE DEF bad
    <3> QED
      BY <3>1, LeastNumber
  <2>2. i \in 0..n /\ ~Good(f[i])
    OBVIOUS
  <2> HIDE DEF Good, bad
  <2>3. /\ i = 0 => f[i] = [ended |-> <<>>, tail |-> <<>>]
        /\ i # 0 /\ t[i] = NewLine => f[i] = [ended |-> Append(f[i - 1].ended, f[i - 1].tail), tail |-> <<>>]
        /\ i # 0 /\ t[i] # NewLine => f[i] = [ended |-> f[i - 1].ended, tail |-> Append(f[i - 1].tail, t[i])]
    BY <1>2, <2>2 DEF CutSoFar
  <2>4. i # 0
    <3>1. <<>> \in Seq(Seq(S)) /\ <<>> \in Seq(S)
      BY EmptySeq
    <3>2. Good([ended |-> <<>>, tail |-> <<>>])
      BY <3>1 DEF Good
    <3> QED
      BY <2>2, <2>3, <3>2
  <2>5. i \in 1..n /\ i - 1 \in 0..n /\ i - 1 < i
    BY <1>1, <2>2, <2>4
  <2>6. Good(f[i - 1])
    BY <2>1, <2>5 DEF bad
  <2>7. t[i] \in S
    BY <2>5, ElementOfSeq
  <2>8. f[i - 1].ended \in Seq(Seq(S)) /\ f[i - 1].tail \in Seq(S)
    BY <2>6 DEF Good
  <2>9. Append(f[i - 1].ended, f[i - 1].tail) \in Seq(Seq(S)) /\ Append(f[i - 1].tail, t[i]) \in Seq(S)
    BY <2>7, <2>8, AppendProperties
  <2>10. <<>> \in Seq(S)
    BY EmptySeq
  <2>11. Good([ended |-> Append(f[i - 1].ended, f[i - 1].tail), tail |-> <<>>])
    BY <2>9, <2>10 DEF Good
  <2>12. Good([ended |-> f[i - 1].ended, tail |-> Append(f[i - 1].tail, t[i])])
    BY <2>8, <2>9 DEF Good
  <2> QED
    BY <2>2, <2>3, <2>4, <2>11, <2>12
<1>5. n \in 0..n
  BY <1>1
<1>6. Good(f[n])
  BY <1>4, <1>5
<1> QED
  BY <1>3, <1>6

-----------------------------------------------------------------------------
\* What o_txt gives to _o() is the lines that it promises, each with its separator.
LEMMA PiecesAreLines ==
  ASSUME WholeTexts, NEW t \in Texts
  PROVE  /\ LinesOf(t) \in Seq(Seq(Chars)) /\ \A k \in DOMAIN LinesOf(t) : Clear(LinesOf(t)[k])
         /\ Pieces(t) \in Seq(Seq(Chars))
         /\ Len(Sep) < SizeMod => FlattenSeq(Pieces(t)) = Written(LinesOf(t))
<1> DEFINE e == Cut(t).ended
           mark == SubSeq(Sep, 1, SepSize)
           pp == [k \in DOMAIN e |-> (IF e[k] = <<>> THEN <<>> ELSE <<e[k]>>) \o <<mark>>]
<1>1. e \in Seq(Seq(Chars)) /\ LinesOf(t) = e /\ \A k \in DOMAIN e : Clear(e[k])
  <2>1. /\ Cut(t).tail = <<>> /\ Cut(t).ended \in Seq(Seq(Chars))
        /\ \A k \in DOMAIN Cut(t).ended : Clear(Cut(t).ended[k])
    BY TextFacts, CutType DEF WholeTexts
  <2>2. LinesOf(t) = Cut(t).ended \o <<>>
    BY <2>1 DEF LinesOf
  <2> QED
    BY <2>1, <2>2, ConcatEmptySeq
<1>2. mark \in Seq(Chars) /\ (Len(Sep) < SizeMod => mark = Sep)
  <2>1. \A k \in 1..Len(Sep) : Sep[k] \in Chars
    BY TextFacts, ElementOfSeq
  <2>2. \A k \in 1..SepSize : Sep[k] \in Chars
    BY <2>1, TextFacts
  <2>3. mark \in Seq(Chars)
    BY <2>2, TextFacts, SubSeqProperties
  <2> QED
    BY <2>3, TextFacts, SubSeqFull
<1>3. Pieces(t) = FlattenSeq(pp)
  BY DEF Pieces
<1> HIDE DEF e, mark
<1>4. Len(e) \in Nat /\ DOMAIN e = 1..Len(e) /\ \A k \in 1..Len(e) : e[k] \in Seq(Chars)
  BY <1>1, LenProperties, ElementOfSeq
<1>5. ASSUME NEW s \in Seq(Chars)
      PROVE  LET p == (IF s = <<>> THEN <<>> ELSE <<s>>) \o <<mark>>
             IN  p \in Seq(Seq(Chars)) /\ FlattenSeq(p) = s \o mark
  <2>1. <<mark>> \in Seq(Seq(Chars)) /\ <<s>> \in Seq(Seq(Chars)) /\ <<>> \in Seq(Seq(Chars))
    BY <1>2
  <2>2. FlattenSeq(<<mark>>) = mark /\ FlattenSeq(<<s>>) = s
    BY <1>2, FlattenOne
  <2>3. CASE s = <<>>
    <3>1. <<>> \o <<mark>> = <<mark>> /\ <<>> \o mark = mark
      BY <1>2, <2>1, ConcatEmptySeq
    <3> QED
      BY <2>1, <2>2, <2>3, <3>1
  <2>4. CASE s # <<>>
    <3>1. <<s>> \o <<mark>> \in Seq(Seq(Chars))
      BY <2>1, ConcatProperties
    <3>2. FlattenSeq(<<s>> \o <<mark>>) = s \o mark
      BY <2>1, <2>2, FlattenConcat
    <3> QED
      BY <2>4, <3>1, <3>2
  <2> QED
    BY <2>3, <2>4
<1>6. pp \in Seq(Seq(Seq(Chars))) /\ DOMAIN pp = DOMAIN e
  <2>1. \A k \in 1..Len(e) : (IF e[k] = <<>> THEN <<>> ELSE <<e[k]>>) \o <<mark>> \in Seq(Seq(Chars))
    BY <1>4, <1>5
  <2> QED
    BY <1>4, <2>1
<1>7. \A k \in DOMAIN e : FlattenSeq(pp[k]) = e[k] \o mark
  <2>1. ASSUME NEW k \in DOMAIN e PROVE FlattenSeq(pp[k]) = e[k] \o mark
    <3>1. e[k] \in Seq(Chars) /\ pp[k] = (IF e[k] = <<>> THEN <<>> ELSE <<e[k]>>) \o <<mark>>
      BY <1>4
    <3> HIDE DEF pp
    <3> QED
      BY <1>5, <3>1
  <2> HIDE DEF pp
  <2> QED
    BY <2>1
<1> HIDE DEF pp
<1>8. Pieces(t) \in Seq(Seq(Chars))
  BY <1>3, <1>6, FlattenType
<1>9. ASSUME Len(Sep) < SizeMod PROVE FlattenSeq(Pieces(t)) = Written(LinesOf(t))
  <2>1. [k \in DOMAIN pp |-> FlattenSeq(pp[k])] = Ended(e)
    BY <1>2, <1>6, <1>7, <1>9 DEF Ended
  <2>2. FlattenSeq(FlattenSeq(pp)) = FlattenSeq([k \in DOMAIN pp |-> FlattenSeq(pp[k])])
    BY <1>6, FlattenTwice
  <2> QED
    BY <1>1, <1>3, <2>1, <2>2 DEF Written
<1> QED
  BY <1>1, <1>8, <1>9

-----------------------------------------------------------------------------
\* Joining is associative, for sequences of bytes.
LEMMA Regroup ==
  \A s, t, u \in Seq(Chars) : (s \o t) \o u = s \o (t \o u) /\ s \o t \in Seq(Chars)
BY ConcatAssociative, ConcatProperties

\* A sequence is its first element and the rest.
LEMMA HeadIsFirst ==
  ASSUME NEW S, NEW s \in Seq(S), s # <<>>
  PROVE  s = <<Head(s)>> \o Tail(s)
<1> DEFINE h == <<Head(s)>>
           t == Tail(s)
<1>1. /\ t \in Seq(S) /\ Len(t) = Len(s) - 1 /\ \A i \in 1..(Len(s) - 1) : t[i] = s[i + 1]
      /\ Len(s) \in Nat /\ Len(s) >= 1 /\ Head(s) \in S /\ Head(s) = s[1]
  BY HeadTailProperties, EmptySeq
<1>2. h \in Seq(S) /\ Len(h) = 1 /\ h[1] = s[1]
  BY <1>1
<1> HIDE DEF h, t
<1>3. /\ h \o t \in Seq(S) /\ Len(h \o t) = Len(h) + Len(t)
      /\ \A i \in 1..(Len(h) + Len(t)) : (h \o t)[i] = IF i <= Len(h) THEN h[i] ELSE t[i - Len(h)]
  <2>1. h \in Seq(S) /\ t \in Seq(S)
    BY <1>1, <1>2
  <2> QED
    BY <2>1, ConcatProperties
<1>4. Len(h \o t) = Len(s)
  BY <1>1, <1>2, <1>3
<1>5. ASSUME NEW i \in 1..Len(s) PROVE s[i] = (h \o t)[i]
  <2>1. i \in 1..(Len(h) + Len(t))
    BY <1>1, <1>2
  <2>2. CASE i = 1
    BY <1>2, <1>3, <2>1, <2>2
  <2>3. CASE i # 1
    <3>1. i - 1 \in 1..(Len(s) - 1) /\ (i - 1) + 1 = i /\ ~(i <= 1)
      BY <1>1, <2>3
    <3> QED
      BY <1>1, <1>2, <1>3, <2>1, <3>1
  <2> QED
    BY <2>2, <2>3
<1>6. s = h \o t
  BY <1>3, <1>4, <1>5, SeqEqual
<1> QED
  BY <1>6 DEF h, t

\* What a prefix leaves of a sequence.
LEMMA PrefixRest ==
  ASSUME NEW S, NEW s \in Seq(S), NEW t \in Seq(S), IsPrefix(s, t)
  PROVE  /\ SubSeq(t, Len(s) + 1, Len(t)) \in Seq(S)
         /\ t = s \o SubSeq(t, Len(s) + 1, Len(t))
         /\ Len(SubSeq(t, Len(s) + 1, Len(t))) = Len(t) - Len(s)
<1>1. Len(s) \in Nat /\ Len(t) \in Nat /\ Len(s) <= Len(t)
  BY LenProperties, PrefixIs
<1>2. SubSeq(t, 1, Len(s)) = s
  BY SubSeqFull DEF IsPrefix
<1>3. SubSeq(t, 1, Len(s)) \o SubSeq(t, Len(s) + 1, Len(t)) = t
  <2>1. 1 \in 1..(Len(t) + 1) /\ Len(s) \in (1 - 1)..Len(t) /\ Len(t) \in Len(s)..Len(t)
    BY <1>1
  <2> QED
    BY <2>1, ConcatAdjacentSubSeq, SubSeqFull
<1>4. \A k \in (Len(s) + 1)..Len(t) : t[k] \in S
  BY <1>1, ElementOfSeq
<1>5. /\ SubSeq(t, Len(s) + 1, Len(t)) \in Seq(S)
      /\ Len(SubSeq(t, Len(s) + 1, Len(t))) = Len(t) - Len(s)
  BY <1>1, <1>4, SubSeqProperties
<1> QED
  BY <1>2, <1>3, <1>5

\* A sequence is a prefix of a longer one, and so are its prefixes.
LEMMA PrefixOf ==
  ASSUME NEW S, NEW s \in Seq(S), NEW t \in Seq(S)
  PROVE  /\ IsPrefix(s, s \o t) /\ s \o t \in Seq(S)
         /\ \A r \in Seq(S) : IsPrefix(r, s) => IsPrefix(r, s \o t)
<1>1. /\ s \o t \in Seq(S) /\ Len(s \o t) = Len(s) + Len(t) /\ Len(s) \in Nat /\ Len(t) \in Nat
      /\ \A k \in 1..Len(s) : (s \o t)[k] = s[k]
  BY ConcatProperties, LenProperties
<1> DEFINE u == s \o t
<1> HIDE DEF u
<1>2. ASSUME NEW r \in Seq(S), IsPrefix(r, s) PROVE IsPrefix(r, u)
  <2>1. Len(r) <= Len(s) /\ Len(r) \in Nat /\ \A k \in 1..Len(r) : r[k] = s[k]
    BY <1>2, PrefixIs, LenProperties
  <2>2. u \in Seq(S) /\ Len(r) <= Len(u)
    BY <1>1, <2>1 DEF u
  <2>3. \A k \in 1..Len(r) : r[k] = u[k]
    BY <1>1, <2>1 DEF u
  <2> QED
    BY <2>2, <2>3, PrefixIs
<1>3. IsPrefix(s, s)
  BY <1>1, PrefixIs
<1> QED
  BY <1>1, <1>2, <1>3 DEF u

\* The start of a longer sequence.
LEMMA SameStart ==
  ASSUME NEW S, NEW s \in Seq(S), NEW t \in Seq(S), NEW n \in 0..Len(s)
  PROVE  SubSeq(s \o t, 1, n) = SubSeq(s, 1, n)
<1>1. Len(s) \in Nat /\ n \in Nat
  BY LenProperties
<1>2. CASE n = 0
  BY <1>2, SubSeqEmpty
<1>3. CASE n # 0
  <2>1. 1 \in 1..Len(s) /\ n \in 1..Len(s)
    BY <1>1, <1>3
  <2> QED
    BY <2>1, SubSeqOfConcat1
<1> QED
  BY <1>2, <1>3

\* What is asked is written: all but what the call under way still has to give to
\* _o(), or a part of it when the writer has failed.
WriterState ==
  /\ \A k \in DOMAIN asked : Clear(asked[k])
  /\ failed => pieces = <<>>
  /\ Len(Sep) < SizeMod =>
       IF failed THEN IsPrefix(stream, Written(asked)) ELSE stream \o FlattenSeq(pieces) = Written(asked)

\* A separator whose size does not fit is never found.
SizeFits == Len(Sep) = SizeMod => lines = <<>>

TextIInv == TextInv /\ WriterState /\ SizeFits

\* At first nothing was asked for and nothing is on its way.
LEMMA TextInitIInv == TextInit => TextIInv
<1> SUFFICES ASSUME TextInit PROVE TextIInv
  OBVIOUS
<1>1. /\ asked = <<>> /\ calls = 0 /\ pieces = <<>> /\ failed = FALSE /\ stream = <<>>
      /\ state = "idle" /\ received = 0 /\ buffer = <<>> /\ lines = <<>>
  BY DEF TextInit
<1>2. <<>> \in Seq(Chars) /\ <<>> \in Seq(Seq(Chars)) /\ Len(<<>>) = 0 /\ MaxCalls \in Nat
  BY EmptySeq, TextAssumption DEF TextAssumption
<1>3. TextTypeOK
  <2>1. received \in 0..Len(stream) /\ Len(buffer) <= received
    BY <1>1, <1>2
  <2>2. calls \in 0..MaxCalls
    BY <1>1, <1>2
  <2> QED
    BY <1>1, <1>2, <2>1, <2>2 DEF TextTypeOK
<1>4. <<>> \o <<>> = <<>> /\ SubSeq(<<>>, 1, 0) = <<>>
  BY <1>2, ConcatEmptySeq, SubSeqEmpty
<1>5. NoByteLost
  <2>1. Written(lines) \o buffer = SubSeq(stream, 1, received)
    BY <1>1, <1>4, WrittenNone
  <2> QED
    BY <2>1 DEF NoByteLost, Written, Ended
<1>6. LinesAreWritten
  BY <1>1, <1>2, <1>4, PrefixOf DEF LinesAreWritten
<1>7. stream \o FlattenSeq(pieces) = Written(asked)
  BY <1>1, <1>4, WrittenNone, FlattenEmpty
<1> QED
  BY <1>1, <1>3, <1>5, <1>6, <1>7 DEF TextIInv, TextInv, WriterState, SizeFits

\* The reader keeps what it has while the stream grows and more is asked.
LEMMA ReaderWaits ==
  ASSUME TextIInv, UNCHANGED lineReader,
         NEW s \in Seq(Chars), stream' = stream \o s,
         NEW m \in Seq(Seq(Chars)), asked' = asked \o m,
         pieces' \in Seq(Seq(Chars)), calls' \in 0..MaxCalls, failed' \in BOOLEAN
  PROVE  TextInv' /\ SizeFits'
<1>0. TextTypeOK /\ LinesAreWritten /\ NoByteLost /\ SizeFits
  BY DEF TextIInv, TextInv
<1>1. lines' = lines /\ buffer' = buffer /\ received' = received /\ state' = state
  BY DEF lineReader
<1>2. /\ stream \in Seq(Chars) /\ received \in 0..Len(stream) /\ asked \in Seq(Seq(Chars))
      /\ lines \in Seq(Seq(Chars)) /\ Len(stream) \in Nat
  BY <1>0, LenProperties DEF TextTypeOK
<1>3. stream' \in Seq(Chars) /\ Len(stream') = Len(stream) + Len(s) /\ Len(s) \in Nat
  BY <1>2, ConcatProperties, LenProperties
<1>4. asked' \in Seq(Seq(Chars))
  BY <1>2, ConcatProperties
<1>5. TextTypeOK'
  <2>1. received' \in 0..Len(stream')
    BY <1>1, <1>2, <1>3
  <2> QED
    BY <1>0, <1>1, <1>3, <1>4, <2>1 DEF TextTypeOK, Chars
<1>6. LinesAreWritten'
  BY <1>0, <1>1, <1>2, PrefixOf DEF LinesAreWritten
<1>7. NoByteLost'
  <2>1. SubSeq(stream', 1, received') = SubSeq(stream, 1, received)
    BY <1>1, <1>2, SameStart
  <2> QED
    BY <1>0, <1>1, <2>1 DEF NoByteLost
<1> QED
  BY <1>0, <1>1, <1>5, <1>6, <1>7 DEF TextInv, SizeFits

\* The lines that are asked are not ambiguous.
LEMMA ClearKept ==
  ASSUME NEW us \in Seq(Seq(Chars)), NEW vs \in Seq(Seq(Chars)),
         \A k \in DOMAIN us : Clear(us[k]), \A k \in DOMAIN vs : Clear(vs[k])
  PROVE  \A k \in DOMAIN (us \o vs) : Clear((us \o vs)[k])
<1>1. /\ DOMAIN (us \o vs) = 1..(Len(us) + Len(vs)) /\ Len(us) \in Nat /\ Len(vs) \in Nat
      /\ DOMAIN us = 1..Len(us) /\ DOMAIN vs = 1..Len(vs)
      /\ \A k \in 1..(Len(us) + Len(vs)) : (us \o vs)[k] = IF k <= Len(us) THEN us[k] ELSE vs[k - Len(us)]
  BY ConcatProperties, LenProperties
<1>2. ASSUME NEW k \in DOMAIN (us \o vs) PROVE Clear((us \o vs)[k])
  <2>1. CASE k <= Len(us)
    <3>1. k \in DOMAIN us /\ (us \o vs)[k] = us[k]
      BY <1>1, <2>1
    <3> QED
      BY <3>1
  <2>2. CASE ~(k <= Len(us))
    <3>1. k - Len(us) \in DOMAIN vs /\ (us \o vs)[k] = vs[k - Len(us)]
      BY <1>1, <2>2
    <3> QED
      BY <3>1
  <2> QED
    BY <2>1, <2>2
<1> QED
  BY <1>2

\* A call of the writer: it asks for these lines, and gives their stream to _o().
LEMMA AsksFor ==
  ASSUME TextIInv, pieces = <<>>, ~failed, failed' = failed, stream' = stream, UNCHANGED lineReader,
         calls' \in 0..MaxCalls,
         NEW m \in Seq(Seq(Chars)), asked' = asked \o m, \A k \in DOMAIN m : Clear(m[k]),
         pieces' \in Seq(Seq(Chars)), Len(Sep) < SizeMod => FlattenSeq(pieces') = Written(m)
  PROVE  TextIInv'
<1>0. TextTypeOK /\ WriterState /\ stream \in Seq(Chars) /\ asked \in Seq(Seq(Chars))
  BY DEF TextIInv, TextInv, TextTypeOK
<1>1. <<>> \in Seq(Chars) /\ stream' = stream \o <<>>
  BY <1>0, ConcatEmptySeq, EmptySeq
<1>2. failed' \in BOOLEAN
  BY <1>0 DEF TextTypeOK
<1>3. TextInv' /\ SizeFits'
  BY <1>1, <1>2, ReaderWaits
<1>4. \A k \in DOMAIN asked' : Clear(asked'[k])
  BY <1>0, ClearKept DEF WriterState
<1>5. ASSUME Len(Sep) < SizeMod PROVE stream' \o FlattenSeq(pieces') = Written(asked')
  <2>1. stream = Written(asked)
    BY <1>0, <1>5, FlattenEmpty, ConcatEmptySeq DEF WriterState
  <2>2. Written(asked') = Written(asked) \o Written(m)
    BY <1>0, WrittenConcat
  <2> QED
    BY <1>5, <2>1, <2>2
<1>6. WriterState'
  BY <1>4, <1>5 DEF WriterState, Clear, Written, Ended
<1> QED
  BY <1>3, <1>6 DEF TextIInv

\* o_line: the line it is asked for is the one it has to write.
LEMMA OLineKeeps == TextIInv /\ OLine => TextIInv'
<1> SUFFICES ASSUME TextIInv, OLine PROVE TextIInv'
  OBVIOUS
<1>1. PICK l \in Lines : asked' = Append(asked, l) /\ pieces' = <<l, Sep>>
  BY DEF OLine
<1>2. l \in Seq(Chars) /\ Sep \in Seq(Chars) /\ Clear(l)
  BY TextFacts, TextAssumption DEF TextAssumption, Clear
<1> DEFINE m == <<l>>
<1>3. m \in Seq(Seq(Chars)) /\ DOMAIN m = {1} /\ m[1] = l
  BY <1>2
<1>4. asked' = asked \o m
  BY <1>1, <1>2, AppendIsConcat DEF TextIInv, TextInv, TextTypeOK
<1>5. pieces' \in Seq(Seq(Chars)) /\ pieces' = Append(m, Sep)
  BY <1>1, <1>2
<1>6. FlattenSeq(pieces') = Written(m)
  <2>1. FlattenSeq(m) = l /\ Written(m) = l \o Sep
    BY <1>2, FlattenOne, WrittenOne
  <2> HIDE DEF m
  <2> QED
    BY <1>2, <1>3, <1>5, <2>1, FlattenAppend
<1>7. calls' \in 0..MaxCalls
  BY TextAssumption DEF OLine, TextIInv, TextInv, TextTypeOK, TextAssumption
<1> HIDE DEF m
<1> QED
  BY <1>2, <1>3, <1>4, <1>5, <1>6, <1>7, AsksFor DEF OLine

\* o_txt: so are the lines of its text, as there is no tail.
LEMMA OTxtKeeps == ASSUME WholeTexts PROVE TextIInv /\ OTxt => TextIInv'
<1> SUFFICES ASSUME TextIInv, OTxt PROVE TextIInv'
  OBVIOUS
<1>1. PICK t \in Texts : asked' = asked \o LinesOf(t) /\ pieces' = Pieces(t)
  BY DEF OTxt
<1>2. calls' \in 0..MaxCalls
  BY TextAssumption DEF OTxt, TextIInv, TextInv, TextTypeOK, TextAssumption
<1> QED
  BY <1>1, <1>2, PiecesAreLines, AsksFor DEF OTxt

\* What is left to write begins with what the next _o() writes.
LEMMA TodoIs ==
  ASSUME TextIInv, pieces # <<>>
  PROVE  /\ Head(pieces) \in Seq(Chars) /\ Tail(pieces) \in Seq(Seq(Chars)) /\ ~failed
         /\ FlattenSeq(pieces) = Head(pieces) \o FlattenSeq(Tail(pieces))
         /\ FlattenSeq(Tail(pieces)) \in Seq(Chars)
<1>1. pieces \in Seq(Seq(Chars)) /\ ~failed
  BY DEF TextIInv, TextInv, TextTypeOK, WriterState
<1>2. Head(pieces) \in Seq(Chars) /\ Tail(pieces) \in Seq(Seq(Chars)) /\ pieces = <<Head(pieces)>> \o Tail(pieces)
  BY <1>1, HeadTailProperties, HeadIsFirst
<1> DEFINE h == <<Head(pieces)>>
<1>3. h \in Seq(Seq(Chars)) /\ FlattenSeq(h) = Head(pieces)
  BY <1>2, FlattenOne
<1>4. FlattenSeq(h \o Tail(pieces)) = FlattenSeq(h) \o FlattenSeq(Tail(pieces))
  <2> HIDE DEF h
  <2> QED
    BY <1>2, <1>3, FlattenConcat
<1> QED
  BY <1>1, <1>2, <1>3, <1>4, FlattenType

\* An _o() moves what it writes from what is to be written to the stream.
LEMMA SendKeeps == TextIInv /\ Send => TextIInv'
<1> SUFFICES ASSUME TextIInv, Send PROVE TextIInv'
  OBVIOUS
<1>1. /\ pieces # <<>> /\ stream' = stream \o Head(pieces) /\ pieces' = Tail(pieces)
      /\ asked' = asked /\ calls' = calls /\ failed' = failed /\ UNCHANGED lineReader
  BY DEF Send
<1>2. /\ stream \in Seq(Chars) /\ asked \in Seq(Seq(Chars)) /\ calls \in 0..MaxCalls /\ failed \in BOOLEAN
      /\ WriterState
  BY DEF TextIInv, TextInv, TextTypeOK
<1>3. <<>> \in Seq(Seq(Chars)) /\ asked' = asked \o <<>>
  BY <1>1, <1>2, ConcatEmptySeq, EmptySeq
<1>4. TextInv' /\ SizeFits'
  BY <1>1, <1>2, <1>3, TodoIs, ReaderWaits
<1>5. ASSUME Len(Sep) < SizeMod PROVE stream' \o FlattenSeq(pieces') = Written(asked')
  <2>1. stream \o FlattenSeq(pieces) = Written(asked)
    BY <1>1, <1>2, <1>5, TodoIs DEF WriterState
  <2>2. (stream \o Head(pieces)) \o FlattenSeq(Tail(pieces)) = stream \o (Head(pieces) \o FlattenSeq(Tail(pieces)))
    <3>1. Head(pieces) \in Seq(Chars) /\ FlattenSeq(Tail(pieces)) \in Seq(Chars) /\ stream \in Seq(Chars)
      BY <1>1, <1>2, TodoIs
    <3> QED
      BY <3>1, Regroup
  <2> QED
    BY <1>1, <2>1, <2>2, TodoIs
<1>6. WriterState'
  BY <1>1, <1>2, <1>5, TodoIs DEF WriterState, Clear, Written, Ended
<1> QED
  BY <1>4, <1>6 DEF TextIInv

\* One that fails leaves a part of it in the stream, and nothing follows.
LEMMA SendFailsKeeps == TextIInv /\ SendFails => TextIInv'
<1> SUFFICES ASSUME TextIInv, SendFails PROVE TextIInv'
  OBVIOUS
<1>1. /\ pieces # <<>> /\ Head(pieces) # <<>> /\ pieces' = <<>> /\ failed'
      /\ asked' = asked /\ calls' = calls /\ UNCHANGED lineReader
  BY DEF SendFails
<1> DEFINE h == Head(pieces)
<1>2. PICK n \in 0..(Len(h) - 1) : stream' = stream \o SubSeq(h, 1, n)
  BY DEF SendFails
<1>3. /\ stream \in Seq(Chars) /\ asked \in Seq(Seq(Chars)) /\ calls \in 0..MaxCalls
      /\ WriterState /\ failed' = TRUE
  BY DEF TextIInv, TextInv, TextTypeOK, SendFails
<1>4. h \in Seq(Chars) /\ Len(h) \in Nat /\ n \in Nat /\ n <= Len(h)
  BY <1>1, <1>2, TodoIs, LenProperties
<1> HIDE DEF h
<1>5. \A k \in 1..Len(h) : h[k] \in Chars
  BY <1>4, ElementOfSeq
<1>6. SubSeq(h, 1, n) \in Seq(Chars) /\ SubSeq(h, n + 1, Len(h)) \in Seq(Chars)
  BY <1>4, <1>5, SubSeqProperties
<1>7. h = SubSeq(h, 1, n) \o SubSeq(h, n + 1, Len(h))
  <2>1. 1 \in 1..(Len(h) + 1) /\ n \in (1 - 1)..Len(h) /\ Len(h) \in n..Len(h)
    BY <1>4
  <2> QED
    BY <1>4, <2>1, ConcatAdjacentSubSeq, SubSeqFull
<1>8. <<>> \in Seq(Seq(Chars)) /\ asked' = asked \o <<>>
  BY <1>1, <1>3, ConcatEmptySeq, EmptySeq
<1>9. TextInv' /\ SizeFits'
  BY <1>1, <1>2, <1>3, <1>6, <1>8, ReaderWaits
<1>10. ASSUME Len(Sep) < SizeMod PROVE IsPrefix(stream', Written(asked'))
  <2> DEFINE a == SubSeq(h, 1, n)
             b == SubSeq(h, n + 1, Len(h))
             r == FlattenSeq(Tail(pieces))
  <2>1. a \in Seq(Chars) /\ b \in Seq(Chars) /\ r \in Seq(Chars) /\ h = a \o b /\ FlattenSeq(pieces) = h \o r
    BY <1>1, <1>6, <1>7, TodoIs DEF h
  <2>2. Written(asked) = stream \o FlattenSeq(pieces)
    BY <1>1, <1>3, <1>10, TodoIs DEF WriterState
  <2> HIDE DEF a, b, r
  <2>3. b \o r \in Seq(Chars) /\ (a \o b) \o r = a \o (b \o r)
    BY <2>1, Regroup
  <2>4. stream \o (a \o (b \o r)) = (stream \o a) \o (b \o r)
    <3>1. stream \in Seq(Chars) /\ a \in Seq(Chars) /\ b \o r \in Seq(Chars)
      BY <1>3, <2>1, <2>3
    <3> QED
      BY <3>1, Regroup
  <2>5. stream \o a \in Seq(Chars)
    BY <1>3, <2>1, ConcatProperties
  <2>6. IsPrefix(stream \o a, (stream \o a) \o (b \o r))
    BY <2>3, <2>5, PrefixOf
  <2> QED
    BY <1>1, <1>2, <2>1, <2>2, <2>3, <2>4, <2>6 DEF a
<1>11. WriterState'
  BY <1>1, <1>3, <1>10 DEF WriterState, Clear, Written, Ended
<1> QED
  BY <1>9, <1>11 DEF TextIInv

\* The writer does nothing while the reader does something.
LEMMA WriterWaits ==
  ASSUME TextIInv, UNCHANGED writer, lines' \in Seq(Seq(Chars)), state' \in {"idle", "reading", "closed"},
         received' \in 0..Len(stream), buffer' \in Seq(Chars), Len(buffer') <= received',
         Written(lines') \o buffer' = SubSeq(stream, 1, received'),
         IsPrefix(lines', asked), lines' = lines \/ Len(Sep) < SizeMod
  PROVE  TextIInv'
<1>1. asked' = asked /\ calls' = calls /\ pieces' = pieces /\ failed' = failed /\ stream' = stream
  BY DEF writer
<1>2. TextTypeOK'
  BY <1>1 DEF TextIInv, TextInv, TextTypeOK, Chars
<1>3. LinesAreWritten' /\ NoByteLost'
  BY <1>1 DEF LinesAreWritten, NoByteLost, Written, Ended
<1>4. WriterState'
  BY <1>1 DEF TextIInv, WriterState, Clear, Written, Ended
<1>5. SizeFits'
  <2>1. Len(Sep) \in Nat /\ SizeMod \in Nat
    BY TextFacts, TextAssumption DEF TextAssumption
  <2> QED
    BY <2>1 DEF TextIInv, SizeFits
<1> QED
  BY <1>2, <1>3, <1>4, <1>5 DEF TextIInv, TextInv

\* Calls, timeouts and the end of the stream take no byte.
LEMMA WaitsKeep == TextIInv /\ (CallLine \/ TimesOut \/ Ends) => TextIInv'
<1> SUFFICES ASSUME TextIInv, CallLine \/ TimesOut \/ Ends PROVE TextIInv'
  OBVIOUS
<1>1. /\ UNCHANGED writer /\ lines' = lines /\ received' = received /\ buffer' = buffer
      /\ state' \in {"idle", "reading", "closed"}
  BY DEF CallLine, TimesOut, Ends, Kept
<1>2. /\ lines \in Seq(Seq(Chars)) /\ received \in 0..Len(stream) /\ buffer \in Seq(Chars)
      /\ Len(buffer) <= received /\ IsPrefix(lines, asked)
  BY DEF TextIInv, TextInv, TextTypeOK, LinesAreWritten
<1>3. Written(lines) \o buffer = SubSeq(stream, 1, received)
  BY DEF TextIInv, TextInv, NoByteLost, Written, Ended
<1>4. Written(lines') \o buffer' = SubSeq(stream, 1, received')
  BY <1>1, <1>3
<1> QED
  BY <1>1, <1>2, <1>4, WriterWaits

\* What is received goes to the end of the buffer.
LEMMA ReceiveKeeps == TextIInv /\ Receive => TextIInv'
<1> SUFFICES ASSUME TextIInv, Receive PROVE TextIInv'
  OBVIOUS
<1>1. /\ UNCHANGED writer /\ lines' = lines /\ state' = state
      /\ state \in {"idle", "reading", "closed"}
  BY DEF Receive, TextIInv, TextInv, TextTypeOK
<1>2. PICK n \in (received + 1)..Len(stream) :
        received' = n /\ buffer' = buffer \o SubSeq(stream, received + 1, n)
  BY DEF Receive, Fresh
<1>3. /\ lines \in Seq(Seq(Chars)) /\ received \in 0..Len(stream) /\ buffer \in Seq(Chars)
      /\ Len(buffer) <= received /\ IsPrefix(lines, asked) /\ stream \in Seq(Chars)
      /\ Len(buffer) \in Nat /\ Len(stream) \in Nat
  BY LenProperties DEF TextIInv, TextInv, TextTypeOK, LinesAreWritten
<1> DEFINE new == SubSeq(stream, received + 1, n)
<1>4. new \in Seq(Chars) /\ Len(new) = n - received
  <2>1. \A k \in (received + 1)..n : stream[k] \in Chars
    BY <1>3, ElementOfSeq
  <2> QED
    BY <1>3, <2>1, SubSeqProperties
<1>5. buffer' = buffer \o new
  BY <1>2
<1>6. SubSeq(stream, 1, received) \o new = SubSeq(stream, 1, n)
  <2>1. 1 \in 1..(Len(stream) + 1) /\ received \in (1 - 1)..Len(stream) /\ n \in received..Len(stream)
    BY <1>3
  <2> QED
    BY <1>3, <2>1, ConcatAdjacentSubSeq
<1> HIDE DEF new
<1>7. buffer' \in Seq(Chars) /\ Len(buffer') = Len(buffer) + Len(new)
  BY <1>3, <1>4, <1>5, ConcatProperties
<1>8. received' \in 0..Len(stream) /\ Len(buffer') <= received'
  BY <1>2, <1>3, <1>4, <1>7
<1>9. Written(lines') \o buffer' = SubSeq(stream, 1, received')
  <2>1. Written(lines) \o buffer = SubSeq(stream, 1, received)
    BY DEF TextIInv, TextInv, NoByteLost, Written, Ended
  <2>2. Written(lines) \in Seq(Chars)
    BY <1>3, EndedType
  <2>3. Written(lines) \o (buffer \o new) = (Written(lines) \o buffer) \o new
    BY <1>3, <1>4, <2>2, Regroup
  <2> QED
    BY <1>1, <1>2, <1>5, <1>6, <2>1, <2>3
<1> QED
  BY <1>1, <1>3, <1>7, <1>8, <1>9, WriterWaits

\* The separator that is found first.
LEMMA EndingIs ==
  ASSUME buffer \in Seq(Chars), Len(Sep) < SizeMod, Found(buffer) # {}
  PROVE  Ending \in Found(buffer) /\ \A j \in Found(buffer) : Ending <= j
<1>1. PICK i \in Found(buffer) : \A j \in Found(buffer) : ~(j < i)
  BY FoundIs, LeastNumber
<1>2. \A j \in Found(buffer) : i <= j
  BY <1>1, FoundIs
<1>3. Ending = CHOOSE x \in Found(buffer) : \A y \in Found(buffer) : x <= y
  BY DEF Ending, Min
<1> QED
  BY <1>2, <1>3

\* The line that is returned is the next one that was asked for: it is what comes before
\* the first separator of what was written after the lines returned so far.
LEMMA NextLine ==
  ASSUME TextIInv, Len(Sep) < SizeMod, Found(buffer) # {}
  PROVE  Len(lines) + 1 \in DOMAIN asked /\ asked[Len(lines) + 1] = SubSeq(buffer, 1, Ending - 1)
<1>1. /\ asked \in Seq(Seq(Chars)) /\ lines \in Seq(Seq(Chars)) /\ stream \in Seq(Chars)
      /\ buffer \in Seq(Chars) /\ received \in 0..Len(stream) /\ pieces \in Seq(Seq(Chars))
      /\ IsPrefix(lines, asked) /\ WriterState
  BY DEF TextIInv, TextInv, TextTypeOK, LinesAreWritten
<1>2. Ending \in Found(buffer) /\ \A j \in Found(buffer) : Ending <= j
  BY <1>1, EndingIs
<1> DEFINE more == SubSeq(asked, Len(lines) + 1, Len(asked))
           late == SubSeq(stream, received + 1, Len(stream))
           all == Written(asked)
           done == Written(lines)
<1>3. more \in Seq(Seq(Chars)) /\ asked = lines \o more /\ Len(more) = Len(asked) - Len(lines)
  BY <1>1, PrefixRest
<1>4. late \in Seq(Chars) /\ stream = SubSeq(stream, 1, received) \o late
  <2>1. Len(stream) \in Nat /\ 1 \in 1..(Len(stream) + 1)
    BY <1>1, LenProperties
  <2>2. received \in (1 - 1)..Len(stream) /\ Len(stream) \in received..Len(stream) /\ received \in Int
    BY <1>1, <2>1
  <2>3. \A k \in (received + 1)..Len(stream) : stream[k] \in Chars
    BY <1>1, <2>1, <2>2, ElementOfSeq
  <2>4. late \in Seq(Chars)
    BY <2>1, <2>2, <2>3, SubSeqProperties
  <2>5. SubSeq(stream, 1, received) \o late = SubSeq(stream, 1, Len(stream))
    BY <1>1, <2>1, <2>2, ConcatAdjacentSubSeq
  <2> QED
    BY <1>1, <2>4, <2>5, SubSeqFull
<1>5. all \in Seq(Chars) /\ done \in Seq(Chars)
  BY <1>1, EndedType
<1> HIDE DEF late
<1>6. PICK r \in Seq(Chars) : all = stream \o r
  <2>1. CASE failed
    <3>1. IsPrefix(stream, all)
      BY <1>1, <2>1 DEF WriterState
    <3> HIDE DEF all
    <3> QED
      <4>1. all \in Seq(Chars) /\ stream \in Seq(Chars) /\ IsPrefix(stream, all)
        BY <1>1, <1>5, <3>1
      <4>2. /\ SubSeq(all, Len(stream) + 1, Len(all)) \in Seq(Chars)
            /\ all = stream \o SubSeq(all, Len(stream) + 1, Len(all))
        BY <4>1, PrefixRest
      <4> QED
        BY <4>2
  <2>2. CASE ~failed
    BY <1>1, <2>2, FlattenType DEF WriterState
  <2> QED
    BY <2>1, <2>2
<1>7. all = done \o Written(more)
  <2> HIDE DEF more
  <2> QED
    BY <1>1, <1>3, WrittenConcat
<1>8. stream = (done \o buffer) \o late
  BY <1>4 DEF TextIInv, TextInv, NoByteLost, Written, Ended
<1>9. Written(more) \in Seq(Chars)
  BY <1>3, EndedType
<1> HIDE DEF all, done, more
<1>10. buffer \o (late \o r) = Written(more) /\ late \o r \in Seq(Chars)
  <2>1. late \o r \in Seq(Chars) /\ buffer \o (late \o r) \in Seq(Chars) /\ done \o buffer \in Seq(Chars)
    BY <1>1, <1>4, <1>5, ConcatProperties
  <2>2. ((done \o buffer) \o late) \o r = (done \o buffer) \o (late \o r)
    <3>1. done \o buffer \in Seq(Chars) /\ late \in Seq(Chars) /\ r \in Seq(Chars)
      BY <1>4, <2>1
    <3> QED
      BY <3>1, Regroup
  <2>3. (done \o buffer) \o (late \o r) = done \o (buffer \o (late \o r))
    <3> DEFINE x == late \o r
    <3>1. done \in Seq(Chars) /\ buffer \in Seq(Chars) /\ x \in Seq(Chars)
      BY <1>1, <1>5, <2>1
    <3> HIDE DEF x
    <3>2. (done \o buffer) \o x = done \o (buffer \o x)
      BY <3>1, Regroup
    <3> QED
      BY <3>2 DEF x
  <2>4. done \o (buffer \o (late \o r)) = done \o Written(more)
    BY <1>6, <1>7, <1>8, <2>2, <2>3
  <2> QED
    BY <1>5, <1>9, <2>1, <2>4, ConcatSimplifications
<1>11. more # <<>>
  <2>1. ASSUME more = <<>> PROVE FALSE
    <3>1. buffer \o (late \o r) = <<>>
      BY <1>10, <2>1, WrittenNone
    <3>2. buffer = <<>>
      BY <1>1, <1>10, <3>1, ConcatSimplifications
    <3>3. Ending \in Nat /\ Ending >= 1 /\ SepAt(buffer, Ending)
      BY <1>1, <1>2, FoundIs
    <3>4. Len(buffer) = 0 /\ Len(Sep) \in Nat /\ Len(Sep) >= 1
      BY <3>2, TextFacts
    <3> QED
      BY <3>3, <3>4 DEF SepAt
  <2> QED
    BY <2>1
<1>12. /\ Len(lines) + 1 \in DOMAIN asked /\ Head(more) = asked[Len(lines) + 1]
       /\ Head(more) \in Seq(Chars) /\ Clear(Head(more))
  <2>1. /\ Len(lines) \in Nat /\ Len(asked) \in Nat /\ DOMAIN asked = 1..Len(asked)
        /\ Len(more) \in Nat /\ Len(more) >= 1 /\ Head(more) = more[1] /\ Head(more) \in Seq(Chars)
    BY <1>1, <1>3, <1>11, LenProperties, EmptySeq, HeadTailProperties
  <2>2. Len(lines) + 1 \in 1..Len(asked)
    BY <1>3, <2>1
  <2>3. more[1] = asked[Len(lines) + 1]
    <3>1. \A k \in (Len(lines) + 1)..Len(asked) : asked[k] \in Seq(Chars)
      BY <1>1, <2>1, ElementOfSeq
    <3>2. \A k \in 1..(Len(asked) - (Len(lines) + 1) + 1) : more[k] = asked[Len(lines) + 1 + k - 1]
      BY <2>1, <3>1, SubSeqProperties DEF more
    <3>3. 1 \in 1..(Len(asked) - (Len(lines) + 1) + 1) /\ Len(lines) + 1 + 1 - 1 = Len(lines) + 1
      BY <2>1, <2>2
    <3> QED
      BY <3>2, <3>3
  <2>4. Clear(asked[Len(lines) + 1])
    BY <1>1, <2>1, <2>2 DEF WriterState
  <2> QED
    BY <2>1, <2>2, <2>3, <2>4
<1>13. /\ Written(more) = (Head(more) \o Sep) \o Written(Tail(more))
       /\ Written(Tail(more)) \in Seq(Chars)
  <2> DEFINE one == <<Head(more)>>
  <2>1. /\ one \in Seq(Seq(Chars)) /\ Tail(more) \in Seq(Seq(Chars))
        /\ more = one \o Tail(more) /\ Written(one) = Head(more) \o Sep
    <3>1. Written(one) = Head(more) \o Sep
      BY <1>12, WrittenOne
    <3>2. more = one \o Tail(more) /\ Tail(more) \in Seq(Seq(Chars))
      BY <1>3, <1>11, HeadTailProperties, HeadIsFirst
    <3>3. one \in Seq(Seq(Chars))
      BY <1>12
    <3> QED
      BY <3>1, <3>2, <3>3
  <2> HIDE DEF one
  <2>2. Written(one \o Tail(more)) = Written(one) \o Written(Tail(more))
    BY <2>1, WrittenConcat
  <2> QED
    BY <2>1, <2>2, EndedType
<1> QED
  BY <1>1, <1>2, <1>10, <1>12, <1>13, FirstLine

\* The line before the first separator of the buffer is the next one that was asked for.
LEMMA ReturnLineKeeps == TextIInv /\ ReturnLine => TextIInv'
<1> SUFFICES ASSUME TextIInv, ReturnLine PROVE TextIInv'
  OBVIOUS
<1> DEFINE l == SubSeq(buffer, 1, Ending - 1)
           r == SubSeq(buffer, Ending + Len(Sep), Len(buffer))
<1>1. /\ Found(buffer) # {} /\ Len(Sep) < SizeMod /\ lines' = Append(lines, l)
      /\ state' = "idle" /\ UNCHANGED writer /\ received' = received
  BY DEF ReturnLine
<1>2. buffer' = r
  <2>1. SepSize = Len(Sep)
    BY <1>1, TextFacts
  <2> QED
    BY <2>1 DEF ReturnLine, Rest
<1>3. /\ asked \in Seq(Seq(Chars)) /\ lines \in Seq(Seq(Chars)) /\ buffer \in Seq(Chars)
      /\ received \in 0..Len(stream) /\ Len(buffer) <= received /\ IsPrefix(lines, asked)
      /\ Len(buffer) \in Nat
  BY LenProperties DEF TextIInv, TextInv, TextTypeOK, LinesAreWritten
<1>4. Ending \in Nat /\ Ending >= 1 /\ SepAt(buffer, Ending)
  BY <1>1, <1>3, EndingIs, FoundIs
<1>5. l \in Seq(Chars) /\ r \in Seq(Chars) /\ buffer = (l \o Sep) \o r /\ Len(r) <= Len(buffer)
  BY <1>3, <1>4, Splits
<1>6. Len(lines) + 1 \in DOMAIN asked /\ asked[Len(lines) + 1] = l
  BY <1>1, NextLine
<1> HIDE DEF l, r
<1>7. lines' \in Seq(Seq(Chars))
  BY <1>1, <1>3, <1>5, AppendProperties
<1>8. Written(lines') \o buffer' = SubSeq(stream, 1, received')
  <2>1. Written(lines) \o buffer = SubSeq(stream, 1, received)
    BY DEF TextIInv, TextInv, NoByteLost, Written, Ended
  <2>2. Written(lines') = Written(lines) \o (l \o Sep) /\ Written(lines) \in Seq(Chars)
    BY <1>1, <1>3, <1>5, WrittenAppend, EndedType
  <2>3. l \o Sep \in Seq(Chars)
    BY <1>5, TextFacts, ConcatProperties
  <2>4. (Written(lines) \o (l \o Sep)) \o r = Written(lines) \o ((l \o Sep) \o r)
    BY <1>5, <2>2, <2>3, Regroup
  <2> QED
    BY <1>1, <1>2, <1>5, <2>1, <2>2, <2>4
<1>9. IsPrefix(lines', asked)
  <2>1. /\ Len(lines') = Len(lines) + 1 /\ Len(lines) \in Nat /\ DOMAIN asked = 1..Len(asked)
        /\ \A k \in 1..Len(lines) : lines'[k] = lines[k]
        /\ lines'[Len(lines) + 1] = l
    BY <1>1, <1>3, <1>5, AppendProperties, LenProperties
  <2>2. \A k \in 1..Len(lines) : lines[k] = asked[k]
    BY <1>3, PrefixIs
  <2>3. \A k \in 1..(Len(lines) + 1) : k \in 1..Len(lines) \/ k = Len(lines) + 1
    BY <2>1
  <2>4. \A k \in 1..Len(lines') : lines'[k] = asked[k]
    BY <1>6, <2>1, <2>2, <2>3
  <2>5. Len(lines') <= Len(asked)
    BY <1>6, <2>1
  <2> QED
    BY <1>3, <1>7, <2>4, <2>5, PrefixIs
<1>10. Len(buffer') <= received'
  <2>1. Len(r) \in Nat /\ received \in Int
    BY <1>3, <1>5, LenProperties
  <2> QED
    BY <1>1, <1>2, <1>3, <1>5, <2>1
<1> QED
  BY <1>1, <1>2, <1>3, <1>5, <1>7, <1>8, <1>9, <1>10, WriterWaits

\* Lines over any stream: the two ends agree on the bytes and on the lines.
THEOREM TextInductive == ASSUME WholeTexts PROVE TextSpec => []TextIInv
<1>1. TextIInv /\ [TextNext]_textVars => TextIInv'
  <2>1. ASSUME TextIInv, UNCHANGED textVars PROVE TextIInv'
    BY <2>1 DEF textVars, TextIInv, TextInv, TextTypeOK, LinesAreWritten, NoByteLost, WriterState,
       SizeFits, Written, Ended, Clear, Chars
  <2> QED
    BY <2>1, OLineKeeps, OTxtKeeps, SendKeeps, SendFailsKeeps, WaitsKeep, ReturnLineKeeps, ReceiveKeeps
       DEF TextNext
<1> QED
  BY <1>1, TextInitIInv, PTL DEF TextSpec

\* The lines read are a prefix of the lines written, and no byte is lost between them,
\* whatever the sizes of the reads, the separator and the lines, if no text has a tail
\* and no line is ambiguous (text_buffered.hpp:58-70).
THEOREM TextCorrect == ASSUME WholeTexts PROVE TextSpec => []TextInv
BY TextInductive, PTL DEF TextIInv

-----------------------------------------------------------------------------
\* The values of a simple_socket: the numbers on the wire first.
\* Division by the base leaves a remainder that is a byte.
LEMMA DivideByBase ==
  ASSUME NEW n \in Nat
  PROVE  n \div Base \in Nat /\ n % Base \in Byte /\ n = (n \div Base) * Base + (n % Base)
<1>1. Base \in Nat /\ Base > 0
  BY ValuesAssumption DEF ValuesAssumption
<1> QED
  BY <1>1 DEF Byte

\* What a recursive function of Shifted is.
ShiftedIs(f, n, w) == f = [i \in 0..w |-> IF i = 0 THEN n ELSE f[i - 1] \div Base]

\* There is one, for any number of bytes.
LEMMA ShiftedExists ==
  ASSUME NEW n \in Nat, NEW w \in Nat
  PROVE  \E f : ShiftedIs(f, n, w)
<1> DEFINE bad == {m \in Nat : ~ \E f : ShiftedIs(f, n, m)}
<1> SUFFICES ASSUME bad # {} PROVE FALSE
  OBVIOUS
<1>1. PICK m \in bad : \A k \in bad : ~(k < m)
  <2>1. bad \subseteq Nat
    OBVIOUS
  <2> HIDE DEF bad
  <2> QED
    BY <2>1, LeastNumber
<1>2. m \in Nat /\ ~ \E f : ShiftedIs(f, n, m)
  OBVIOUS
<1>3. CASE m = 0
  <2> DEFINE f == [i \in 0..0 |-> n]
  <2>1. ShiftedIs(f, n, 0)
    BY DEF ShiftedIs
  <2> QED
    BY <1>2, <1>3, <2>1
<1>4. CASE m # 0
  <2>1. m - 1 \in Nat /\ m - 1 < m
    BY <1>2, <1>4
  <2>2. PICK f : ShiftedIs(f, n, m - 1)
    <3>1. m - 1 \notin bad
      BY <1>1, <2>1
    <3> QED
      BY <2>1, <3>1
  <2> DEFINE g == [i \in 0..m |-> IF i = m THEN f[m - 1] \div Base ELSE f[i]]
  <2>3. \A i \in 0..(m - 1) : f[i] = IF i = 0 THEN n ELSE f[i - 1] \div Base
    BY <2>2 DEF ShiftedIs
  <2>4. ASSUME NEW i \in 0..m PROVE g[i] = IF i = 0 THEN n ELSE g[i - 1] \div Base
    <3>1. CASE i = m
      <4>1. i # 0 /\ i - 1 \in 0..m /\ i - 1 # m
        BY <1>2, <1>4, <3>1
      <4> QED
        BY <3>1, <4>1
    <3>2. CASE i # m
      <4>1. i \in 0..(m - 1) /\ (i # 0 => i - 1 \in 0..m /\ i - 1 # m)
        BY <1>2, <3>2
      <4> QED
        BY <2>3, <3>2, <4>1
    <3> QED
      BY <3>1, <3>2
  <2>5. ShiftedIs(g, n, m)
    <3>1. g = [i \in 0..m |-> g[i]]
      OBVIOUS
    <3> HIDE DEF g
    <3> QED
      BY <2>4, <3>1 DEF ShiftedIs
  <2> QED
    BY <1>2, <2>5
<1> QED
  BY <1>3, <1>4

\* Each place is the one before, divided by the base.
LEMMA ShiftedSteps ==
  ASSUME NEW n \in Nat, NEW w \in Nat
  PROVE  /\ Shifted(n, w)[0] = n
         /\ \A i \in 1..w : Shifted(n, w)[i] = Shifted(n, w)[i - 1] \div Base
         /\ \A i \in 0..w : Shifted(n, w)[i] \in Nat
<1> DEFINE f == CHOOSE h : ShiftedIs(h, n, w)
<1>1. ShiftedIs(f, n, w)
  BY ShiftedExists, Zenon
<1>2. Shifted(n, w) = f
  BY DEF Shifted, ShiftedIs
<1> HIDE DEF f
<1>3. \A i \in 0..w : f[i] = IF i = 0 THEN n ELSE f[i - 1] \div Base
  BY <1>1 DEF ShiftedIs
<1>4. f[0] = n /\ \A i \in 1..w : f[i] = f[i - 1] \div Base
  BY <1>3
<1>5. \A i \in 0..w : f[i] \in Nat
  <2> DEFINE bad == {i \in 0..w : f[i] \notin Nat}
  <2> SUFFICES ASSUME bad # {} PROVE FALSE
    OBVIOUS
  <2>1. PICK i \in bad : \A j \in bad : ~(j < i)
    <3>1. bad \subseteq Nat
      OBVIOUS
    <3> HIDE DEF bad
    <3> QED
      BY <3>1, LeastNumber
  <2>2. i \in 0..w /\ f[i] \notin Nat
    OBVIOUS
  <2>3. i \in 1..w /\ i - 1 \in 0..w /\ i - 1 < i
    BY <1>4, <2>2
  <2>4. f[i - 1] \in Nat
    BY <2>1, <2>3
  <2> QED
    BY <1>4, <2>2, <2>3, <2>4, DivideByBase
<1> QED
  BY <1>2, <1>4, <1>5

\* The bytes of an integer on their way: the lowest one first, from any host.
LEMMA OnWireIs ==
  ASSUME NEW n \in Nat, NEW w \in Nat
  PROVE  /\ OnWire(n, w) = [i \in 1..w |-> Shifted(n, w)[i - 1] % Base]
         /\ OnWire(n, w) \in Seq(Byte) /\ Len(OnWire(n, w)) = w
<1> DEFINE little == [i \in 1..w |-> Shifted(n, w)[i - 1] % Base]
<1>1. \A i \in 1..w : Shifted(n, w)[i - 1] % Base \in Byte
  <2>1. ASSUME NEW i \in 1..w PROVE Shifted(n, w)[i - 1] \in Nat
    <3>1. i - 1 \in 0..w
      OBVIOUS
    <3> QED
      BY <3>1, ShiftedSteps
  <2> QED
    BY <2>1, DivideByBase
<1>2. little \in Seq(Byte) /\ Len(little) = w
  BY <1>1
<1>3. InMemory(n, w, WriterBig) = IF WriterBig THEN Reverse(little) ELSE little
  BY DEF InMemory
<1>4. WriterBig \in BOOLEAN
  BY ValuesAssumption DEF ValuesAssumption
<1> HIDE DEF little
<1>5. Reverse(Reverse(little)) = little
  <2>1. Len(Reverse(little)) = w /\ \A i \in 1..w : Reverse(little)[i] = little[w - i + 1]
    BY <1>2 DEF Reverse
  <2>2. Reverse(Reverse(little)) = [i \in 1..w |-> Reverse(little)[w - i + 1]]
    BY <2>1 DEF Reverse
  <2>3. \A i \in 1..w : Reverse(little)[w - i + 1] = little[i]
    <3>1. ASSUME NEW i \in 1..w PROVE Reverse(little)[w - i + 1] = little[i]
      <4>1. w - i + 1 \in 1..w /\ w - (w - i + 1) + 1 = i
        OBVIOUS
      <4> QED
        BY <2>1, <4>1
    <3> QED
      BY <3>1
  <2>4. little = [i \in 1..w |-> little[i]]
    BY <1>2
  <2> QED
    BY <2>2, <2>3, <2>4
<1>6. OnWire(n, w) = little
  BY <1>3, <1>4, <1>5 DEF OnWire, MustSwap, Swapped
<1> QED
  BY <1>2, <1>6 DEF little

\* What a recursive function of AsInt is.
HighIs(f, bytes, m) ==
  f = [i \in 0..m |-> IF i = 0 THEN 0 ELSE f[i - 1] * Base + bytes[Len(bytes) + 1 - i]]

\* A host that is little-endian reads an integer that fits as it was written.
LEMMA AsIntIs ==
  ASSUME ~ReaderBig, NEW n, NEW w \in Nat, Fits(n, w)
  PROVE  AsInt(OnWire(n, w)) = n
<1> DEFINE bytes == OnWire(n, w)
           f == [i \in 0..w |-> Shifted(n, w)[w - i]]
           g == CHOOSE h : HighIs(h, bytes, w)
<1>1. n \in Nat /\ Shifted(n, w)[w] = 0 /\ Base \in Nat
  BY ValuesAssumption DEF Fits, ValuesAssumption
<1>2. Len(bytes) = w /\ \A i \in 1..w : bytes[i] = Shifted(n, w)[i - 1] % Base
  BY <1>1, OnWireIs
<1> HIDE DEF bytes
<1>3. ASSUME NEW i \in 1..w PROVE Shifted(n, w)[w - i] = Shifted(n, w)[w - (i - 1)] * Base + bytes[w + 1 - i]
  <2>1. /\ w - i \in 0..w /\ w + 1 - i \in 1..w /\ (w + 1 - i) - 1 = w - i
        /\ w - (i - 1) \in 1..w /\ w - (i - 1) - 1 = w - i
    OBVIOUS
  <2>2. Shifted(n, w)[w - i] \in Nat /\ Shifted(n, w)[w - (i - 1)] = Shifted(n, w)[w - i] \div Base
    BY <1>1, <2>1, ShiftedSteps
  <2>3. bytes[w + 1 - i] = Shifted(n, w)[w - i] % Base
    BY <1>2, <2>1
  <2> QED
    BY <2>2, <2>3, DivideByBase
<1>4. HighIs(f, bytes, w)
  <2>1. \A i \in 1..w : i - 1 \in 0..w /\ f[i - 1] = Shifted(n, w)[w - (i - 1)] /\ f[i] = Shifted(n, w)[w - i]
    OBVIOUS
  <2>2. f[0] = 0
    BY <1>1
  <2>3. f = [i \in 0..w |-> f[i]]
    OBVIOUS
  <2> HIDE DEF f
  <2>4. \A i \in 0..w : f[i] = IF i = 0 THEN 0 ELSE f[i - 1] * Base + bytes[w + 1 - i]
    <3>1. ASSUME NEW i \in 0..w, i # 0 PROVE f[i] = f[i - 1] * Base + bytes[w + 1 - i]
      <4>1. i \in 1..w
        BY <3>1
      <4> QED
        BY <1>3, <2>1, <4>1
    <3> QED
      BY <2>2, <3>1
  <2> QED
    BY <1>2, <2>3, <2>4 DEF HighIs
<1> HIDE DEF f
<1>5. HighIs(g, bytes, w)
  BY <1>4, Zenon
<1>6. AsInt(bytes) = g[w]
  BY <1>2 DEF AsInt, HighIs
<1> HIDE DEF g
<1>7. \A i \in 0..w : g[i] = f[i]
  <2> DEFINE bad == {i \in 0..w : g[i] # f[i]}
  <2> SUFFICES ASSUME bad # {} PROVE FALSE
    OBVIOUS
  <2>1. PICK i \in bad : \A j \in bad : ~(j < i)
    <3>1. bad \subseteq Nat
      OBVIOUS
    <3> HIDE DEF bad
    <3> QED
      BY <3>1, LeastNumber
  <2>2. i \in 0..w /\ g[i] # f[i]
    OBVIOUS
  <2>3. /\ f[i] = IF i = 0 THEN 0 ELSE f[i - 1] * Base + bytes[Len(bytes) + 1 - i]
        /\ g[i] = IF i = 0 THEN 0 ELSE g[i - 1] * Base + bytes[Len(bytes) + 1 - i]
    BY <1>4, <1>5, <2>2 DEF HighIs
  <2>4. i # 0
    BY <2>2, <2>3
  <2>5. i - 1 \in 0..w /\ i - 1 < i
    BY <2>2, <2>4
  <2>6. g[i - 1] = f[i - 1]
    BY <2>1, <2>5
  <2> QED
    BY <2>2, <2>3, <2>4, <2>6
<1>8. f[w] = Shifted(n, w)[0]
  BY DEF f
<1> QED
  BY <1>1, <1>6, <1>7, <1>8, ShiftedSteps DEF bytes

-----------------------------------------------------------------------------
\* A function of each element of a sequence, and the sequences it gives joined.
Mapped(g, s) == [i \in DOMAIN s |-> g[s[i]]]
Joins(g, s) == FlattenSeq(Mapped(g, s))
EachMapped(g, ss) == [k \in DOMAIN ss |-> Mapped(g, ss[k])]
EachJoined(g, ss) == [k \in DOMAIN ss |-> Joins(g, ss[k])]

\* The results are as many as the elements, in their places.
LEMMA MappedAt ==
  ASSUME NEW J, NEW g, NEW s \in Seq(J)
  PROVE  /\ Len(Mapped(g, s)) = Len(s) /\ Len(s) \in Nat /\ DOMAIN s = 1..Len(s)
         /\ \A i \in 1..Len(s) : s[i] \in J /\ Mapped(g, s)[i] = g[s[i]]
BY DEF Mapped

\* They are of the type of the function.
LEMMA MappedType ==
  ASSUME NEW J, NEW T, NEW g, \A j \in J : g[j] \in T, NEW s \in Seq(J)
  PROVE  Mapped(g, s) \in Seq(T)
BY DEF Mapped

\* Those of nothing, and of one element.
LEMMA MappedFew ==
  ASSUME NEW g
  PROVE  Mapped(g, <<>>) = <<>> /\ \A j : Mapped(g, <<j>>) = <<g[j]>>
BY DEF Mapped

\* Two sequences with the same elements in the same places are one.
LEMMA SameElements ==
  ASSUME NEW T, NEW s \in Seq(T), NEW t \in Seq(T), Len(s) = Len(t), \A i \in 1..Len(s) : s[i] = t[i]
  PROVE  s = t
BY SeqEqual

\* Those of two sequences are those of the one and those of the other.
LEMMA MappedConcat ==
  ASSUME NEW J, NEW g, NEW s \in Seq(J), NEW t \in Seq(J)
  PROVE  Mapped(g, s \o t) = Mapped(g, s) \o Mapped(g, t)
<1> DEFINE a == Mapped(g, s)
           b == Mapped(g, t)
           u == s \o t
           c == Mapped(g, u)
<1>1. u \in Seq(J)
  BY ConcatProperties
<1>2. /\ Len(u) = Len(s) + Len(t) /\ Len(s) \in Nat /\ Len(t) \in Nat
      /\ \A i \in 1..(Len(s) + Len(t)) : u[i] = IF i <= Len(s) THEN s[i] ELSE t[i - Len(s)]
  BY ConcatProperties, LenProperties
<1> HIDE DEF u
<1> DEFINE T == {g[j] : j \in J}
<1>3. a \in Seq(T) /\ b \in Seq(T) /\ c \in Seq(T)
  <2>1. \A j \in J : g[j] \in T
    OBVIOUS
  <2> HIDE DEF T
  <2> QED
    BY <1>1, <2>1, MappedType
<1> HIDE DEF T
<1>4. Len(a) = Len(s) /\ \A i \in 1..Len(s) : a[i] = g[s[i]]
  BY MappedAt
<1>5. Len(b) = Len(t) /\ \A i \in 1..Len(t) : b[i] = g[t[i]]
  BY MappedAt
<1>6. Len(c) = Len(u) /\ \A i \in 1..Len(u) : c[i] = g[u[i]]
  BY <1>1, MappedAt
<1> HIDE DEF a, b, c
<1>7. a \o b \in Seq(T)
  BY <1>3, ConcatProperties
<1>8. /\ Len(a \o b) = Len(s) + Len(t)
      /\ \A i \in 1..(Len(s) + Len(t)) : (a \o b)[i] = IF i <= Len(s) THEN a[i] ELSE b[i - Len(s)]
  <2>1. /\ Len(a \o b) = Len(a) + Len(b)
        /\ \A i \in 1..(Len(a) + Len(b)) : (a \o b)[i] = IF i <= Len(a) THEN a[i] ELSE b[i - Len(a)]
    BY <1>3, ConcatProperties
  <2> QED
    BY <1>4, <1>5, <2>1
<1>9. \A i \in 1..(Len(s) + Len(t)) : c[i] = (a \o b)[i]
  <2>1. ASSUME NEW i \in 1..(Len(s) + Len(t)) PROVE c[i] = (a \o b)[i]
    <3>1. CASE i <= Len(s)
      <4>1. i \in 1..Len(s)
        BY <1>2, <3>1
      <4> QED
        BY <1>2, <1>4, <1>6, <1>8, <3>1, <4>1
    <3>2. CASE ~(i <= Len(s))
      <4>1. i - Len(s) \in 1..Len(t)
        BY <1>2, <3>2
      <4>2. c[i] = g[t[i - Len(s)]] /\ (a \o b)[i] = b[i - Len(s)]
        BY <1>2, <1>6, <1>8, <3>2
      <4> QED
        BY <1>5, <4>1, <4>2
    <3> QED
      BY <3>1, <3>2
  <2> QED
    BY <2>1
<1>10. c = a \o b
  BY <1>2, <1>3, <1>6, <1>7, <1>8, <1>9, SameElements
<1> QED
  BY <1>10 DEF a, b, c, u

\* Those of joined sequences are those of each of them, joined.
LEMMA MappedFlatten ==
  ASSUME NEW J, NEW g, NEW ss \in Seq(Seq(J))
  PROVE  Mapped(g, FlattenSeq(ss)) = FlattenSeq(EachMapped(g, ss))
<1> DEFINE T == {g[j] : j \in J}
<1>0. \A j \in J : g[j] \in T
  OBVIOUS
<1> HIDE DEF T
<1> DEFINE All(r) == [k \in DOMAIN r |-> Mapped(g, r[k])]
           P == {r \in Seq(Seq(J)) : All(r) \in Seq(Seq(T)) /\ Mapped(g, FlattenSeq(r)) = FlattenSeq(All(r))}
<1>1. <<>> \in P
  <2>1. All(<<>>) = <<>>
    OBVIOUS
  <2>2. <<>> \in Seq(Seq(J)) /\ <<>> \in Seq(Seq(T))
    BY EmptySeq
  <2> QED
    BY <2>1, <2>2, FlattenEmpty, MappedFew
<1>2. ASSUME NEW r \in Seq(Seq(J)), r \in P, NEW s \in Seq(J) PROVE Append(r, s) \in P
  <2>1. Append(r, s) \in Seq(Seq(J)) /\ FlattenSeq(r) \in Seq(J) /\ Mapped(g, s) \in Seq(T)
    BY <1>0, AppendProperties, FlattenType, MappedType
  <2>2. /\ Len(r) \in Nat /\ DOMAIN r = 1..Len(r) /\ DOMAIN Append(r, s) = 1..(Len(r) + 1)
        /\ \A k \in 1..Len(r) : Append(r, s)[k] = r[k]
        /\ Append(r, s)[Len(r) + 1] = s
    BY <2>1, AppendProperties, LenProperties
  <2>3. All(r) \in Seq(Seq(T)) /\ Len(All(r)) = Len(r) /\ Mapped(g, FlattenSeq(r)) = FlattenSeq(All(r))
    BY <1>2, <2>2
  <2>4. \A k \in 1..(Len(r) + 1) : All(Append(r, s))[k] = IF k = Len(r) + 1 THEN Mapped(g, s) ELSE Mapped(g, r[k])
    <3>1. \A k \in 1..(Len(r) + 1) : k \in 1..Len(r) \/ k = Len(r) + 1
      BY <2>2
    <3> QED
      BY <2>2, <3>1
  <2>5. \A k \in 1..Len(r) : All(r)[k] = Mapped(g, r[k])
    BY <2>2
  <2>6. DOMAIN All(Append(r, s)) = 1..(Len(r) + 1)
        /\ All(Append(r, s)) = [k \in 1..(Len(r) + 1) |-> All(Append(r, s))[k]]
    BY <2>2
  <2> HIDE DEF All
  <2>7. /\ Append(All(r), Mapped(g, s)) \in Seq(Seq(T))
        /\ DOMAIN Append(All(r), Mapped(g, s)) = 1..(Len(r) + 1)
        /\ \A k \in 1..Len(r) : Append(All(r), Mapped(g, s))[k] = All(r)[k]
        /\ Append(All(r), Mapped(g, s))[Len(r) + 1] = Mapped(g, s)
    BY <2>1, <2>3, AppendProperties, LenProperties
  <2>8. \A k \in 1..(Len(r) + 1) : All(Append(r, s))[k] = Append(All(r), Mapped(g, s))[k]
    <3> DEFINE n == Len(r)
    <3>1. n \in Nat
      BY <2>2
    <3> HIDE DEF n
    <3>2. \A k \in 1..(n + 1) : k # n + 1 => k \in 1..n
      BY <3>1
    <3> QED
      BY <2>4, <2>5, <2>7, <3>2 DEF n
  <2>9. Append(All(r), Mapped(g, s)) = [k \in 1..(Len(r) + 1) |-> Append(All(r), Mapped(g, s))[k]]
    BY <2>7, LenProperties
  <2>10. All(Append(r, s)) = Append(All(r), Mapped(g, s))
    BY <2>6, <2>8, <2>9
  <2>11. FlattenSeq(Append(All(r), Mapped(g, s))) = FlattenSeq(All(r)) \o Mapped(g, s)
    BY <2>1, <2>3, FlattenAppend
  <2>12. FlattenSeq(Append(r, s)) = FlattenSeq(r) \o s
    BY FlattenAppend
  <2>13. Mapped(g, FlattenSeq(r) \o s) = Mapped(g, FlattenSeq(r)) \o Mapped(g, s)
    BY <2>1, MappedConcat
  <2> QED
    BY <2>1, <2>3, <2>7, <2>10, <2>11, <2>12, <2>13
<1> HIDE DEF P
<1>3. Seq(Seq(J)) \subseteq P
  BY <1>1, <1>2, AllByAppend
<1> QED
  BY <1>3 DEF P, EachMapped

-----------------------------------------------------------------------------
\* What Out is of a value, from what f is of those inside it.
VarOf(f, y) == <<<<Tag(y.type)>>>> \o f[y]
OutBody(f, x) ==
  CASE x.type = "VOID" -> <<>>
    [] x.type \in {"CHAR", "BOOL"} -> <<<<x.v>>>>
    [] x.type \in {"INT", "FLOAT"} -> <<OnWire(x.v, W64)>>
    [] x.type = "INT32" -> <<OnWire(x.v, W32)>>
    [] x.type = "STR" -> StringOut(x.v)
    [] x.type = "BIN" -> BinaryOut(x.v)
    [] x.type = "BUF" -> <<x.v>>
    [] x.type = "LIST" -> <<OnWire(Len(x.v), W64)>> \o FlattenSeq([i \in DOMAIN x.v |-> VarOf(f, x.v[i])])
    [] x.type = "MAP" ->
         <<OnWire(Len(x.v), W64)>>
           \o FlattenSeq([i \in DOMAIN x.v |-> StringOut(x.v[i].key) \o VarOf(f, x.v[i].val)])
    [] x.type = "VAR" -> VarOf(f, x.v)

\* What Leaves is of it.
LeavesBody(f, x) ==
  CASE x.type = "LIST" -> FlattenSeq([i \in DOMAIN x.v |-> f[x.v[i]]])
    [] x.type = "MAP" -> FlattenSeq([i \in DOMAIN x.v |-> <<x.v[i].key>> \o f[x.v[i].val]])
    [] x.type = "VAR" -> f[x.v]
    [] x.type = "VOID" -> <<"VOID">>
    [] OTHER -> <<x.v>>

\* The values that are nested less than n deep.
Level(n) == {x \in Vals : Nesting[x] < n}
OutOn(f, n) == f = [x \in Level(n) |-> OutBody(f, x)]
LeavesOn(f, n) == f = [x \in Level(n) |-> LeavesBody(f, x)]

\* What is inside a value is a value that is nested less deep.
LEMMA InsideIs ==
  ASSUME NEW x \in Vals
  PROVE  /\ WellTyped(x) /\ Nesting[x] \in Nat /\ Nesting[x] < Depth + 1 /\ Depth \in Nat
         /\ \A y : Inside(y, x) => y \in Vals /\ Nesting[y] < Nesting[x]
BY ValuesAssumption DEF ValuesAssumption, Inside, Polyvar

\* Out of a value depends on what is inside it and on nothing else.
LEMMA OutBodySame ==
  ASSUME NEW x \in Vals, NEW f, NEW g, \A y \in Vals : Nesting[y] < Nesting[x] => f[y] = g[y]
  PROVE  OutBody(f, x) = OutBody(g, x)
<1>1. WellTyped(x) /\ \A y : Inside(y, x) => VarOf(f, y) = VarOf(g, y)
  BY InsideIs DEF VarOf
<1>2. CASE x.type = "LIST"
  <2>1. \A i \in DOMAIN x.v : VarOf(f, x.v[i]) = VarOf(g, x.v[i])
    BY <1>1, <1>2 DEF WellTyped
  <2>2. [i \in DOMAIN x.v |-> VarOf(f, x.v[i])] = [i \in DOMAIN x.v |-> VarOf(g, x.v[i])]
    BY <2>1
  <2> QED
    BY <1>2, <2>2 DEF OutBody
<1>3. CASE x.type = "MAP"
  <2>1. \A i \in DOMAIN x.v : VarOf(f, x.v[i].val) = VarOf(g, x.v[i].val)
    BY <1>1, <1>3 DEF WellTyped
  <2>2. [i \in DOMAIN x.v |-> StringOut(x.v[i].key) \o VarOf(f, x.v[i].val)]
          = [i \in DOMAIN x.v |-> StringOut(x.v[i].key) \o VarOf(g, x.v[i].val)]
    BY <2>1
  <2> QED
    BY <1>3, <2>2 DEF OutBody
<1>4. CASE x.type = "VAR"
  <2>1. VarOf(f, x.v) = VarOf(g, x.v)
    BY <1>1, <1>4 DEF WellTyped
  <2> QED
    BY <1>4, <2>1 DEF OutBody
<1>5. CASE x.type \notin {"LIST", "MAP", "VAR"}
  BY <1>1, <1>5 DEF OutBody, WellTyped
<1> QED
  BY <1>2, <1>3, <1>4, <1>5

\* So do its leaves.
LEMMA LeavesBodySame ==
  ASSUME NEW x \in Vals, NEW f, NEW g, \A y \in Vals : Nesting[y] < Nesting[x] => f[y] = g[y]
  PROVE  LeavesBody(f, x) = LeavesBody(g, x)
<1>1. WellTyped(x) /\ \A y : Inside(y, x) => f[y] = g[y]
  BY InsideIs
<1>2. CASE x.type = "LIST"
  <2>1. \A i \in DOMAIN x.v : f[x.v[i]] = g[x.v[i]]
    BY <1>1, <1>2 DEF WellTyped
  <2>2. [i \in DOMAIN x.v |-> f[x.v[i]]] = [i \in DOMAIN x.v |-> g[x.v[i]]]
    BY <2>1
  <2> QED
    BY <1>2, <2>2 DEF LeavesBody
<1>3. CASE x.type = "MAP"
  <2>1. \A i \in DOMAIN x.v : f[x.v[i].val] = g[x.v[i].val]
    BY <1>1, <1>3 DEF WellTyped
  <2>2. [i \in DOMAIN x.v |-> <<x.v[i].key>> \o f[x.v[i].val]]
          = [i \in DOMAIN x.v |-> <<x.v[i].key>> \o g[x.v[i].val]]
    BY <2>1
  <2> QED
    BY <1>3, <2>2 DEF LeavesBody
<1>4. CASE x.type = "VAR"
  BY <1>1, <1>4 DEF LeavesBody, WellTyped
<1>5. CASE x.type \notin {"LIST", "MAP", "VAR"}
  BY <1>5 DEF LeavesBody
<1> QED
  BY <1>2, <1>3, <1>4, <1>5

\* There is such a function of the values of any nesting.
LEMMA OutExists ==
  ASSUME NEW n \in Nat
  PROVE  \E f : OutOn(f, n)
<1> DEFINE bad == {m \in Nat : ~ \E f : OutOn(f, m)}
<1> SUFFICES ASSUME bad # {} PROVE FALSE
  OBVIOUS
<1>1. PICK m \in bad : \A k \in bad : ~(k < m)
  <2>1. bad \subseteq Nat
    OBVIOUS
  <2> HIDE DEF bad
  <2> QED
    BY <2>1, LeastNumber
<1>2. m \in Nat /\ ~ \E f : OutOn(f, m)
  OBVIOUS
<1>3. CASE m = 0
  <2> DEFINE f == [x \in {} |-> 0]
  <2>1. Level(0) = {}
    BY InsideIs DEF Level
  <2>2. [x \in Level(0) |-> OutBody(f, x)] = f
    BY <2>1
  <2>3. OutOn(f, 0)
    BY <2>2 DEF OutOn
  <2> QED
    BY <1>2, <1>3, <2>3
<1>4. CASE m # 0
  <2>1. m - 1 \in Nat /\ m - 1 < m
    BY <1>2, <1>4
  <2>2. PICK f : OutOn(f, m - 1)
    <3>1. m - 1 \notin bad
      BY <1>1, <2>1
    <3> QED
      BY <2>1, <3>1
  <2> DEFINE g == [x \in Level(m) |-> OutBody(f, x)]
  <2>3. \A x \in Level(m - 1) : f[x] = OutBody(f, x)
    BY <2>2 DEF OutOn
  <2>4. ASSUME NEW x \in Level(m - 1) PROVE f[x] = g[x]
    <3>1. x \in Level(m)
      BY <1>2, InsideIs DEF Level
    <3> QED
      BY <2>3, <3>1
  <2>5. ASSUME NEW x \in Level(m) PROVE OutBody(f, x) = OutBody(g, x)
    <3> HIDE DEF g
    <3>1. x \in Vals /\ \A y \in Vals : Nesting[y] < Nesting[x] => y \in Level(m - 1)
      BY <1>2, InsideIs DEF Level
    <3>2. \A y \in Vals : Nesting[y] < Nesting[x] => f[y] = g[y]
      BY <2>4, <3>1
    <3> QED
      BY <3>1, <3>2, OutBodySame
  <2>6. OutOn(g, m)
    <3>1. g = [x \in Level(m) |-> OutBody(f, x)]
      OBVIOUS
    <3> HIDE DEF g
    <3>2. [x \in Level(m) |-> OutBody(f, x)] = [x \in Level(m) |-> OutBody(g, x)]
      BY <2>5
    <3> QED
      BY <3>1, <3>2 DEF OutOn
  <2> QED
    BY <1>2, <2>6
<1> QED
  BY <1>3, <1>4

\* Out is what its equation says.
LEMMA OutIs == \A x \in Vals : Out[x] = OutBody(Out, x)
<1>1. Vals = Level(Depth + 1) /\ (Depth + 1 \in Nat \/ Vals = {})
  BY InsideIs DEF Level
<1> DEFINE f == CHOOSE h : h = [x \in Vals |-> OutBody(h, x)]
<1>2. CASE Depth + 1 \in Nat
  <2>1. \E h : h = [x \in Vals |-> OutBody(h, x)]
    BY <1>1, <1>2, OutExists DEF OutOn
  <2>2. f = [x \in Vals |-> OutBody(f, x)]
    BY <2>1, Zenon
  <2>3. Out = f
    BY DEF Out, OutBody, VarOf
  <2> HIDE DEF f
  <2>4. \A x \in Vals : f[x] = OutBody(f, x)
    BY <2>2
  <2> QED
    BY <2>3, <2>4
<1> QED
  BY <1>1, <1>2

\* There is one for the leaves.
LEMMA LeavesExists ==
  ASSUME NEW n \in Nat
  PROVE  \E f : LeavesOn(f, n)
<1> DEFINE bad == {m \in Nat : ~ \E f : LeavesOn(f, m)}
<1> SUFFICES ASSUME bad # {} PROVE FALSE
  OBVIOUS
<1>1. PICK m \in bad : \A k \in bad : ~(k < m)
  <2>1. bad \subseteq Nat
    OBVIOUS
  <2> HIDE DEF bad
  <2> QED
    BY <2>1, LeastNumber
<1>2. m \in Nat /\ ~ \E f : LeavesOn(f, m)
  OBVIOUS
<1>3. CASE m = 0
  <2> DEFINE f == [x \in {} |-> 0]
  <2>1. Level(0) = {}
    BY InsideIs DEF Level
  <2>2. [x \in Level(0) |-> LeavesBody(f, x)] = f
    BY <2>1
  <2>3. LeavesOn(f, 0)
    BY <2>2 DEF LeavesOn
  <2> QED
    BY <1>2, <1>3, <2>3
<1>4. CASE m # 0
  <2>1. m - 1 \in Nat /\ m - 1 < m
    BY <1>2, <1>4
  <2>2. PICK f : LeavesOn(f, m - 1)
    <3>1. m - 1 \notin bad
      BY <1>1, <2>1
    <3> QED
      BY <2>1, <3>1
  <2> DEFINE g == [x \in Level(m) |-> LeavesBody(f, x)]
  <2>3. \A x \in Level(m - 1) : f[x] = LeavesBody(f, x)
    BY <2>2 DEF LeavesOn
  <2>4. ASSUME NEW x \in Level(m - 1) PROVE f[x] = g[x]
    <3>1. x \in Level(m)
      BY <1>2, InsideIs DEF Level
    <3> QED
      BY <2>3, <3>1
  <2>5. ASSUME NEW x \in Level(m) PROVE LeavesBody(f, x) = LeavesBody(g, x)
    <3> HIDE DEF g
    <3>1. x \in Vals /\ \A y \in Vals : Nesting[y] < Nesting[x] => y \in Level(m - 1)
      BY <1>2, InsideIs DEF Level
    <3>2. \A y \in Vals : Nesting[y] < Nesting[x] => f[y] = g[y]
      BY <2>4, <3>1
    <3> QED
      BY <3>1, <3>2, LeavesBodySame
  <2>6. LeavesOn(g, m)
    <3>1. g = [x \in Level(m) |-> LeavesBody(f, x)]
      OBVIOUS
    <3> HIDE DEF g
    <3>2. [x \in Level(m) |-> LeavesBody(f, x)] = [x \in Level(m) |-> LeavesBody(g, x)]
      BY <2>5
    <3> QED
      BY <3>1, <3>2 DEF LeavesOn
  <2> QED
    BY <1>2, <2>6
<1> QED
  BY <1>3, <1>4

\* So is Leaves.
LEMMA LeavesIs == \A x \in Vals : Leaves[x] = LeavesBody(Leaves, x)
<1>1. Vals = Level(Depth + 1) /\ (Depth + 1 \in Nat \/ Vals = {})
  BY InsideIs DEF Level
<1> DEFINE f == CHOOSE h : h = [x \in Vals |-> LeavesBody(h, x)]
<1>2. CASE Depth + 1 \in Nat
  <2>1. \E h : h = [x \in Vals |-> LeavesBody(h, x)]
    BY <1>1, <1>2, LeavesExists DEF LeavesOn
  <2>2. f = [x \in Vals |-> LeavesBody(f, x)]
    BY <2>1, Zenon
  <2>3. Leaves = f
    BY DEF Leaves, LeavesBody
  <2> HIDE DEF f
  <2>4. \A x \in Vals : f[x] = LeavesBody(f, x)
    BY <2>2
  <2> QED
    BY <2>3, <2>4
<1> QED
  BY <1>1, <1>2

-----------------------------------------------------------------------------
\* The reader runs on a little-endian host, in a build that reads the key of a pair first,
\* and with MSG_WAITALL, or from a pipe, which has no timeout; no binary data is longer
\* than its length can tell.
Compatible ==
  /\ ~ReaderBig /\ KeyFirst
  /\ \A x \in Vals : x.type = "BIN" => Fits(Len(x.v), W32)
  /\ Reader = "waitall" \/ (Reader = "pipe" /\ ~TimeoutSet)

\* What the reader still has to read, not as it knows it but as it was written: a value
\* of a kind, from the part of it that a read gives next.
Numbers == {p \in Nat \X {W32, W64} : Fits(p[1], p[2])}
Polyvars == {y \in Vals : Polyvar(y)}
OfType(t) == {x \in Vals : x.type = t}
Jobs ==
  ({"char"} \X Byte) \union ({"int"} \X Numbers) \union ({"str"} \X Strings)
    \union ({"strlen"} \X (Strings \ {<<>>})) \union ({"chars"} \X (Seq(Byte) \ {<<>>}))
    \union ({"bin"} \X {s \in Seq(Byte) : Fits(Len(s), W32)}) \union ({"var"} \X Polyvars)
    \union ({"list"} \X OfType("LIST")) \union ({"map"} \X OfType("MAP"))

\* What the reader knows of one.
ItemOf ==
  [j \in Jobs |->
     <<j[1], CASE j[1] \in {"char", "str", "var"} -> 1
               [] j[1] = "int" -> j[2][2]
               [] j[1] \in {"strlen", "list", "map"} -> W64
               [] j[1] = "bin" -> W32
               [] j[1] = "chars" -> Len(j[2])>>]

\* The messages that it is in, and the values that it is to be.
CallsOf ==
  [j \in Jobs |->
     CASE j[1] = "char" -> <<<<j[2]>>>>
       [] j[1] = "int" -> <<OnWire(j[2][1], j[2][2])>>
       [] j[1] = "str" -> StringOut(j[2])
       [] j[1] = "strlen" -> <<OnWire(Len(j[2]), W64), j[2]>>
       [] j[1] = "chars" -> <<j[2]>>
       [] j[1] = "bin" -> BinaryOut(j[2])
       [] j[1] = "var" -> VarOf(Out, j[2])
       [] j[1] \in {"list", "map"} -> Out[j[2]]]
GivesOf ==
  [j \in Jobs |->
     CASE j[1] \in {"var", "list", "map"} -> Leaves[j[2]]
       [] j[1] = "int" -> <<j[2][1]>>
       [] OTHER -> <<j[2]>>]

\* What the i_ method of a value begins with.
JobOf(x) ==
  CASE x.type \in {"CHAR", "BOOL"} -> <<"char", x.v>>
    [] x.type \in {"INT", "FLOAT"} -> <<"int", <<x.v, W64>>>>
    [] x.type = "INT32" -> <<"int", <<x.v, W32>>>>
    [] x.type = "STR" -> <<"str", x.v>>
    [] x.type = "BIN" -> <<"bin", x.v>>
    [] x.type = "BUF" -> <<"chars", x.v>>
    [] x.type = "LIST" -> <<"list", x>>
    [] x.type = "MAP" -> <<"map", x>>
    [] x.type = "VAR" -> <<"var", x.v>>

\* The message that is read next of one, and what remains of it then.
First(j) ==
  CASE j[1] = "char" -> <<j[2]>>
    [] j[1] = "int" -> OnWire(j[2][1], j[2][2])
    [] j[1] = "str" -> IF LongString(j[2]) THEN <<Base - 1>> ELSE <<Len(j[2])>>
    [] j[1] = "strlen" -> OnWire(Len(j[2]), W64)
    [] j[1] = "chars" -> j[2]
    [] j[1] = "bin" -> OnWire(Len(j[2]), W32)
    [] j[1] = "var" -> <<Tag(j[2].type)>>
    [] j[1] \in {"list", "map"} -> OnWire(Len(j[2].v), W64)
After(j) ==
  CASE j[1] \in {"char", "int", "chars"} -> <<>>
    [] j[1] \in {"str", "bin"} ->
         IF j[2] = <<>> THEN <<>>
         ELSE IF j[1] = "str" /\ LongString(j[2]) THEN <<<<"strlen", j[2]>>>>
         ELSE <<<<"chars", j[2]>>>>
    [] j[1] = "strlen" -> <<<<"chars", j[2]>>>>
    [] j[1] = "var" -> IF j[2].type = "VOID" THEN <<>> ELSE <<JobOf(j[2])>>
    [] j[1] = "list" -> FlattenSeq([i \in DOMAIN j[2].v |-> <<<<"var", j[2].v[i]>>>>])
    [] j[1] = "map" ->
         FlattenSeq([i \in DOMAIN j[2].v |-> <<<<"str", j[2].v[i].key>>, <<"var", j[2].v[i].val>>>>])

\* The constants are what they are.
LEMMA ValuesFacts ==
  /\ Base \in Nat /\ Base >= 8 /\ W32 \in Nat /\ W64 \in Nat /\ 1 <= W32 /\ W32 <= W64
  /\ 0..7 \subseteq Byte /\ Base - 1 \in Byte /\ Byte \subseteq Nat
BY ValuesAssumption DEF ValuesAssumption, Byte

\* Each type of a polyvar has its number.
LEMMA TagIs ==
  ASSUME NEW y, Polyvar(y)
  PROVE  Tag(y.type) \in 0..7 /\ Tag(y.type) \in Byte /\ Types[Tag(y.type) + 1] = y.type
<1>1. \E i \in 0..7 : Types[i + 1] = y.type
  <2>1. PICK k \in DOMAIN Types : y.type = Types[k]
    BY DEF Polyvar, Range
  <2>2. k \in 1..8
    BY <2>1 DEF Types
  <2>3. k - 1 \in 0..7 /\ (k - 1) + 1 = k
    BY <2>2
  <2> QED
    BY <2>1, <2>3
<1>2. Tag(y.type) \in 0..7 /\ Types[Tag(y.type) + 1] = y.type
  BY <1>1 DEF Tag
<1> QED
  BY <1>2, ValuesFacts

\* The types of polyvars.
LEMMA PolyvarTypes ==
  ASSUME NEW y, Polyvar(y)
  PROVE  y \in Vals /\ y.type \in {"VOID", "STR", "FLOAT", "INT", "CHAR", "BOOL", "LIST", "MAP"}
<1>1. PICK k \in DOMAIN Types : y.type = Types[k]
  BY DEF Polyvar, Range
<1> QED
  BY <1>1 DEF Polyvar, Types

\* What a job of each kind is.
LEMMA JobKinds ==
  /\ \A d \in Byte : LET j == <<"char", d>> IN
       j \in Jobs /\ CallsOf[j] = <<<<d>>>> /\ GivesOf[j] = <<d>> /\ ItemOf[j] = <<"char", 1>>
  /\ \A d \in Numbers : LET j == <<"int", d>> IN
       j \in Jobs /\ CallsOf[j] = <<OnWire(d[1], d[2])>> /\ GivesOf[j] = <<d[1]>> /\ ItemOf[j] = <<"int", d[2]>>
  /\ \A d \in Strings : LET j == <<"str", d>> IN
       j \in Jobs /\ CallsOf[j] = StringOut(d) /\ GivesOf[j] = <<d>> /\ ItemOf[j] = <<"str", 1>>
  /\ \A d \in Strings \ {<<>>} : LET j == <<"strlen", d>> IN
       j \in Jobs /\ CallsOf[j] = <<OnWire(Len(d), W64), d>> /\ GivesOf[j] = <<d>> /\ ItemOf[j] = <<"strlen", W64>>
  /\ \A d \in Seq(Byte) \ {<<>>} : LET j == <<"chars", d>> IN
       j \in Jobs /\ CallsOf[j] = <<d>> /\ GivesOf[j] = <<d>> /\ ItemOf[j] = <<"chars", Len(d)>>
  /\ \A d \in {s \in Seq(Byte) : Fits(Len(s), W32)} : LET j == <<"bin", d>> IN
       j \in Jobs /\ CallsOf[j] = BinaryOut(d) /\ GivesOf[j] = <<d>> /\ ItemOf[j] = <<"bin", W32>>
  /\ \A d \in Polyvars : LET j == <<"var", d>> IN
       j \in Jobs /\ CallsOf[j] = VarOf(Out, d) /\ GivesOf[j] = Leaves[d] /\ ItemOf[j] = <<"var", 1>>
  /\ \A d \in OfType("LIST") : LET j == <<"list", d>> IN
       j \in Jobs /\ CallsOf[j] = Out[d] /\ GivesOf[j] = Leaves[d] /\ ItemOf[j] = <<"list", W64>>
  /\ \A d \in OfType("MAP") : LET j == <<"map", d>> IN
       j \in Jobs /\ CallsOf[j] = Out[d] /\ GivesOf[j] = Leaves[d] /\ ItemOf[j] = <<"map", W64>>
<1>1. ASSUME NEW d \in Byte
      PROVE  LET j == <<"char", d>> IN
             j \in Jobs /\ CallsOf[j] = <<<<d>>>> /\ GivesOf[j] = <<d>> /\ ItemOf[j] = <<"char", 1>>
  <2> DEFINE j == <<"char", d>>
  <2>1. j \in Jobs /\ j[1] = "char" /\ j[2] = d
    BY DEF Jobs
  <2> HIDE DEF j
  <2>2. CallsOf[j] = <<<<d>>>> /\ GivesOf[j] = <<d>> /\ ItemOf[j] = <<"char", 1>>
    BY <2>1 DEF CallsOf, GivesOf, ItemOf
  <2> QED
    BY <2>1, <2>2 DEF j
<1>2. ASSUME NEW d \in Numbers
      PROVE  LET j == <<"int", d>> IN
             j \in Jobs /\ CallsOf[j] = <<OnWire(d[1], d[2])>> /\ GivesOf[j] = <<d[1]>> /\ ItemOf[j] = <<"int", d[2]>>
  <2> DEFINE j == <<"int", d>>
  <2>1. j \in Jobs /\ j[1] = "int" /\ j[2] = d
    BY DEF Jobs
  <2> HIDE DEF j
  <2>2. CallsOf[j] = <<OnWire(d[1], d[2])>> /\ GivesOf[j] = <<d[1]>> /\ ItemOf[j] = <<"int", d[2]>>
    BY <2>1 DEF CallsOf, GivesOf, ItemOf
  <2> QED
    BY <2>1, <2>2 DEF j
<1>3. ASSUME NEW d \in Strings
      PROVE  LET j == <<"str", d>> IN
             j \in Jobs /\ CallsOf[j] = StringOut(d) /\ GivesOf[j] = <<d>> /\ ItemOf[j] = <<"str", 1>>
  <2> DEFINE j == <<"str", d>>
  <2>1. j \in Jobs /\ j[1] = "str" /\ j[2] = d
    BY DEF Jobs
  <2> HIDE DEF j
  <2>2. CallsOf[j] = StringOut(d) /\ GivesOf[j] = <<d>> /\ ItemOf[j] = <<"str", 1>>
    BY <2>1 DEF CallsOf, GivesOf, ItemOf
  <2> QED
    BY <2>1, <2>2 DEF j
<1>4. ASSUME NEW d \in Strings \ {<<>>}
      PROVE  LET j == <<"strlen", d>> IN
             j \in Jobs /\ CallsOf[j] = <<OnWire(Len(d), W64), d>> /\ GivesOf[j] = <<d>> /\ ItemOf[j] = <<"strlen", W64>>
  <2> DEFINE j == <<"strlen", d>>
  <2>1. j \in Jobs /\ j[1] = "strlen" /\ j[2] = d
    BY DEF Jobs
  <2> HIDE DEF j
  <2>2. CallsOf[j] = <<OnWire(Len(d), W64), d>> /\ GivesOf[j] = <<d>> /\ ItemOf[j] = <<"strlen", W64>>
    BY <2>1 DEF CallsOf, GivesOf, ItemOf
  <2> QED
    BY <2>1, <2>2 DEF j
<1>5. ASSUME NEW d \in Seq(Byte) \ {<<>>}
      PROVE  LET j == <<"chars", d>> IN
             j \in Jobs /\ CallsOf[j] = <<d>> /\ GivesOf[j] = <<d>> /\ ItemOf[j] = <<"chars", Len(d)>>
  <2> DEFINE j == <<"chars", d>>
  <2>1. j \in Jobs /\ j[1] = "chars" /\ j[2] = d
    BY DEF Jobs
  <2> HIDE DEF j
  <2>2. CallsOf[j] = <<d>> /\ GivesOf[j] = <<d>> /\ ItemOf[j] = <<"chars", Len(d)>>
    BY <2>1 DEF CallsOf, GivesOf, ItemOf
  <2> QED
    BY <2>1, <2>2 DEF j
<1>6. ASSUME NEW d \in {s \in Seq(Byte) : Fits(Len(s), W32)}
      PROVE  LET j == <<"bin", d>> IN
             j \in Jobs /\ CallsOf[j] = BinaryOut(d) /\ GivesOf[j] = <<d>> /\ ItemOf[j] = <<"bin", W32>>
  <2> DEFINE j == <<"bin", d>>
  <2>1. j \in Jobs /\ j[1] = "bin" /\ j[2] = d
    BY DEF Jobs
  <2> HIDE DEF j
  <2>2. CallsOf[j] = BinaryOut(d) /\ GivesOf[j] = <<d>> /\ ItemOf[j] = <<"bin", W32>>
    BY <2>1 DEF CallsOf, GivesOf, ItemOf
  <2> QED
    BY <2>1, <2>2 DEF j
<1>7. ASSUME NEW d \in Polyvars
      PROVE  LET j == <<"var", d>> IN
             j \in Jobs /\ CallsOf[j] = VarOf(Out, d) /\ GivesOf[j] = Leaves[d] /\ ItemOf[j] = <<"var", 1>>
  <2> DEFINE j == <<"var", d>>
  <2>1. j \in Jobs /\ j[1] = "var" /\ j[2] = d
    BY DEF Jobs
  <2> HIDE DEF j
  <2>2. CallsOf[j] = VarOf(Out, d) /\ GivesOf[j] = Leaves[d] /\ ItemOf[j] = <<"var", 1>>
    BY <2>1 DEF CallsOf, GivesOf, ItemOf
  <2> QED
    BY <2>1, <2>2 DEF j
<1>8. ASSUME NEW d \in OfType("LIST")
      PROVE  LET j == <<"list", d>> IN
             j \in Jobs /\ CallsOf[j] = Out[d] /\ GivesOf[j] = Leaves[d] /\ ItemOf[j] = <<"list", W64>>
  <2> DEFINE j == <<"list", d>>
  <2>1. j \in Jobs /\ j[1] = "list" /\ j[2] = d
    BY DEF Jobs
  <2> HIDE DEF j
  <2>2. CallsOf[j] = Out[d] /\ GivesOf[j] = Leaves[d] /\ ItemOf[j] = <<"list", W64>>
    BY <2>1 DEF CallsOf, GivesOf, ItemOf
  <2> QED
    BY <2>1, <2>2 DEF j
<1>9. ASSUME NEW d \in OfType("MAP")
      PROVE  LET j == <<"map", d>> IN
             j \in Jobs /\ CallsOf[j] = Out[d] /\ GivesOf[j] = Leaves[d] /\ ItemOf[j] = <<"map", W64>>
  <2> DEFINE j == <<"map", d>>
  <2>1. j \in Jobs /\ j[1] = "map" /\ j[2] = d
    BY DEF Jobs
  <2> HIDE DEF j
  <2>2. CallsOf[j] = Out[d] /\ GivesOf[j] = Leaves[d] /\ ItemOf[j] = <<"map", W64>>
    BY <2>1 DEF CallsOf, GivesOf, ItemOf
  <2> QED
    BY <2>1, <2>2 DEF j
<1> QED
  BY <1>1, <1>2, <1>3, <1>4, <1>5, <1>6, <1>7, <1>8, <1>9

\* A value that is well-typed has the job of its method, which is all of its messages.
LEMMA JobOfValue ==
  ASSUME Compatible, NEW x \in Vals, x.type # "VOID"
  PROVE  /\ JobOf(x) \in Jobs /\ CallsOf[JobOf(x)] = Out[x] /\ GivesOf[JobOf(x)] = Leaves[x]
         /\ In(x) = <<ItemOf[JobOf(x)]>>
<1>1. WellTyped(x) /\ Out[x] = OutBody(Out, x) /\ Leaves[x] = LeavesBody(Leaves, x)
  BY InsideIs, OutIs, LeavesIs
<1>2. CASE x.type \in {"CHAR", "BOOL"}
  <2>1. x.v \in Byte
    BY <1>1, <1>2 DEF WellTyped
  <2>2. JobOf(x) = <<"char", x.v>>
    BY <1>2 DEF JobOf
  <2>3. In(x) = <<<<"char", 1>>>>
    BY <1>2 DEF In
  <2>4. Out[x] = <<<<x.v>>>> /\ Leaves[x] = <<x.v>>
    BY <1>1, <1>2 DEF OutBody, LeavesBody
  <2> QED
    BY <2>1, <2>2, <2>3, <2>4, JobKinds
<1>3. CASE x.type \in {"INT", "FLOAT"}
  <2>1. <<x.v, W64>> \in Numbers
    BY <1>1, <1>3 DEF WellTyped, Numbers, Fits
  <2>2. JobOf(x) = <<"int", <<x.v, W64>>>>
    BY <1>3 DEF JobOf
  <2>3. In(x) = <<<<"int", W64>>>>
    BY <1>3 DEF In
  <2>4. Out[x] = <<OnWire(x.v, W64)>> /\ Leaves[x] = <<x.v>>
    BY <1>1, <1>3 DEF OutBody, LeavesBody
  <2> QED
    BY <2>1, <2>2, <2>3, <2>4, JobKinds
<1>4. CASE x.type = "INT32"
  <2>1. <<x.v, W32>> \in Numbers
    BY <1>1, <1>4 DEF WellTyped, Numbers, Fits
  <2>2. JobOf(x) = <<"int", <<x.v, W32>>>>
    BY <1>4 DEF JobOf
  <2>3. In(x) = <<<<"int", W32>>>>
    BY <1>4 DEF In
  <2>4. Out[x] = <<OnWire(x.v, W32)>> /\ Leaves[x] = <<x.v>>
    BY <1>1, <1>4 DEF OutBody, LeavesBody
  <2> QED
    BY <2>1, <2>2, <2>3, <2>4, JobKinds
<1>5. CASE x.type = "STR"
  <2>1. x.v \in Strings
    BY <1>1, <1>5 DEF WellTyped
  <2>2. JobOf(x) = <<"str", x.v>>
    BY <1>5 DEF JobOf
  <2>3. In(x) = <<<<"str", 1>>>>
    BY <1>5 DEF In
  <2>4. Out[x] = StringOut(x.v) /\ Leaves[x] = <<x.v>>
    BY <1>1, <1>5 DEF OutBody, LeavesBody
  <2> DEFINE d == x.v
  <2> HIDE DEF d
  <2>5. <<"str", d>> \in Jobs /\ CallsOf[<<"str", d>>] = StringOut(d) /\ GivesOf[<<"str", d>>] = <<d>>
    BY <2>1, JobKinds DEF d
  <2>6. ItemOf[<<"str", d>>] = <<"str", 1>>
    BY <2>1, JobKinds DEF d
  <2> QED
    BY <2>2, <2>3, <2>4, <2>5, <2>6 DEF d
<1>6. CASE x.type = "BIN"
  <2>1. x.v \in {s \in Seq(Byte) : Fits(Len(s), W32)}
    BY <1>1, <1>6 DEF WellTyped, Compatible, Strings
  <2>2. JobOf(x) = <<"bin", x.v>>
    BY <1>6 DEF JobOf
  <2>3. In(x) = <<<<"bin", W32>>>>
    BY <1>6 DEF In
  <2>4. Out[x] = BinaryOut(x.v) /\ Leaves[x] = <<x.v>>
    BY <1>1, <1>6 DEF OutBody, LeavesBody
  <2> DEFINE d == x.v
  <2> HIDE DEF d
  <2>5. <<"bin", d>> \in Jobs /\ CallsOf[<<"bin", d>>] = BinaryOut(d) /\ GivesOf[<<"bin", d>>] = <<d>>
    BY <2>1, JobKinds DEF d
  <2>6. ItemOf[<<"bin", d>>] = <<"bin", W32>>
    BY <2>1, JobKinds DEF d
  <2> QED
    BY <2>2, <2>3, <2>4, <2>5, <2>6 DEF d
<1>7. CASE x.type = "BUF"
  <2>1. x.v \in Seq(Byte) \ {<<>>}
    BY <1>1, <1>7 DEF WellTyped
  <2>2. JobOf(x) = <<"chars", x.v>>
    BY <1>7 DEF JobOf
  <2>3. In(x) = <<<<"chars", Len(x.v)>>>>
    BY <1>7 DEF In
  <2>4. Out[x] = <<x.v>> /\ Leaves[x] = <<x.v>>
    BY <1>1, <1>7 DEF OutBody, LeavesBody
  <2> DEFINE d == x.v
  <2> HIDE DEF d
  <2>5. <<"chars", d>> \in Jobs /\ CallsOf[<<"chars", d>>] = <<d>> /\ GivesOf[<<"chars", d>>] = <<d>>
    BY <2>1, JobKinds DEF d
  <2>6. ItemOf[<<"chars", d>>] = <<"chars", Len(d)>>
    BY <2>1, JobKinds DEF d
  <2> QED
    BY <2>2, <2>3, <2>4, <2>5, <2>6 DEF d
<1>8. CASE x.type = "LIST"
  <2>1. x \in OfType("LIST")
    BY <1>1, <1>8 DEF OfType
  <2>2. JobOf(x) = <<"list", x>>
    BY <1>8 DEF JobOf
  <2>3. In(x) = <<<<"list", W64>>>>
    BY <1>8 DEF In
  <2>4. Out[x] = Out[x] /\ Leaves[x] = Leaves[x]
    BY <1>1, <1>8 DEF OutBody, LeavesBody
  <2> QED
    BY <2>1, <2>2, <2>3, <2>4, JobKinds
<1>9. CASE x.type = "MAP"
  <2>1. x \in OfType("MAP")
    BY <1>1, <1>9 DEF OfType
  <2>2. JobOf(x) = <<"map", x>>
    BY <1>9 DEF JobOf
  <2>3. In(x) = <<<<"map", W64>>>>
    BY <1>9 DEF In
  <2>4. Out[x] = Out[x] /\ Leaves[x] = Leaves[x]
    BY <1>1, <1>9 DEF OutBody, LeavesBody
  <2> QED
    BY <2>1, <2>2, <2>3, <2>4, JobKinds
<1>10. CASE x.type = "VAR"
  <2>1. x.v \in Polyvars
    BY <1>1, <1>10 DEF WellTyped, Polyvars, Inside, Polyvar
  <2>2. JobOf(x) = <<"var", x.v>>
    BY <1>10 DEF JobOf
  <2>3. In(x) = <<<<"var", 1>>>>
    BY <1>10 DEF In
  <2>4. Out[x] = VarOf(Out, x.v) /\ Leaves[x] = Leaves[x.v]
    BY <1>1, <1>10 DEF OutBody, LeavesBody
  <2> QED
    BY <2>1, <2>2, <2>3, <2>4, JobKinds
<1> QED
  BY <1>1, <1>2, <1>3, <1>4, <1>5, <1>6, <1>7, <1>8, <1>9, <1>10 DEF WellTyped

-----------------------------------------------------------------------------
\* A set of values that has each one whose inside it has, has all of them.
LEMMA AllByNesting ==
  ASSUME NEW P, \A x \in Vals : (\A y \in Vals : Nesting[y] < Nesting[x] => y \in P) => x \in P
  PROVE  Vals \subseteq P
<1> DEFINE bad == {Nesting[x] : x \in Vals \ P}
<1> SUFFICES ASSUME bad # {} PROVE FALSE
  OBVIOUS
<1>1. PICK n \in bad : \A m \in bad : ~(m < n)
  <2>1. bad \subseteq Nat
    BY InsideIs
  <2> HIDE DEF bad
  <2> QED
    BY <2>1, LeastNumber
<1>2. PICK x \in Vals \ P : n = Nesting[x]
  OBVIOUS
<1>3. \A y \in Vals : Nesting[y] < Nesting[x] => y \in P
  BY <1>1, <1>2
<1> QED
  BY <1>2, <1>3

\* The bytes of a string, and of binary data.
LEMMA StringOutType == \A s \in Strings : StringOut(s) \in Seq(Seq(Byte))
<1> SUFFICES ASSUME NEW s \in Strings PROVE StringOut(s) \in Seq(Seq(Byte))
  OBVIOUS
<1>1. s \in Seq(Byte) /\ Len(s) \in Nat
  BY LenProperties DEF Strings
<1>2. <<Base - 1>> \in Seq(Byte) /\ OnWire(Len(s), W64) \in Seq(Byte)
  BY <1>1, ValuesFacts, OnWireIs
<1>3. ~LongString(s) => <<Len(s)>> \in Seq(Byte)
  BY <1>1, ValuesFacts DEF LongString, Byte
<1> DEFINE a == IF LongString(s) THEN <<<<Base - 1>>, OnWire(Len(s), W64)>> ELSE <<<<Len(s)>>>>
           b == IF s = <<>> THEN <<>> ELSE <<s>>
<1>4. a \in Seq(Seq(Byte))
  BY <1>2, <1>3
<1>5. b \in Seq(Seq(Byte))
  BY <1>1
<1>6. StringOut(s) = a \o b
  BY DEF StringOut, Content
<1> HIDE DEF a, b
<1> QED
  BY <1>4, <1>5, <1>6, ConcatProperties

\* o_bin writes messages of bytes.
LEMMA BinaryOutType == \A s \in Seq(Byte) : BinaryOut(s) \in Seq(Seq(Byte))
<1> SUFFICES ASSUME NEW s \in Seq(Byte) PROVE BinaryOut(s) \in Seq(Seq(Byte))
  OBVIOUS
<1>1. Len(s) \in Nat
  BY LenProperties
<1>2. OnWire(Len(s), W32) \in Seq(Byte)
  BY <1>1, ValuesFacts, OnWireIs
<1> DEFINE a == <<OnWire(Len(s), W32)>>
           b == IF s = <<>> THEN <<>> ELSE <<s>>
<1>3. a \in Seq(Seq(Byte))
  BY <1>2
<1>4. b \in Seq(Seq(Byte))
  OBVIOUS
<1>5. BinaryOut(s) = a \o b
  BY DEF BinaryOut
<1> HIDE DEF a, b
<1> QED
  BY <1>3, <1>4, <1>5, ConcatProperties

\* A polyvar is its tag and its value.
LEMMA VarType ==
  ASSUME NEW y, Polyvar(y), Out[y] \in Seq(Seq(Byte))
  PROVE  VarOf(Out, y) \in Seq(Seq(Byte))
<1>1. <<<<Tag(y.type)>>>> \in Seq(Seq(Byte))
  <2>1. <<Tag(y.type)>> \in Seq(Byte)
    BY TagIs
  <2> QED
    BY <2>1
<1> DEFINE a == <<<<Tag(y.type)>>>>
<1>2. VarOf(Out, y) = a \o Out[y]
  BY DEF VarOf
<1> HIDE DEF a
<1> QED
  BY <1>1, <1>2, ConcatProperties DEF a

\* Messages are sequences of bytes.
LEMMA OutType == \A x \in Vals : Out[x] \in Seq(Seq(Byte))
<1> DEFINE P == {x \in Vals : Out[x] \in Seq(Seq(Byte))}
<1>1. ASSUME NEW x \in Vals, \A y \in Vals : Nesting[y] < Nesting[x] => y \in P
      PROVE  Out[x] \in Seq(Seq(Byte))
  <2>1. WellTyped(x) /\ Out[x] = OutBody(Out, x)
    BY InsideIs, OutIs
  <2>2. \A y : Inside(y, x) => VarOf(Out, y) \in Seq(Seq(Byte))
    BY <1>1, InsideIs, VarType DEF Inside
  <2> HIDE DEF P
  <2>3. \A n \in Nat : <<OnWire(n, W64)>> \in Seq(Seq(Byte)) /\ <<OnWire(n, W32)>> \in Seq(Seq(Byte))
    <3>1. \A n \in Nat : OnWire(n, W64) \in Seq(Byte) /\ OnWire(n, W32) \in Seq(Byte)
      BY ValuesFacts, OnWireIs
    <3> QED
      BY <3>1
  <2>4. CASE x.type = "LIST"
    <3> DEFINE n == Len(x.v)
               t == [i \in DOMAIN x.v |-> VarOf(Out, x.v[i])]
    <3>1. n \in Nat /\ DOMAIN x.v = 1..n /\ \A i \in DOMAIN x.v : VarOf(Out, x.v[i]) \in Seq(Seq(Byte))
      BY <2>1, <2>2, <2>4 DEF WellTyped
    <3>2. t \in Seq(Seq(Seq(Byte)))
      BY <3>1
    <3>3. Out[x] = <<OnWire(n, W64)>> \o FlattenSeq(t)
      BY <2>1, <2>4 DEF OutBody
    <3> DEFINE a == <<OnWire(n, W64)>>
    <3>4. a \in Seq(Seq(Byte))
      BY <2>3, <3>1
    <3> HIDE DEF t, a
    <3>5. FlattenSeq(t) \in Seq(Seq(Byte))
      BY <3>2, FlattenType
    <3>6. a \o FlattenSeq(t) \in Seq(Seq(Byte))
      BY <3>4, <3>5, ConcatProperties
    <3> QED
      BY <3>3, <3>6 DEF a
  <2>5. CASE x.type = "MAP"
    <3> DEFINE n == Len(x.v)
               t == [i \in DOMAIN x.v |-> StringOut(x.v[i].key) \o VarOf(Out, x.v[i].val)]
    <3>1. /\ n \in Nat /\ DOMAIN x.v = 1..n
          /\ \A i \in DOMAIN x.v : /\ VarOf(Out, x.v[i].val) \in Seq(Seq(Byte))
                                   /\ StringOut(x.v[i].key) \in Seq(Seq(Byte))
      BY <2>1, <2>2, <2>5, StringOutType DEF WellTyped
    <3>2. t \in Seq(Seq(Seq(Byte)))
      <4>1. \A i \in 1..n : StringOut(x.v[i].key) \o VarOf(Out, x.v[i].val) \in Seq(Seq(Byte))
        BY <3>1, ConcatProperties
      <4> QED
        BY <3>1, <4>1
    <3>3. Out[x] = <<OnWire(n, W64)>> \o FlattenSeq(t)
      BY <2>1, <2>5 DEF OutBody
    <3> DEFINE a == <<OnWire(n, W64)>>
    <3>4. a \in Seq(Seq(Byte))
      BY <2>3, <3>1
    <3> HIDE DEF t, a
    <3>5. FlattenSeq(t) \in Seq(Seq(Byte))
      BY <3>2, FlattenType
    <3>6. a \o FlattenSeq(t) \in Seq(Seq(Byte))
      BY <3>4, <3>5, ConcatProperties
    <3> QED
      BY <3>3, <3>6 DEF a
  <2>6. CASE x.type = "VAR"
    BY <2>1, <2>2, <2>6 DEF OutBody, WellTyped
  <2>7. CASE x.type \in {"STR", "BIN"}
    <3>1. x.v \in Strings /\ x.v \in Seq(Byte)
      BY <2>1, <2>7 DEF WellTyped, Strings
    <3> QED
      BY <2>1, <2>7, <3>1, StringOutType, BinaryOutType DEF OutBody
  <2>8. CASE x.type \in {"INT", "FLOAT", "INT32"}
    <3>1. x.v \in Nat /\ (Out[x] = <<OnWire(x.v, W64)>> \/ Out[x] = <<OnWire(x.v, W32)>>)
      BY <2>1, <2>8 DEF WellTyped, OutBody, Fits
    <3> QED
      BY <2>3, <3>1
  <2>9. CASE x.type \in {"VOID", "CHAR", "BOOL", "BUF"}
    <3>1. CASE x.type = "VOID"
      <4>1. Out[x] = <<>>
        BY <2>1, <3>1 DEF OutBody
      <4> QED
        BY <4>1, EmptySeq
    <3>2. CASE x.type \in {"CHAR", "BOOL"}
      <4>1. x.v \in Byte /\ Out[x] = <<<<x.v>>>>
        BY <2>1, <3>2 DEF OutBody, WellTyped
      <4>2. <<x.v>> \in Seq(Byte)
        BY <4>1
      <4> QED
        BY <4>1, <4>2
    <3>3. CASE x.type = "BUF"
      <4>1. x.v \in Seq(Byte) /\ Out[x] = <<x.v>>
        BY <2>1, <3>3 DEF OutBody, WellTyped
      <4> QED
        BY <4>1
    <3> QED
      BY <2>9, <3>1, <3>2, <3>3
  <2> QED
    BY <2>1, <2>4, <2>5, <2>6, <2>7, <2>8, <2>9 DEF WellTyped
<1>2. \A x \in Vals : (\A y \in Vals : Nesting[y] < Nesting[x] => y \in P) => x \in P
  BY <1>1
<1> HIDE DEF P
<1>3. Vals \subseteq P
  BY <1>2, AllByNesting
<1> QED
  BY <1>3 DEF P

\* What a value is made of: strings, numbers and bytes, and the VOID.
Leaf == {"VOID"} \union Nat \union Seq(Byte)

\* What a value should be to its reader is a sequence of leaves.
LEMMA LeavesType == \A x \in Vals : Leaves[x] \in Seq(Leaf)
<1> DEFINE P == {x \in Vals : Leaves[x] \in Seq(Leaf)}
<1>1. ASSUME NEW x \in Vals, \A y \in Vals : Nesting[y] < Nesting[x] => y \in P
      PROVE  Leaves[x] \in Seq(Leaf)
  <2>1. WellTyped(x) /\ Leaves[x] = LeavesBody(Leaves, x)
    BY InsideIs, LeavesIs
  <2>2. \A y : Inside(y, x) => Leaves[y] \in Seq(Leaf)
    BY <1>1, InsideIs
  <2> HIDE DEF P
  <2>3. CASE x.type = "LIST"
    <3> DEFINE n == Len(x.v)
               t == [i \in DOMAIN x.v |-> Leaves[x.v[i]]]
    <3>1. n \in Nat /\ DOMAIN x.v = 1..n /\ \A i \in DOMAIN x.v : Leaves[x.v[i]] \in Seq(Leaf)
      BY <2>1, <2>2, <2>3 DEF WellTyped
    <3>2. t \in Seq(Seq(Leaf))
      BY <3>1
    <3>3. Leaves[x] = FlattenSeq(t)
      BY <2>1, <2>3 DEF LeavesBody
    <3> HIDE DEF t
    <3> QED
      BY <3>2, <3>3, FlattenType
  <2>4. CASE x.type = "MAP"
    <3> DEFINE n == Len(x.v)
               t == [i \in DOMAIN x.v |-> <<x.v[i].key>> \o Leaves[x.v[i].val]]
    <3>1. /\ n \in Nat /\ DOMAIN x.v = 1..n
          /\ \A i \in DOMAIN x.v : Leaves[x.v[i].val] \in Seq(Leaf) /\ x.v[i].key \in Leaf
      BY <2>1, <2>2, <2>4 DEF WellTyped, Strings, Leaf
    <3>2. t \in Seq(Seq(Leaf))
      <4>1. ASSUME NEW i \in 1..n PROVE <<x.v[i].key>> \o Leaves[x.v[i].val] \in Seq(Leaf)
        <5>1. <<x.v[i].key>> \in Seq(Leaf)
          BY <3>1
        <5> QED
          BY <3>1, <5>1, ConcatProperties
      <4> QED
        BY <3>1, <4>1
    <3>3. Leaves[x] = FlattenSeq(t)
      BY <2>1, <2>4 DEF LeavesBody
    <3> HIDE DEF t
    <3> QED
      BY <3>2, <3>3, FlattenType
  <2>5. CASE x.type = "VAR"
    BY <2>1, <2>2, <2>5 DEF LeavesBody, WellTyped
  <2>6. CASE x.type = "VOID"
    <3>1. Leaves[x] = <<"VOID">> /\ "VOID" \in Leaf
      BY <2>1, <2>6 DEF LeavesBody, Leaf
    <3> QED
      BY <3>1
  <2>7. CASE x.type \notin {"LIST", "MAP", "VAR", "VOID"}
    <3>1. Leaves[x] = <<x.v>>
      BY <2>1, <2>7 DEF LeavesBody
    <3>2. x.v \in Leaf
      BY <2>1, <2>7, ValuesFacts DEF WellTyped, Fits, Strings, Leaf
    <3> QED
      BY <3>1, <3>2
  <2> QED
    BY <2>3, <2>4, <2>5, <2>6, <2>7
<1>2. \A x \in Vals : (\A y \in Vals : Nesting[y] < Nesting[x] => y \in P) => x \in P
  BY <1>1
<1> HIDE DEF P
<1>3. Vals \subseteq P
  BY <1>2, AllByNesting
<1> QED
  BY <1>3 DEF P

\* A job is of one of the kinds.
LEMMA JobCases ==
  ASSUME NEW j \in Jobs
  PROVE  \/ \E d \in Byte : j = <<"char", d>>
         \/ \E d \in Numbers : j = <<"int", d>>
         \/ \E d \in Strings : j = <<"str", d>>
         \/ \E d \in Strings \ {<<>>} : j = <<"strlen", d>>
         \/ \E d \in Seq(Byte) \ {<<>>} : j = <<"chars", d>>
         \/ \E d \in {s \in Seq(Byte) : Fits(Len(s), W32)} : j = <<"bin", d>>
         \/ \E d \in Polyvars : j = <<"var", d>>
         \/ \E d \in OfType("LIST") : j = <<"list", d>>
         \/ \E d \in OfType("MAP") : j = <<"map", d>>
BY DEF Jobs

\* The next read of a job is of its first message, which is not empty.
JobGoes(j) ==
  /\ First(j) \in Seq(Byte) /\ Len(First(j)) = ItemOf[j][2] /\ ItemOf[j][2] \in Nat \ {0}
  /\ After(j) \in Seq(Jobs)
  /\ CallsOf[j] = <<First(j)>> \o Joins(CallsOf, After(j))
  /\ Value(ItemOf[j][1], First(j)) \in Seq(Leaf)
  /\ GivesOf[j] = Value(ItemOf[j][1], First(j)) \o Joins(GivesOf, After(j))
  /\ More(ItemOf[j][1], First(j)) = Mapped(ItemOf, After(j))

\* The messages and the values of jobs are sequences.
LEMMA JobTypes ==
  /\ \A j \in Jobs : CallsOf[j] \in Seq(Seq(Byte))
  /\ \A j \in Jobs : GivesOf[j] \in Seq(Leaf)
<1>1. ASSUME NEW j \in Jobs PROVE CallsOf[j] \in Seq(Seq(Byte)) /\ GivesOf[j] \in Seq(Leaf)
  <2>1. ASSUME NEW d \in Byte, j = <<"char", d>> PROVE CallsOf[j] \in Seq(Seq(Byte)) /\ GivesOf[j] \in Seq(Leaf)
    <3>1. CallsOf[j] = <<<<d>>>> /\ GivesOf[j] = <<d>>
      BY <2>1, JobKinds
    <3>2. d \in Leaf /\ <<d>> \in Seq(Byte)
      BY ValuesFacts DEF Leaf
    <3> QED
      BY <3>1, <3>2
  <2>2. ASSUME NEW d \in Numbers, j = <<"int", d>> PROVE CallsOf[j] \in Seq(Seq(Byte)) /\ GivesOf[j] \in Seq(Leaf)
    <3>1. CallsOf[j] = <<OnWire(d[1], d[2])>> /\ GivesOf[j] = <<d[1]>>
      BY <2>2, JobKinds
    <3>2. d[1] \in Nat /\ d[2] \in Nat
      BY ValuesFacts DEF Numbers
    <3>3. d[1] \in Leaf /\ OnWire(d[1], d[2]) \in Seq(Byte)
      BY <3>2, OnWireIs DEF Leaf
    <3> QED
      BY <3>1, <3>3
  <2>3. ASSUME NEW d \in Strings, j = <<"str", d>> PROVE CallsOf[j] \in Seq(Seq(Byte)) /\ GivesOf[j] \in Seq(Leaf)
    <3>1. CallsOf[j] = StringOut(d) /\ GivesOf[j] = <<d>>
      BY <2>3, JobKinds
    <3>2. d \in Leaf
      BY DEF Leaf, Strings
    <3>3. <<d>> \in Seq(Leaf)
      BY <3>2
    <3> QED
      BY <3>1, <3>3, StringOutType
  <2>4. ASSUME NEW d \in Strings \ {<<>>}, j = <<"strlen", d>> PROVE CallsOf[j] \in Seq(Seq(Byte)) /\ GivesOf[j] \in Seq(Leaf)
    <3>1. CallsOf[j] = <<OnWire(Len(d), W64), d>> /\ GivesOf[j] = <<d>>
      BY <2>4, JobKinds
    <3>2. d \in Leaf /\ d \in Seq(Byte) /\ Len(d) \in Nat
      BY LenProperties DEF Leaf, Strings
    <3>3. OnWire(Len(d), W64) \in Seq(Byte)
      BY <3>2, ValuesFacts, OnWireIs
    <3>4. <<OnWire(Len(d), W64), d>> \in Seq(Seq(Byte))
      BY <3>2, <3>3
    <3>5. <<d>> \in Seq(Leaf)
      BY <3>2
    <3> QED
      BY <3>1, <3>4, <3>5
  <2>5. ASSUME NEW d \in Seq(Byte) \ {<<>>}, j = <<"chars", d>> PROVE CallsOf[j] \in Seq(Seq(Byte)) /\ GivesOf[j] \in Seq(Leaf)
    <3>1. CallsOf[j] = <<d>> /\ GivesOf[j] = <<d>>
      BY <2>5, JobKinds
    <3>2. d \in Leaf /\ d \in Seq(Byte)
      BY DEF Leaf
    <3> QED
      BY <3>1, <3>2
  <2>6. ASSUME NEW d \in {s \in Seq(Byte) : Fits(Len(s), W32)}, j = <<"bin", d>>
        PROVE  CallsOf[j] \in Seq(Seq(Byte)) /\ GivesOf[j] \in Seq(Leaf)
    <3>1. CallsOf[j] = BinaryOut(d) /\ GivesOf[j] = <<d>>
      BY <2>6, JobKinds
    <3>2. d \in Leaf /\ d \in Seq(Byte)
      BY DEF Leaf
    <3>3. <<d>> \in Seq(Leaf)
      BY <3>2
    <3> QED
      BY <3>1, <3>2, <3>3, BinaryOutType
  <2>7. ASSUME NEW d \in Polyvars, j = <<"var", d>> PROVE CallsOf[j] \in Seq(Seq(Byte)) /\ GivesOf[j] \in Seq(Leaf)
    <3>1. CallsOf[j] = VarOf(Out, d) /\ GivesOf[j] = Leaves[d]
      BY <2>7, JobKinds
    <3>2. Polyvar(d) /\ d \in Vals
      BY DEF Polyvars
    <3> QED
      BY <3>1, <3>2, OutType, LeavesType, VarType
  <2>8. ASSUME NEW d \in OfType("LIST") \union OfType("MAP"), j = <<"list", d>> \/ j = <<"map", d>>
        PROVE  CallsOf[j] \in Seq(Seq(Byte)) /\ GivesOf[j] \in Seq(Leaf)
    <3>1. d \in Vals /\ (j[1] = "list" \/ j[1] = "map") /\ j[2] = d
      BY <2>8 DEF OfType
    <3>2. CallsOf[j] = Out[d] /\ GivesOf[j] = Leaves[d]
      BY <3>1 DEF CallsOf, GivesOf
    <3> QED
      BY <3>1, <3>2, OutType, LeavesType
  <2> QED
    BY <2>1, <2>2, <2>3, <2>4, <2>5, <2>6, <2>7, <2>8, JobCases
<1> QED
  BY <1>1

-----------------------------------------------------------------------------
\* What is joined of nothing, of one, and of two sequences of jobs.
LEMMA JoinsFew ==
  ASSUME NEW J, NEW T, NEW g, \A j \in J : g[j] \in Seq(T)
  PROVE  /\ Joins(g, <<>>) = <<>>
         /\ \A j \in J : Joins(g, <<j>>) = g[j]
<1>1. Joins(g, <<>>) = <<>>
  BY MappedFew, FlattenEmpty DEF Joins
<1>2. ASSUME NEW j \in J PROVE Joins(g, <<j>>) = g[j]
  <2>1. Mapped(g, <<j>>) = <<g[j]>>
    BY MappedFew
  <2>2. FlattenSeq(<<g[j]>>) = g[j]
    BY FlattenOne
  <2> QED
    BY <2>1, <2>2 DEF Joins
<1> QED
  BY <1>1, <1>2

\* Joining over two sequences is joining over one and then over the other.
JoinApart(g, J, T) ==
  \A s, t \in Seq(J) : Joins(g, s) \in Seq(T) /\ Joins(g, s \o t) = Joins(g, s) \o Joins(g, t)

\* It is so of whatever is joined.
LEMMA JoinsConcat ==
  ASSUME NEW J, NEW T, NEW g, \A j \in J : g[j] \in Seq(T)
  PROVE  JoinApart(g, J, T)
<1>1. ASSUME NEW s \in Seq(J) PROVE Mapped(g, s) \in Seq(Seq(T))
  BY MappedType
<1>2. ASSUME NEW s \in Seq(J), NEW t \in Seq(J)
      PROVE  /\ Joins(g, s) \in Seq(T)
             /\ Joins(g, s \o t) = Joins(g, s) \o Joins(g, t)
  <2>1. Mapped(g, s) \in Seq(Seq(T)) /\ Mapped(g, t) \in Seq(Seq(T))
    BY <1>1
  <2>2. Joins(g, s) \in Seq(T)
    BY <2>1, FlattenType DEF Joins
  <2>3. Mapped(g, s \o t) = Mapped(g, s) \o Mapped(g, t)
    BY MappedConcat
  <2>4. FlattenSeq(Mapped(g, s) \o Mapped(g, t)) = FlattenSeq(Mapped(g, s)) \o FlattenSeq(Mapped(g, t))
    BY <2>1, FlattenConcat
  <2> QED
    BY <2>2, <2>3, <2>4 DEF Joins
<1> QED
  BY <1>2 DEF JoinApart

\* And of joined sequences.
LEMMA JoinsFlatten ==
  ASSUME NEW J, NEW T, NEW g, \A j \in J : g[j] \in Seq(T), NEW ss \in Seq(Seq(J))
  PROVE  Joins(g, FlattenSeq(ss)) = FlattenSeq(EachJoined(g, ss))
<1> DEFINE m == [k \in DOMAIN ss |-> Mapped(g, ss[k])]
<1>1. m \in Seq(Seq(Seq(T))) /\ Mapped(g, FlattenSeq(ss)) = FlattenSeq(m)
  <2>1. Len(ss) \in Nat /\ DOMAIN ss = 1..Len(ss) /\ \A k \in 1..Len(ss) : ss[k] \in Seq(J)
    BY LenProperties
  <2>2. \A k \in 1..Len(ss) : Mapped(g, ss[k]) \in Seq(Seq(T))
    BY <2>1, MappedType
  <2>3. m \in Seq(Seq(Seq(T)))
    BY <2>1, <2>2
  <2>4. Mapped(g, FlattenSeq(ss)) = FlattenSeq(m)
    BY MappedFlatten DEF EachMapped
  <2> QED
    BY <2>3, <2>4
<1>2. DOMAIN m = DOMAIN ss /\ \A k \in DOMAIN ss : FlattenSeq(m[k]) = Joins(g, ss[k])
  BY DEF Joins
<1> HIDE DEF m
<1>3. FlattenSeq(FlattenSeq(m)) = FlattenSeq([k \in DOMAIN m |-> FlattenSeq(m[k])])
  BY <1>1, FlattenTwice
<1>4. [k \in DOMAIN m |-> FlattenSeq(m[k])] = EachJoined(g, ss)
  BY <1>2 DEF EachJoined
<1> QED
  BY <1>1, <1>3, <1>4 DEF Joins

\* What is joined of jobs.
LEMMA JobJoins ==
  /\ Joins(CallsOf, <<>>) = <<>> /\ Joins(GivesOf, <<>>) = <<>>
  /\ \A j \in Jobs : Joins(CallsOf, <<j>>) = CallsOf[j] /\ Joins(GivesOf, <<j>>) = GivesOf[j]
  /\ \A s, t \in Seq(Jobs) :
       /\ Joins(CallsOf, s) \in Seq(Seq(Byte)) /\ Joins(GivesOf, s) \in Seq(Leaf)
       /\ Joins(CallsOf, s \o t) = Joins(CallsOf, s) \o Joins(CallsOf, t)
       /\ Joins(GivesOf, s \o t) = Joins(GivesOf, s) \o Joins(GivesOf, t)
  /\ \A ss \in Seq(Seq(Jobs)) :
       /\ Joins(CallsOf, FlattenSeq(ss)) = FlattenSeq(EachJoined(CallsOf, ss))
       /\ Joins(GivesOf, FlattenSeq(ss)) = FlattenSeq(EachJoined(GivesOf, ss))
<1> DEFINE T == Seq(Byte)
<1>1. \A j \in Jobs : CallsOf[j] \in Seq(T)
  BY JobTypes
<1>2. \A j \in Jobs : GivesOf[j] \in Seq(Leaf)
  BY JobTypes
<1> HIDE DEF T
<1>3. Joins(CallsOf, <<>>) = <<>> /\ Joins(GivesOf, <<>>) = <<>>
  BY MappedFew, FlattenEmpty DEF Joins
<1>4. \A j \in Jobs : Joins(CallsOf, <<j>>) = CallsOf[j]
  BY <1>1, JoinsFew
<1>5. \A j \in Jobs : Joins(GivesOf, <<j>>) = GivesOf[j]
  BY <1>2, JoinsFew
<1>6. ASSUME NEW s \in Seq(Jobs), NEW t \in Seq(Jobs)
      PROVE  /\ Joins(CallsOf, s) \in Seq(T) /\ Joins(GivesOf, s) \in Seq(Leaf)
             /\ Joins(CallsOf, s \o t) = Joins(CallsOf, s) \o Joins(CallsOf, t)
             /\ Joins(GivesOf, s \o t) = Joins(GivesOf, s) \o Joins(GivesOf, t)
  <2>1. Joins(CallsOf, s) \in Seq(T) /\ Joins(CallsOf, s \o t) = Joins(CallsOf, s) \o Joins(CallsOf, t)
    <3>1. JoinApart(CallsOf, Jobs, T)
      BY <1>1, JoinsConcat
    <3> QED
      BY <3>1 DEF JoinApart
  <2>2. Joins(GivesOf, s) \in Seq(Leaf) /\ Joins(GivesOf, s \o t) = Joins(GivesOf, s) \o Joins(GivesOf, t)
    <3>1. JoinApart(GivesOf, Jobs, Leaf)
      BY <1>2, JoinsConcat
    <3> QED
      BY <3>1 DEF JoinApart
  <2> QED
    BY <2>1, <2>2
<1>7. \A ss \in Seq(Seq(Jobs)) : Joins(CallsOf, FlattenSeq(ss)) = FlattenSeq(EachJoined(CallsOf, ss))
  BY <1>1, JoinsFlatten
<1>8. \A ss \in Seq(Seq(Jobs)) : Joins(GivesOf, FlattenSeq(ss)) = FlattenSeq(EachJoined(GivesOf, ss))
  BY <1>2, JoinsFlatten
<1> QED
  BY <1>3, <1>4, <1>5, <1>6, <1>7, <1>8 DEF T

-----------------------------------------------------------------------------
\* The read of a job of which nothing remains.
LEMMA JobEnds ==
  ASSUME NEW j \in Jobs, First(j) \in Seq(Byte), Len(First(j)) = ItemOf[j][2], ItemOf[j][2] \in Nat \ {0},
         After(j) = <<>>, CallsOf[j] = <<First(j)>>, GivesOf[j] = Value(ItemOf[j][1], First(j)),
         More(ItemOf[j][1], First(j)) = <<>>
  PROVE  JobGoes(j)
<1>1. Joins(CallsOf, <<>>) = <<>> /\ Joins(GivesOf, <<>>) = <<>> /\ Mapped(ItemOf, <<>>) = <<>>
  BY MappedFew, FlattenEmpty DEF Joins
<1>2. CallsOf[j] \o <<>> = CallsOf[j] /\ GivesOf[j] \o <<>> = GivesOf[j]
  <2>1. CallsOf[j] \in Seq(Seq(Byte)) /\ GivesOf[j] \in Seq(Leaf)
    BY JobTypes
  <2> QED
    BY <2>1, ConcatEmptySeq
<1>3. After(j) \in Seq(Jobs)
  BY EmptySeq
<1>4. Value(ItemOf[j][1], First(j)) \in Seq(Leaf)
  BY JobTypes
<1> QED
  BY <1>1, <1>2, <1>3, <1>4 DEF JobGoes

\* That of a job of which one remains.
LEMMA JobOne ==
  ASSUME NEW j \in Jobs, First(j) \in Seq(Byte), Len(First(j)) = ItemOf[j][2], ItemOf[j][2] \in Nat \ {0},
         NEW k \in Jobs, After(j) = <<k>>, CallsOf[j] = <<First(j)>> \o CallsOf[k],
         Value(ItemOf[j][1], First(j)) = <<>>, GivesOf[j] = GivesOf[k],
         More(ItemOf[j][1], First(j)) = <<ItemOf[k]>>
  PROVE  JobGoes(j)
<1>1. Joins(CallsOf, <<k>>) = CallsOf[k]
  BY JobJoins
<1>2. Joins(GivesOf, <<k>>) = GivesOf[k]
  BY JobJoins
<1>3. Mapped(ItemOf, <<k>>) = <<ItemOf[k]>>
  BY MappedFew
<1>4. <<>> \o GivesOf[k] = GivesOf[k]
  <2>1. GivesOf[k] \in Seq(Leaf)
    BY JobTypes
  <2> QED
    BY <2>1, ConcatEmptySeq
<1>5. After(j) \in Seq(Jobs)
  OBVIOUS
<1>6. Value(ItemOf[j][1], First(j)) \in Seq(Leaf)
  BY EmptySeq
<1> QED
  BY <1>1, <1>2, <1>3, <1>4, <1>5, <1>6 DEF JobGoes

\* A character, a number, or the bytes of a buffer or a string.
LEMMA PlainGoes ==
  ASSUME Compatible
  PROVE  /\ \A d \in Byte : JobGoes(<<"char", d>>)
         /\ \A d \in Numbers : JobGoes(<<"int", d>>)
         /\ \A d \in Seq(Byte) \ {<<>>} : JobGoes(<<"chars", d>>)
<1>1. ASSUME NEW d \in Byte PROVE JobGoes(<<"char", d>>)
  <2> DEFINE j == <<"char", d>>
  <2>1. j[1] = "char" /\ j[2] = d
    OBVIOUS
  <2>2. j \in Jobs /\ CallsOf[j] = <<<<d>>>> /\ GivesOf[j] = <<d>> /\ ItemOf[j] = <<"char", 1>>
    BY JobKinds
  <2> HIDE DEF j
  <2>3. First(j) = <<d>> /\ After(j) = <<>>
    BY <2>1 DEF First, After
  <2>4. Value("char", <<d>>) = <<d>> /\ More("char", <<d>>) = <<>>
    BY DEF Value, More
  <2>5. <<d>> \in Seq(Byte) /\ Len(<<d>>) = 1
    OBVIOUS
  <2>6. JobGoes(j)
    BY <2>2, <2>3, <2>4, <2>5, JobEnds
  <2> QED
    BY <2>6 DEF j
<1>2. ASSUME NEW d \in Numbers PROVE JobGoes(<<"int", d>>)
  <2> DEFINE j == <<"int", d>>
             b == OnWire(d[1], d[2])
  <2>1. j[1] = "int" /\ j[2] = d
    OBVIOUS
  <2>2. j \in Jobs /\ CallsOf[j] = <<b>> /\ GivesOf[j] = <<d[1]>> /\ ItemOf[j] = <<"int", d[2]>>
    BY JobKinds
  <2>3. d[1] \in Nat /\ d[2] \in Nat \ {0} /\ Fits(d[1], d[2])
    BY ValuesFacts DEF Numbers
  <2>4. b \in Seq(Byte) /\ Len(b) = d[2]
    BY <2>3, OnWireIs
  <2>5. AsInt(b) = d[1]
    BY <2>3, AsIntIs DEF Compatible
  <2> HIDE DEF j
  <2>6. First(j) = b /\ After(j) = <<>>
    BY <2>1 DEF First, After
  <2> HIDE DEF b
  <2>7. Value("int", b) = <<d[1]>> /\ More("int", b) = <<>>
    BY <2>5 DEF Value, More
  <2>8. ItemOf[j][1] = "int" /\ ItemOf[j][2] = d[2]
    BY <2>2
  <2>9. JobGoes(j)
    BY <2>2, <2>3, <2>4, <2>6, <2>7, <2>8, JobEnds
  <2> QED
    BY <2>9 DEF j
<1>3. ASSUME NEW d \in Seq(Byte) \ {<<>>} PROVE JobGoes(<<"chars", d>>)
  <2> DEFINE j == <<"chars", d>>
  <2>1. j[1] = "chars" /\ j[2] = d
    OBVIOUS
  <2>2. j \in Jobs /\ CallsOf[j] = <<d>> /\ GivesOf[j] = <<d>> /\ ItemOf[j] = <<"chars", Len(d)>>
    BY JobKinds
  <2> HIDE DEF j
  <2>3. First(j) = d /\ After(j) = <<>>
    BY <2>1 DEF First, After
  <2>4. Value("chars", d) = <<d>> /\ More("chars", d) = <<>>
    BY DEF Value, More
  <2>5. d \in Seq(Byte) /\ Len(d) \in Nat \ {0}
    BY EmptySeq, LenProperties
  <2>6. ItemOf[j][1] = "chars" /\ ItemOf[j][2] = Len(d)
    BY <2>2
  <2>7. JobGoes(j)
    BY <2>2, <2>3, <2>4, <2>5, <2>6, JobEnds
  <2> QED
    BY <2>7 DEF j
<1> QED
  BY <1>1, <1>2, <1>3

\* The length of a string is a number that fits.
LEMMA StringIs ==
  ASSUME NEW d \in Strings
  PROVE  d \in Seq(Byte) /\ Len(d) \in Nat /\ Fits(Len(d), W64) /\ (Len(d) = 0 <=> d = <<>>)
BY LenProperties, EmptySeq DEF Strings

\* Sequences of one, of two and of three elements.
LEMMA Pairs ==
  /\ \A a : <<a>> # <<>>
  /\ \A a, b : <<a>> \o <<b>> = <<a, b>>
  /\ \A a, b, c : <<a, b>> \o <<c>> = <<a>> \o <<b, c>>
<1>1. ASSUME NEW a, NEW b PROVE <<a>> \o <<b>> = <<a, b>>
  <2> DEFINE T == {a, b}
             s == <<a>>
             t == <<b>>
             u == <<a, b>>
  <2>1. s \in Seq(T) /\ Len(s) = 1 /\ s[1] = a
    OBVIOUS
  <2>2. t \in Seq(T) /\ Len(t) = 1 /\ t[1] = b
    OBVIOUS
  <2>3. u \in Seq(T) /\ Len(u) = 2 /\ u[1] = a /\ u[2] = b
    OBVIOUS
  <2> HIDE DEF s, t, u, T
  <2>4. s \o t \in Seq(T) /\ Len(s \o t) = 2 /\ (s \o t)[1] = a /\ (s \o t)[2] = b
    BY <2>1, <2>2, ConcatProperties
  <2>5. \A i \in 1..2 : i = 1 \/ i = 2
    OBVIOUS
  <2>6. s \o t = u
    BY <2>3, <2>4, <2>5, SameElements
  <2> QED
    BY <2>6 DEF s, t, u
<1>2. ASSUME NEW a, NEW b, NEW c PROVE <<a, b>> \o <<c>> = <<a>> \o <<b, c>>
  <2> DEFINE T == {a, b, c}
             r == <<a>>
             s == <<b>>
             t == <<c>>
  <2>1. r \in Seq(T) /\ s \in Seq(T) /\ t \in Seq(T)
    OBVIOUS
  <2> HIDE DEF r, s, t, T
  <2>2. (r \o s) \o t = r \o (s \o t)
    BY <2>1, ConcatAssociative
  <2>3. r \o s = <<a, b>> /\ s \o t = <<b, c>>
    BY <1>1 DEF r, s, t
  <2> QED
    BY <2>2, <2>3 DEF r, t
<1>3. ASSUME NEW a PROVE <<a>> # <<>>
  OBVIOUS
<1> QED
  BY <1>1, <1>2, <1>3

\* The length of a long string, which is followed by its bytes.
LEMMA LengthGoes ==
  ASSUME Compatible, NEW d \in Strings \ {<<>>}
  PROVE  JobGoes(<<"strlen", d>>)
<1> DEFINE j == <<"strlen", d>>
           k == <<"chars", d>>
           b == OnWire(Len(d), W64)
<1>1. j[1] = "strlen" /\ j[2] = d
  OBVIOUS
<1>2. d \in Seq(Byte) \ {<<>>} /\ Len(d) \in Nat /\ Len(d) # 0 /\ Fits(Len(d), W64)
  BY StringIs
<1>3. j \in Jobs /\ CallsOf[j] = <<b, d>> /\ GivesOf[j] = <<d>> /\ ItemOf[j] = <<"strlen", W64>>
  BY JobKinds
<1>4. k \in Jobs /\ CallsOf[k] = <<d>> /\ GivesOf[k] = <<d>> /\ ItemOf[k] = <<"chars", Len(d)>>
  BY <1>2, JobKinds
<1>5. b \in Seq(Byte) /\ Len(b) = W64 /\ W64 \in Nat \ {0}
  BY <1>2, ValuesFacts, OnWireIs
<1>6. AsInt(b) = Len(d)
  BY <1>2, ValuesFacts, AsIntIs DEF Compatible
<1> HIDE DEF j
<1>7. First(j) = b /\ After(j) = <<k>>
  BY <1>1 DEF First, After
<1> HIDE DEF b, k
<1>8. More("strlen", b) = <<<<"chars", Len(d)>>>>
  BY <1>2, <1>6 DEF More
<1>9. Value("strlen", b) = <<>>
  <2>1. More("strlen", b) # <<>>
    BY <1>8, Pairs
  <2> QED
    BY <2>1 DEF Value
<1>10. ItemOf[j][1] = "strlen" /\ ItemOf[j][2] = W64
  BY <1>3
<1>11. CallsOf[j] = <<b>> \o CallsOf[k]
  BY <1>3, <1>4, Pairs
<1>12. JobGoes(j)
  BY <1>3, <1>4, <1>5, <1>7, <1>8, <1>9, <1>10, <1>11, JobOne
<1> QED
  BY <1>12 DEF j

\* A string: its length in one byte, or the sign that it is longer.
LEMMA StringGoes ==
  ASSUME Compatible, NEW d \in Strings
  PROVE  JobGoes(<<"str", d>>)
<1> DEFINE j == <<"str", d>>
<1>1. j[1] = "str" /\ j[2] = d
  OBVIOUS
<1>2. d \in Seq(Byte) /\ Len(d) \in Nat /\ (Len(d) = 0 <=> d = <<>>)
  BY StringIs
<1>3. j \in Jobs /\ CallsOf[j] = StringOut(d) /\ GivesOf[j] = <<d>> /\ ItemOf[j] = <<"str", 1>>
  BY JobKinds
<1>4. ItemOf[j][1] = "str" /\ ItemOf[j][2] = 1
  BY <1>3
<1>5. Base \in Nat /\ Base >= 8
  BY ValuesFacts
<1> HIDE DEF j
<1>6. CASE LongString(d)
  <2> DEFINE b == <<Base - 1>>
             k == <<"strlen", d>>
  <2>1. d # <<>> /\ b \in Seq(Byte) /\ Len(b) = 1 /\ b[1] = Base - 1
    BY <1>2, <1>5, <1>6, ValuesFacts DEF LongString
  <2>2. k \in Jobs /\ CallsOf[k] = <<OnWire(Len(d), W64), d>> /\ GivesOf[k] = <<d>> /\ ItemOf[k] = <<"strlen", W64>>
    BY <2>1, JobKinds
  <2>3. First(j) = b /\ After(j) = <<k>>
    BY <1>1, <1>6, <2>1 DEF First, After
  <2>4. CallsOf[j] = <<b, OnWire(Len(d), W64)>> \o <<d>>
    BY <1>3, <1>6, <2>1 DEF StringOut, Content
  <2> HIDE DEF b, k
  <2>5. More("str", b) = <<<<"strlen", W64>>>>
    BY <2>1 DEF More
  <2>6. Value("str", b) = <<>>
    <3>1. More("str", b) # <<>>
      BY <2>5
    <3> QED
      BY <3>1 DEF Value
  <2>7. CallsOf[j] = <<b>> \o CallsOf[k]
    BY <2>2, <2>4, Pairs
  <2> QED
    <3>1. /\ First(j) \in Seq(Byte) /\ Len(First(j)) = ItemOf[j][2] /\ ItemOf[j][2] \in Nat \ {0}
          /\ CallsOf[j] = <<First(j)>> \o CallsOf[k] /\ GivesOf[j] = GivesOf[k]
      BY <1>3, <1>4, <2>1, <2>2, <2>3, <2>7
    <3>2. More(ItemOf[j][1], First(j)) = <<ItemOf[k]>> /\ Value(ItemOf[j][1], First(j)) = <<>>
      BY <1>4, <2>2, <2>3, <2>5, <2>6
    <3>3. JobGoes(j)
      BY <1>3, <2>2, <2>3, <3>1, <3>2, JobOne
    <3> QED
      BY <3>3 DEF j
<1>7. CASE ~LongString(d)
  <2> DEFINE b == <<Len(d)>>
             k == <<"chars", d>>
  <2>1. b \in Seq(Byte) /\ Len(b) = 1 /\ b[1] = Len(d) /\ Len(d) # Base - 1
    BY <1>2, <1>5, <1>7 DEF LongString, Byte
  <2>2. First(j) = b
    BY <1>1, <1>7 DEF First
  <2>3. CASE d = <<>>
    <3>1. After(j) = <<>>
      BY <1>1, <2>3 DEF After
    <3>2. StringOut(d) = <<b>> \o <<>>
      BY <1>7, <2>3 DEF StringOut
    <3>3. <<b>> \o <<>> = <<b>>
      <4>1. <<b>> \in Seq(Seq(Byte))
        BY <2>1
      <4> QED
        BY <4>1, ConcatEmptySeq
    <3> HIDE DEF b
    <3>4. More("str", b) = <<>>
      BY <1>2, <2>1, <2>3 DEF More
    <3>5. Value("str", b) = <<d>>
      BY <2>3, <3>4 DEF Value
    <3>6. JobGoes(j)
      BY <1>3, <1>4, <2>1, <2>2, <3>1, <3>2, <3>3, <3>4, <3>5, JobEnds
    <3> QED
      BY <3>6 DEF j
  <2>4. CASE d # <<>>
    <3>1. k \in Jobs /\ CallsOf[k] = <<d>> /\ GivesOf[k] = <<d>> /\ ItemOf[k] = <<"chars", Len(d)>>
      BY <1>2, <2>4, JobKinds
    <3>2. After(j) = <<k>>
      BY <1>1, <1>7, <2>4 DEF After
    <3>3. CallsOf[j] = <<b>> \o <<d>>
      BY <1>3, <1>7, <2>4 DEF StringOut, Content
    <3> HIDE DEF b, k
    <3>4. More("str", b) = <<<<"chars", Len(d)>>>>
      BY <1>2, <2>1, <2>4 DEF More
    <3>5. Value("str", b) = <<>>
      <4>1. More("str", b) # <<>>
        BY <3>4
      <4> QED
        BY <4>1 DEF Value
    <3>6. /\ First(j) \in Seq(Byte) /\ Len(First(j)) = ItemOf[j][2] /\ ItemOf[j][2] \in Nat \ {0}
          /\ CallsOf[j] = <<First(j)>> \o CallsOf[k] /\ GivesOf[j] = GivesOf[k]
      BY <1>3, <1>4, <2>1, <2>2, <3>1, <3>3
    <3>7. More(ItemOf[j][1], First(j)) = <<ItemOf[k]>> /\ Value(ItemOf[j][1], First(j)) = <<>>
      BY <1>4, <2>2, <3>1, <3>4, <3>5
    <3>8. JobGoes(j)
      BY <1>3, <3>1, <3>2, <3>6, <3>7, JobOne
    <3> QED
      BY <3>8 DEF j
  <2> QED
    BY <2>3, <2>4
<1> QED
  BY <1>6, <1>7

\* Binary data: its length, and its bytes if there are any.
LEMMA BinaryGoes ==
  ASSUME Compatible, NEW d \in {s \in Seq(Byte) : Fits(Len(s), W32)}
  PROVE  JobGoes(<<"bin", d>>)
<1> DEFINE j == <<"bin", d>>
           b == OnWire(Len(d), W32)
           k == <<"chars", d>>
<1>1. j[1] = "bin" /\ j[2] = d
  OBVIOUS
<1>2. d \in Seq(Byte) /\ Len(d) \in Nat /\ (Len(d) = 0 <=> d = <<>>) /\ Fits(Len(d), W32)
  BY LenProperties, EmptySeq
<1>3. j \in Jobs /\ CallsOf[j] = BinaryOut(d) /\ GivesOf[j] = <<d>> /\ ItemOf[j] = <<"bin", W32>>
  BY JobKinds
<1>4. ItemOf[j][1] = "bin" /\ ItemOf[j][2] = W32
  BY <1>3
<1>5. b \in Seq(Byte) /\ Len(b) = W32 /\ W32 \in Nat \ {0}
  BY <1>2, ValuesFacts, OnWireIs
<1>6. AsInt(b) = Len(d)
  BY <1>2, ValuesFacts, AsIntIs DEF Compatible
<1> HIDE DEF j
<1>7. First(j) = b
  BY <1>1 DEF First
<1>8. CASE d = <<>>
  <2>1. After(j) = <<>>
    BY <1>1, <1>8 DEF After
  <2>2. BinaryOut(d) = <<b>> \o <<>>
    BY <1>8 DEF BinaryOut
  <2>3. <<b>> \o <<>> = <<b>>
    <3>1. <<b>> \in Seq(Seq(Byte))
      BY <1>5
    <3> QED
      BY <3>1, ConcatEmptySeq
  <2> HIDE DEF b
  <2>4. More("bin", b) = <<>>
    BY <1>2, <1>6, <1>8 DEF More
  <2>5. Value("bin", b) = <<d>>
    BY <1>8, <2>4 DEF Value
  <2>6. JobGoes(j)
    BY <1>3, <1>4, <1>5, <1>7, <2>1, <2>2, <2>3, <2>4, <2>5, JobEnds
  <2> QED
    BY <2>6 DEF j
<1>9. CASE d # <<>>
  <2>1. k \in Jobs /\ CallsOf[k] = <<d>> /\ GivesOf[k] = <<d>> /\ ItemOf[k] = <<"chars", Len(d)>>
    BY <1>2, <1>9, JobKinds
  <2>2. After(j) = <<k>>
    BY <1>1, <1>9 DEF After
  <2>3. CallsOf[j] = <<b>> \o <<d>>
    BY <1>3, <1>9 DEF BinaryOut
  <2> HIDE DEF b, k
  <2>4. More("bin", b) = <<<<"chars", Len(d)>>>>
    BY <1>2, <1>6, <1>9 DEF More
  <2>5. Value("bin", b) = <<>>
    <3>1. More("bin", b) # <<>>
      BY <2>4
    <3> QED
      BY <3>1 DEF Value
  <2>6. JobGoes(j)
    BY <1>3, <1>4, <1>5, <1>7, <2>1, <2>2, <2>3, <2>4, <2>5, JobOne
  <2> QED
    BY <2>6 DEF j
<1> QED
  BY <1>8, <1>9

\* A polyvar: its tag, and what its type says.
LEMMA VarGoes ==
  ASSUME Compatible, NEW d \in Polyvars
  PROVE  JobGoes(<<"var", d>>)
<1> DEFINE j == <<"var", d>>
           b == <<Tag(d.type)>>
<1>1. j[1] = "var" /\ j[2] = d
  OBVIOUS
<1>2. d \in Vals /\ Polyvar(d)
  BY DEF Polyvars
<1>3. j \in Jobs /\ CallsOf[j] = VarOf(Out, d) /\ GivesOf[j] = Leaves[d] /\ ItemOf[j] = <<"var", 1>>
  BY JobKinds
<1>4. ItemOf[j][1] = "var" /\ ItemOf[j][2] = 1
  BY <1>3
<1>5. b \in Seq(Byte) /\ Len(b) = 1 /\ b[1] = Tag(d.type)
  BY <1>2, TagIs
<1>6. Types[b[1] + 1] = d.type
  BY <1>2, <1>5, TagIs
<1>7. CallsOf[j] = <<b>> \o Out[d]
  BY <1>3 DEF VarOf
<1>8. Out[d] \in Seq(Seq(Byte)) /\ <<b>> \in Seq(Seq(Byte))
  BY <1>2, <1>5, OutType
<1> HIDE DEF j
<1>9. First(j) = b
  BY <1>1 DEF First
<1> HIDE DEF b
<1>10. More("var", b) = In([type |-> d.type])
  BY <1>6 DEF More
<1>11. CASE d.type = "VOID"
  <2>1. After(j) = <<>>
    BY <1>1, <1>11 DEF After
  <2>2. Out[d] = <<>> /\ Leaves[d] = <<"VOID">>
    BY <1>2, <1>11, OutIs, LeavesIs DEF OutBody, LeavesBody
  <2>3. CallsOf[j] = <<b>>
    BY <1>7, <1>8, <2>2, ConcatEmptySeq
  <2>4. More("var", b) = <<>>
    BY <1>10, <1>11 DEF In
  <2>5. Value("var", b) = <<"VOID">>
    BY <1>6, <1>11 DEF Value
  <2>6. /\ First(j) \in Seq(Byte) /\ Len(First(j)) = ItemOf[j][2] /\ ItemOf[j][2] \in Nat \ {0}
        /\ CallsOf[j] = <<First(j)>>
    BY <1>3, <1>4, <1>5, <1>9, <2>3
  <2>7. More(ItemOf[j][1], First(j)) = <<>> /\ Value(ItemOf[j][1], First(j)) = GivesOf[j]
    BY <1>3, <1>4, <1>9, <2>2, <2>4, <2>5
  <2>8. JobGoes(j)
    BY <1>3, <2>1, <2>6, <2>7, JobEnds
  <2> QED
    BY <2>8 DEF j
<1>12. CASE d.type # "VOID"
  <2> DEFINE k == JobOf(d)
  <2>1. k \in Jobs /\ CallsOf[k] = Out[d] /\ GivesOf[k] = Leaves[d] /\ In(d) = <<ItemOf[k]>>
    BY <1>2, <1>12, JobOfValue
  <2>2. After(j) = <<k>>
    BY <1>1, <1>12 DEF After
  <2>3. In([type |-> d.type]) = In(d)
    <3>1. d.type \in {"STR", "FLOAT", "INT", "CHAR", "BOOL", "LIST", "MAP"}
      BY <1>2, <1>12, PolyvarTypes
    <3> QED
      BY <3>1 DEF In
  <2> HIDE DEF k
  <2>4. More("var", b) = <<ItemOf[k]>>
    BY <1>10, <2>1, <2>3
  <2>5. Value("var", b) = <<>>
    BY <1>6, <1>12 DEF Value
  <2>6. /\ First(j) \in Seq(Byte) /\ Len(First(j)) = ItemOf[j][2] /\ ItemOf[j][2] \in Nat \ {0}
        /\ CallsOf[j] = <<First(j)>> \o CallsOf[k] /\ GivesOf[j] = GivesOf[k]
    BY <1>3, <1>4, <1>5, <1>7, <1>9, <2>1
  <2>7. More(ItemOf[j][1], First(j)) = <<ItemOf[k]>> /\ Value(ItemOf[j][1], First(j)) = <<>>
    BY <1>4, <1>9, <2>4, <2>5
  <2>8. JobGoes(j)
    BY <1>3, <2>1, <2>2, <2>6, <2>7, JobOne
  <2> QED
    BY <2>8 DEF j
<1> QED
  BY <1>11, <1>12

\* A list: its size, and its polyvars.
LEMMA ListGoes ==
  ASSUME Compatible, NEW d \in OfType("LIST")
  PROVE  JobGoes(<<"list", d>>)
<1> DEFINE j == <<"list", d>>
           n == Len(d.v)
           b == OnWire(n, W64)
           ss == [i \in DOMAIN d.v |-> <<<<"var", d.v[i]>>>>]
<1>1. j[1] = "list" /\ j[2] = d
  OBVIOUS
<1>2. d \in Vals /\ d.type = "LIST" /\ WellTyped(d)
  BY InsideIs DEF OfType
<1>3. n \in Nat /\ DOMAIN d.v = 1..n /\ Fits(n, W64) /\ \A i \in 1..n : d.v[i] \in Polyvars
  BY <1>2 DEF WellTyped, Inside, Polyvar, Polyvars
<1>4. j \in Jobs /\ CallsOf[j] = Out[d] /\ GivesOf[j] = Leaves[d] /\ ItemOf[j] = <<"list", W64>>
  BY JobKinds
<1>5. ItemOf[j][1] = "list" /\ ItemOf[j][2] = W64
  BY <1>4
<1>6. b \in Seq(Byte) /\ Len(b) = W64 /\ W64 \in Nat \ {0}
  <2>1. n \in Nat /\ W64 \in Nat /\ W64 # 0
    BY <1>3, ValuesFacts
  <2> HIDE DEF n
  <2> QED
    BY <2>1, OnWireIs
<1>7. AsInt(b) = n
  BY <1>3, ValuesFacts, AsIntIs DEF Compatible
<1>8. \A i \in 1..n : LET k == <<"var", d.v[i]>> IN
        /\ k \in Jobs /\ CallsOf[k] = VarOf(Out, d.v[i]) /\ GivesOf[k] = Leaves[d.v[i]] /\ ItemOf[k] = <<"var", 1>>
  BY <1>3, JobKinds
<1>9. ss \in Seq(Seq(Jobs)) /\ DOMAIN ss = 1..n /\ \A i \in 1..n : ss[i] = <<<<"var", d.v[i]>>>>
  BY <1>3, <1>8
<1>10. CallsOf[j] = <<b>> \o FlattenSeq([i \in 1..n |-> VarOf(Out, d.v[i])])
  BY <1>2, <1>3, <1>4, OutIs DEF OutBody
<1>11. GivesOf[j] = FlattenSeq([i \in 1..n |-> Leaves[d.v[i]]])
  BY <1>2, <1>3, <1>4, LeavesIs DEF LeavesBody
<1> HIDE DEF j
<1>12. First(j) = b
  BY <1>1 DEF First
<1>13. After(j) = FlattenSeq(ss)
  BY <1>1 DEF After
<1> HIDE DEF b, ss, n
<1>14. After(j) \in Seq(Jobs)
  BY <1>9, <1>13, FlattenType
<1>15. Joins(CallsOf, After(j)) = FlattenSeq([i \in 1..n |-> VarOf(Out, d.v[i])])
  <2>1. Joins(CallsOf, FlattenSeq(ss)) = FlattenSeq(EachJoined(CallsOf, ss))
    BY <1>9, JobJoins
  <2>2. \A i \in 1..n : Joins(CallsOf, ss[i]) = VarOf(Out, d.v[i])
    <3>1. \A k \in Jobs : Joins(CallsOf, <<k>>) = CallsOf[k]
      BY JobJoins
    <3> QED
      BY <1>8, <1>9, <3>1
  <2>3. EachJoined(CallsOf, ss) = [i \in 1..n |-> VarOf(Out, d.v[i])]
    BY <1>9, <2>2 DEF EachJoined, EachMapped
  <2> QED
    BY <1>13, <2>1, <2>3
<1>16. Joins(GivesOf, After(j)) = FlattenSeq([i \in 1..n |-> Leaves[d.v[i]]])
  <2>1. Joins(GivesOf, FlattenSeq(ss)) = FlattenSeq(EachJoined(GivesOf, ss))
    BY <1>9, JobJoins
  <2>2. \A i \in 1..n : Joins(GivesOf, ss[i]) = Leaves[d.v[i]]
    <3>1. \A k \in Jobs : Joins(GivesOf, <<k>>) = GivesOf[k]
      BY JobJoins
    <3> QED
      BY <1>8, <1>9, <3>1
  <2>3. EachJoined(GivesOf, ss) = [i \in 1..n |-> Leaves[d.v[i]]]
    BY <1>9, <2>2 DEF EachJoined, EachMapped
  <2> QED
    BY <1>13, <2>1, <2>3
<1>17. Mapped(ItemOf, After(j)) = FlattenSeq([i \in 1..n |-> <<<<"var", 1>>>>])
  <2>1. Mapped(ItemOf, FlattenSeq(ss)) = FlattenSeq(EachMapped(ItemOf, ss))
    BY <1>9, MappedFlatten
  <2>2. \A i \in 1..n : Mapped(ItemOf, ss[i]) = <<<<"var", 1>>>>
    <3>1. \A k : Mapped(ItemOf, <<k>>) = <<ItemOf[k]>>
      BY MappedFew
    <3> QED
      BY <1>8, <1>9, <3>1
  <2>3. EachMapped(ItemOf, ss) = [i \in 1..n |-> <<<<"var", 1>>>>]
    BY <1>9, <2>2 DEF EachJoined, EachMapped
  <2> QED
    BY <1>13, <2>1, <2>3
<1>18. More("list", b) = FlattenSeq([i \in 1..n |-> <<<<"var", 1>>>>])
  BY <1>7 DEF More, Repeat
<1>19. Value("list", b) = <<>>
  BY DEF Value
<1>20. <<>> \o GivesOf[j] = GivesOf[j]
  <2>1. GivesOf[j] \in Seq(Leaf)
    BY <1>4, JobTypes
  <2> QED
    BY <2>1, ConcatEmptySeq
<1>21. JobGoes(j)
  BY EmptySeq, <1>5, <1>6, <1>10, <1>11, <1>12, <1>14, <1>15, <1>16, <1>17, <1>18, <1>19, <1>20 DEF JobGoes
<1> QED
  BY <1>21 DEF j

\* A map: its size, and its keys and polyvars.
LEMMA MapGoes ==
  ASSUME Compatible, NEW d \in OfType("MAP")
  PROVE  JobGoes(<<"map", d>>)
<1> DEFINE j == <<"map", d>>
           n == Len(d.v)
           b == OnWire(n, W64)
           key(i) == <<"str", d.v[i].key>>
           val(i) == <<"var", d.v[i].val>>
           ss == [i \in DOMAIN d.v |-> <<key(i), val(i)>>]
<1>1. j[1] = "map" /\ j[2] = d
  OBVIOUS
<1>2. d \in Vals /\ d.type = "MAP" /\ WellTyped(d)
  BY InsideIs DEF OfType
<1>3. /\ n \in Nat /\ DOMAIN d.v = 1..n /\ Fits(n, W64)
      /\ \A i \in 1..n : d.v[i].key \in Strings /\ d.v[i].val \in Polyvars
  BY <1>2 DEF WellTyped, Inside, Polyvar, Polyvars
<1>4. j \in Jobs /\ CallsOf[j] = Out[d] /\ GivesOf[j] = Leaves[d] /\ ItemOf[j] = <<"map", W64>>
  BY JobKinds
<1>5. ItemOf[j][1] = "map" /\ ItemOf[j][2] = W64
  BY <1>4
<1>6. b \in Seq(Byte) /\ Len(b) = W64 /\ W64 \in Nat \ {0}
  <2>1. n \in Nat /\ W64 \in Nat /\ W64 # 0
    BY <1>3, ValuesFacts
  <2> HIDE DEF n
  <2> QED
    BY <2>1, OnWireIs
<1>7. AsInt(b) = n
  BY <1>3, ValuesFacts, AsIntIs DEF Compatible
<1>8. \A i \in 1..n :
        /\ key(i) \in Jobs /\ CallsOf[key(i)] = StringOut(d.v[i].key)
        /\ GivesOf[key(i)] = <<d.v[i].key>> /\ ItemOf[key(i)] = <<"str", 1>>
  <2>1. ASSUME NEW i \in 1..n
        PROVE  /\ key(i) \in Jobs /\ CallsOf[key(i)] = StringOut(d.v[i].key)
               /\ GivesOf[key(i)] = <<d.v[i].key>> /\ ItemOf[key(i)] = <<"str", 1>>
    <3> DEFINE s == d.v[i].key
    <3>1. s \in Strings
      BY <1>3
    <3> HIDE DEF s
    <3>2. LET k == <<"str", s>> IN
          k \in Jobs /\ CallsOf[k] = StringOut(s) /\ GivesOf[k] = <<s>> /\ ItemOf[k] = <<"str", 1>>
      BY <3>1, JobKinds
    <3> QED
      BY <3>2 DEF s
  <2> QED
    BY <2>1
<1>9. \A i \in 1..n :
        /\ val(i) \in Jobs /\ CallsOf[val(i)] = VarOf(Out, d.v[i].val)
        /\ GivesOf[val(i)] = Leaves[d.v[i].val] /\ ItemOf[val(i)] = <<"var", 1>>
  <2>1. ASSUME NEW i \in 1..n
        PROVE  /\ val(i) \in Jobs /\ CallsOf[val(i)] = VarOf(Out, d.v[i].val)
               /\ GivesOf[val(i)] = Leaves[d.v[i].val] /\ ItemOf[val(i)] = <<"var", 1>>
    <3> DEFINE y == d.v[i].val
    <3>1. y \in Polyvars
      BY <1>3
    <3> HIDE DEF y
    <3>2. LET k == <<"var", y>> IN
          k \in Jobs /\ CallsOf[k] = VarOf(Out, y) /\ GivesOf[k] = Leaves[y] /\ ItemOf[k] = <<"var", 1>>
      BY <3>1, JobKinds
    <3> QED
      BY <3>2 DEF y
  <2> QED
    BY <2>1
<1>10. CallsOf[j] = <<b>> \o FlattenSeq([i \in 1..n |-> StringOut(d.v[i].key) \o VarOf(Out, d.v[i].val)])
  BY <1>2, <1>3, <1>4, OutIs DEF OutBody
<1>11. GivesOf[j] = FlattenSeq([i \in 1..n |-> <<d.v[i].key>> \o Leaves[d.v[i].val]])
  BY <1>2, <1>3, <1>4, LeavesIs DEF LeavesBody
<1> HIDE DEF j
<1>12. First(j) = b
  BY <1>1 DEF First
<1>13. After(j) = FlattenSeq(ss)
  BY <1>1 DEF After
<1> HIDE DEF b, key, val
<1>14. ss \in Seq(Seq(Jobs)) /\ DOMAIN ss = 1..n /\ \A i \in 1..n : ss[i] = <<key(i), val(i)>>
  BY <1>3, <1>8, <1>9
<1> HIDE DEF ss, n
<1>15. After(j) \in Seq(Jobs)
  BY <1>13, <1>14, FlattenType
<1>16. \A i \in 1..n : <<key(i)>> \in Seq(Jobs) /\ <<val(i)>> \in Seq(Jobs) /\ ss[i] = <<key(i)>> \o <<val(i)>>
  BY <1>8, <1>9, <1>14, Pairs
<1>17. Joins(CallsOf, After(j)) = FlattenSeq([i \in 1..n |-> StringOut(d.v[i].key) \o VarOf(Out, d.v[i].val)])
  <2>1. Joins(CallsOf, FlattenSeq(ss)) = FlattenSeq(EachJoined(CallsOf, ss))
    BY <1>14, JobJoins
  <2>2. ASSUME NEW i \in 1..n PROVE Joins(CallsOf, ss[i]) = StringOut(d.v[i].key) \o VarOf(Out, d.v[i].val)
    <3>1. Joins(CallsOf, <<key(i)>>) = CallsOf[key(i)]
      BY <1>8, JobJoins
    <3>2. Joins(CallsOf, <<val(i)>>) = CallsOf[val(i)]
      BY <1>9, JobJoins
    <3>3. Joins(CallsOf, <<key(i)>> \o <<val(i)>>) = Joins(CallsOf, <<key(i)>>) \o Joins(CallsOf, <<val(i)>>)
      BY <1>16, JobJoins
    <3> QED
      BY <1>8, <1>9, <1>16, <3>1, <3>2, <3>3
  <2>3. EachJoined(CallsOf, ss)
          = [i \in 1..n |-> StringOut(d.v[i].key) \o VarOf(Out, d.v[i].val)]
    BY <1>14, <2>2 DEF EachJoined, EachMapped
  <2> QED
    BY <1>13, <2>1, <2>3
<1>18. Joins(GivesOf, After(j)) = FlattenSeq([i \in 1..n |-> <<d.v[i].key>> \o Leaves[d.v[i].val]])
  <2>1. Joins(GivesOf, FlattenSeq(ss)) = FlattenSeq(EachJoined(GivesOf, ss))
    BY <1>14, JobJoins
  <2>2. ASSUME NEW i \in 1..n PROVE Joins(GivesOf, ss[i]) = <<d.v[i].key>> \o Leaves[d.v[i].val]
    <3>1. Joins(GivesOf, <<key(i)>>) = GivesOf[key(i)]
      BY <1>8, JobJoins
    <3>2. Joins(GivesOf, <<val(i)>>) = GivesOf[val(i)]
      BY <1>9, JobJoins
    <3>3. Joins(GivesOf, <<key(i)>> \o <<val(i)>>) = Joins(GivesOf, <<key(i)>>) \o Joins(GivesOf, <<val(i)>>)
      BY <1>16, JobJoins
    <3> QED
      BY <1>8, <1>9, <1>16, <3>1, <3>2, <3>3
  <2>3. EachJoined(GivesOf, ss) = [i \in 1..n |-> <<d.v[i].key>> \o Leaves[d.v[i].val]]
    BY <1>14, <2>2 DEF EachJoined, EachMapped
  <2> QED
    BY <1>13, <2>1, <2>3
<1>19. Mapped(ItemOf, After(j)) = FlattenSeq([i \in 1..n |-> Entry])
  <2>1. Mapped(ItemOf, FlattenSeq(ss)) = FlattenSeq(EachMapped(ItemOf, ss))
    BY <1>14, MappedFlatten
  <2>2. ASSUME NEW i \in 1..n PROVE Mapped(ItemOf, ss[i]) = Entry
    <3>1. Mapped(ItemOf, <<key(i)>>) = <<<<"str", 1>>>> /\ Mapped(ItemOf, <<val(i)>>) = <<<<"var", 1>>>>
      <4>1. Mapped(ItemOf, <<key(i)>>) = <<ItemOf[key(i)]>> /\ Mapped(ItemOf, <<val(i)>>) = <<ItemOf[val(i)]>>
        BY MappedFew
      <4> QED
        BY <1>8, <1>9, <4>1
    <3>2. Mapped(ItemOf, <<key(i)>> \o <<val(i)>>) = Mapped(ItemOf, <<key(i)>>) \o Mapped(ItemOf, <<val(i)>>)
      <4> DEFINE s == <<key(i)>>
                 t == <<val(i)>>
      <4>1. s \in Seq(Jobs) /\ t \in Seq(Jobs)
        BY <1>16
      <4> HIDE DEF s, t
      <4>2. Mapped(ItemOf, s \o t) = Mapped(ItemOf, s) \o Mapped(ItemOf, t)
        BY <4>1, MappedConcat
      <4> QED
        BY <4>2 DEF s, t
    <3>3. Entry = <<<<"str", 1>>, <<"var", 1>>>>
      BY DEF Entry, Compatible
    <3> QED
      BY <1>16, <3>1, <3>2, <3>3, Pairs
  <2>3. EachMapped(ItemOf, ss) = [i \in 1..n |-> Entry]
    BY <1>14, <2>2 DEF EachJoined, EachMapped
  <2> QED
    BY <1>13, <2>1, <2>3
<1>20. More("map", b) = FlattenSeq([i \in 1..n |-> Entry])
  BY <1>7 DEF More, Repeat
<1>21. Value("map", b) = <<>>
  BY DEF Value
<1>22. <<>> \o GivesOf[j] = GivesOf[j]
  <2>1. GivesOf[j] \in Seq(Leaf)
    BY <1>4, JobTypes
  <2> QED
    BY <2>1, ConcatEmptySeq
<1>23. JobGoes(j)
  BY EmptySeq, <1>5, <1>6, <1>10, <1>11, <1>12, <1>15, <1>17, <1>18, <1>19, <1>20, <1>21, <1>22 DEF JobGoes
<1> QED
  BY <1>23 DEF j

\* Every job: the reader's next read is of its first message, and what it knows then is
\* what remains of it.
LEMMA EachGoes == ASSUME Compatible PROVE \A j \in Jobs : JobGoes(j)
BY JobCases, PlainGoes, StringGoes, LengthGoes, BinaryGoes, VarGoes, ListGoes, MapGoes

-----------------------------------------------------------------------------
\* One value of the script is one job.
AllJobs == [i \in DOMAIN Script |-> JobOf(Script[i])]

\* The jobs of the values after the n-th.
Later(n) == SubSeq(AllJobs, n + 1, Len(Script))

\* Each value of the script is a job to begin with.
LEMMA ScriptJobs ==
  ASSUME Compatible
  PROVE  /\ AllJobs \in Seq(Jobs) /\ Len(AllJobs) = Len(Script) /\ Len(Script) \in Nat
         /\ DOMAIN Script = 1..Len(Script)
         /\ \A i \in 1..Len(Script) :
              /\ AllJobs[i] \in Jobs /\ CallsOf[AllJobs[i]] = Out[Script[i]]
              /\ GivesOf[AllJobs[i]] = Leaves[Script[i]] /\ In(Script[i]) = <<ItemOf[AllJobs[i]]>>
<1>1. Script \in Seq(Vals) /\ \A i \in DOMAIN Script : Script[i].type # "VOID"
  BY ValuesAssumption DEF ValuesAssumption
<1>2. Len(Script) \in Nat /\ DOMAIN Script = 1..Len(Script) /\ \A i \in 1..Len(Script) : Script[i] \in Vals
  BY <1>1, LenProperties
<1>3. \A i \in 1..Len(Script) : AllJobs[i] = JobOf(Script[i])
  BY <1>2 DEF AllJobs
<1>4. ASSUME NEW i \in 1..Len(Script)
      PROVE  /\ AllJobs[i] \in Jobs /\ CallsOf[AllJobs[i]] = Out[Script[i]]
             /\ GivesOf[AllJobs[i]] = Leaves[Script[i]] /\ In(Script[i]) = <<ItemOf[AllJobs[i]]>>
  <2> DEFINE x == Script[i]
  <2>1. x \in Vals /\ x.type # "VOID" /\ AllJobs[i] = JobOf(x)
    BY <1>1, <1>2, <1>3
  <2> HIDE DEF x
  <2>2. JobOf(x) \in Jobs /\ CallsOf[JobOf(x)] = Out[x] /\ GivesOf[JobOf(x)] = Leaves[x] /\ In(x) = <<ItemOf[JobOf(x)]>>
    BY <2>1, JobOfValue
  <2> QED
    BY <2>1, <2>2 DEF x
<1>5. AllJobs = [i \in 1..Len(Script) |-> AllJobs[i]]
  BY <1>2 DEF AllJobs
<1>6. AllJobs \in Seq(Jobs) /\ Len(AllJobs) = Len(Script)
  <2>1. \A i \in 1..Len(Script) : AllJobs[i] \in Jobs
    BY <1>4
  <2> QED
    BY <1>2, <1>5, <2>1
<1> QED
  BY <1>2, <1>4, <1>6

\* The script is written and read from its first job to its last.
LEMMA WholeScript ==
  ASSUME Compatible
  PROVE  /\ Calls = Joins(CallsOf, AllJobs) /\ Calls \in Seq(Seq(Byte))
         /\ Expected = Joins(GivesOf, AllJobs) /\ Expected \in Seq(Leaf)
<1>1. Mapped(CallsOf, AllJobs) = [i \in 1..Len(Script) |-> Out[Script[i]]]
  <2>1. DOMAIN AllJobs = 1..Len(Script)
    BY ScriptJobs DEF AllJobs
  <2> QED
    BY <2>1, ScriptJobs DEF Mapped
<1>2. Mapped(GivesOf, AllJobs) = [i \in DOMAIN Script |-> Leaves[Script[i]]]
  <2>1. DOMAIN AllJobs = 1..Len(Script)
    BY ScriptJobs DEF AllJobs
  <2> QED
    BY <2>1, ScriptJobs DEF Mapped
<1>3. Calls = Joins(CallsOf, AllJobs)
  BY <1>1 DEF Calls, MessagesOf, Joins
<1>4. Expected = Joins(GivesOf, AllJobs)
  BY <1>2 DEF Expected, Joins
<1>5. AllJobs \in Seq(Jobs)
  BY ScriptJobs
<1> QED
  BY <1>3, <1>4, <1>5, JobJoins

\* A value that is read is followed by the next one of the script, or the reader is at
\* its end.
LEMMA NextValue ==
  ASSUME Compatible, NEW n \in 0..Len(Script)
  PROVE  /\ Later(n) \in Seq(Jobs)
         /\ \E U \in Seq(Jobs) :
              /\ Reads(n + 1) = Mapped(ItemOf, U)
              /\ U = <<>> <=> n = Len(Script)
              /\ Later(n + 1) \in Seq(Jobs) /\ U \o Later(n + 1) = Later(n)
<1>1. Len(Script) \in Nat /\ AllJobs \in Seq(Jobs) /\ Len(AllJobs) = Len(Script) /\ n \in Nat
  BY ScriptJobs
<1> DEFINE m == Len(Script)
           a == AllJobs
<1>2. m \in Nat /\ a \in Seq(Jobs) /\ Len(a) = m /\ n \in 0..m /\ n \in Nat
  BY <1>1
<1>3. \A i \in 1..m : a[i] \in Jobs
  BY <1>2, ElementOfSeq
<1>4. \A k \in 0..m : Later(k) \in Seq(Jobs) /\ Len(Later(k)) = m - k /\ \A i \in 1..(m - k) : Later(k)[i] = a[k + i]
  <2>1. Later(n) = SubSeq(a, n + 1, m)
    BY DEF Later
  <2>2. ASSUME NEW k \in 0..m
        PROVE  /\ Later(k) \in Seq(Jobs) /\ Len(Later(k)) = m - k
               /\ \A i \in 1..(m - k) : Later(k)[i] = a[k + i]
    <3>1. Later(k) = SubSeq(a, k + 1, m)
      BY DEF Later
    <3> HIDE DEF m, a
    <3>2. \A i \in (k + 1)..m : a[i] \in Jobs
      BY <1>2, <1>3
    <3>3. k + 1 \in Int /\ m \in Int /\ k + 1 <= m + 1
      BY <1>2
    <3>4. /\ SubSeq(a, k + 1, m) \in Seq(Jobs)
          /\ Len(SubSeq(a, k + 1, m)) = m - k
          /\ \A i \in 1..(m - k) : SubSeq(a, k + 1, m)[i] = a[k + i]
      BY <1>2, <3>2, <3>3, SubSeqProperties
    <3> QED
      BY <3>1, <3>4
  <2> QED
    BY <2>2
<1>5. Later(n) \in Seq(Jobs)
  BY <1>2, <1>4
<1>6. CASE n = m
  <2>1. Reads(n + 1) = <<>>
    BY <1>2, <1>6 DEF Reads
  <2>2. Later(n) = <<>>
    BY <1>2, <1>4, <1>6, EmptySeq
  <2>3. Later(n + 1) = <<>>
    <3>1. ~(n + 2 <= m) /\ n + 1 + 1 = n + 2
      BY <1>2, <1>6
    <3>2. Later(n + 1) = SubSeq(a, n + 2, m)
      BY <1>2 DEF Later
    <3> HIDE DEF m, a
    <3> QED
      BY <1>2, <3>1, <3>2, SubSeqEmpty
  <2>4. Mapped(ItemOf, <<>>) = <<>> /\ <<>> \in Seq(Jobs) /\ <<>> \o <<>> = <<>>
    BY MappedFew, EmptySeq, ConcatEmptySeq
  <2> QED
    BY <1>5, <1>6, <2>1, <2>2, <2>3, <2>4
<1>7. CASE n # m
  <2> DEFINE U == <<a[n + 1]>>
  <2>1. n + 1 \in 1..m /\ n + 1 \in 0..m /\ n + 1 \in DOMAIN Script /\ n + 1 <= m
    BY <1>2, <1>7, ScriptJobs
  <2>2. Reads(n + 1) = In(Script[n + 1])
    BY <2>1 DEF Reads
  <2>3. In(Script[n + 1]) = <<ItemOf[a[n + 1]]>> /\ a[n + 1] \in Jobs
    BY <2>1, ScriptJobs
  <2>4. U \in Seq(Jobs) /\ Len(U) = 1 /\ U[1] = a[n + 1]
    BY <2>3
  <2>5. Mapped(ItemOf, U) = <<ItemOf[a[n + 1]]>>
    BY MappedFew
  <2>6. U # <<>>
    BY Pairs
  <2> HIDE DEF U, m, a
  <2>7. Later(n + 1) \in Seq(Jobs) /\ Len(Later(n + 1)) = m - (n + 1)
        /\ \A i \in 1..(m - (n + 1)) : Later(n + 1)[i] = a[n + 1 + i]
    BY <1>4, <2>1
  <2>8. Later(n) \in Seq(Jobs) /\ Len(Later(n)) = m - n /\ \A i \in 1..(m - n) : Later(n)[i] = a[n + i]
    BY <1>2, <1>4
  <2> DEFINE r == Later(n)
             s == Later(n + 1)
  <2> HIDE DEF r, s
  <2>9. U \o s \in Seq(Jobs) /\ Len(U \o s) = Len(U) + Len(s)
        /\ \A i \in 1..(Len(U) + Len(s)) : (U \o s)[i] = IF i <= Len(U) THEN U[i] ELSE s[i - Len(U)]
    <3>1. s \in Seq(Jobs)
      BY <2>7 DEF s
    <3> QED
      BY <2>4, <3>1, ConcatProperties
  <2>10. Len(s) = m - (n + 1) /\ \A i \in 1..(m - (n + 1)) : s[i] = a[n + 1 + i]
    BY <2>7 DEF s
  <2>11. r \in Seq(Jobs) /\ Len(r) = m - n /\ \A i \in 1..(m - n) : r[i] = a[n + i]
    BY <2>8 DEF r
  <2>12. Len(U \o s) = m - n
    BY <1>2, <2>4, <2>9, <2>10
  <2>13. ASSUME NEW i \in 1..(m - n) PROVE (U \o s)[i] = r[i]
    <3>1. i \in 1..(Len(U) + Len(s))
      BY <1>2, <2>4, <2>10
    <3>2. CASE i = 1
      BY <2>4, <2>9, <2>11, <3>1, <3>2
    <3>3. CASE i # 1
      <4>1. i - 1 \in 1..(m - (n + 1)) /\ n + 1 + (i - 1) = n + i /\ ~(i <= 1)
        BY <1>2, <3>3
      <4> QED
        BY <2>4, <2>9, <2>10, <2>11, <3>1, <4>1
    <3> QED
      BY <3>2, <3>3
  <2>14. U \o s = r
    BY <2>9, <2>11, <2>12, <2>13, SameElements
  <2>15. U \o Later(n + 1) = Later(n)
    BY <2>14 DEF r, s
  <2>16. U = <<>> <=> n = m
    BY <1>7, <2>6
  <2>17. Reads(n + 1) = Mapped(ItemOf, U)
    BY <2>2, <2>3, <2>5
  <2> QED
    BY <2>4, <2>7, <2>8, <2>15, <2>16, <2>17 DEF m
<1> QED
  BY <1>6, <1>7

\* Facts of concatenation, with a name for each.
Grouped(s, t, u) == (s \o t) \o u = s \o (t \o u)
Regrouped(s, t, u, v) == s \o ((t \o u) \o v) = (s \o t) \o (u \o v)
LengthsAdd(S, s, t) == s \o t \in Seq(S) /\ Len(s \o t) = Len(s) + Len(t)

\* Concatenation is associative, and the lengths add up.
LEMMA Grouping ==
  ASSUME NEW S
  PROVE  /\ \A s, t \in Seq(S) : LengthsAdd(S, s, t)
         /\ \A s, t, u \in Seq(S) : Grouped(s, t, u)
         /\ \A s, t, u, v \in Seq(S) : Regrouped(s, t, u, v)
<1>1. ASSUME NEW s \in Seq(S), NEW t \in Seq(S) PROVE LengthsAdd(S, s, t)
  BY ConcatProperties DEF LengthsAdd
<1>2. ASSUME NEW s \in Seq(S), NEW t \in Seq(S), NEW u \in Seq(S) PROVE Grouped(s, t, u)
  BY ConcatAssociative DEF Grouped
<1>3. ASSUME NEW s \in Seq(S), NEW t \in Seq(S), NEW u \in Seq(S), NEW v \in Seq(S)
      PROVE  Regrouped(s, t, u, v)
  <2> DEFINE w == u \o v
  <2>1. w \in Seq(S)
    BY <1>1 DEF LengthsAdd
  <2>2. Grouped(t, u, v)
    BY <1>2
  <2> HIDE DEF w
  <2>3. Grouped(s, t, w)
    BY <1>2, <2>1
  <2>4. (t \o u) \o v = t \o w
    BY <2>2 DEF Grouped, w
  <2>5. (s \o t) \o w = s \o (t \o w)
    BY <2>3 DEF Grouped
  <2>6. s \o ((t \o u) \o v) = (s \o t) \o w
    BY <2>4, <2>5
  <2> QED
    BY <2>6 DEF Regrouped, w
<1> QED
  BY <1>1, <1>2, <1>3

\* The same of the sequences of messages, of leaves and of jobs.
LEMMA Groups ==
  /\ \A s, t \in Seq(Seq(Byte)) : LengthsAdd(Seq(Byte), s, t)
  /\ \A s, t, u \in Seq(Seq(Byte)) : Grouped(s, t, u)
  /\ \A s, t, u, v \in Seq(Seq(Byte)) : Regrouped(s, t, u, v)
  /\ \A s, t \in Seq(Leaf) : LengthsAdd(Leaf, s, t)
  /\ \A s, t, u, v \in Seq(Leaf) : Regrouped(s, t, u, v)
  /\ \A s, t \in Seq(Jobs) : LengthsAdd(Jobs, s, t)
  /\ \A s, t, u \in Seq(Jobs) : Grouped(s, t, u)
<1>1. /\ \A s, t \in Seq(Seq(Byte)) : LengthsAdd(Seq(Byte), s, t)
      /\ \A s, t, u \in Seq(Seq(Byte)) : Grouped(s, t, u)
      /\ \A s, t, u, v \in Seq(Seq(Byte)) : Regrouped(s, t, u, v)
  BY Grouping
<1>2. /\ \A s, t \in Seq(Leaf) : LengthsAdd(Leaf, s, t)
      /\ \A s, t, u, v \in Seq(Leaf) : Regrouped(s, t, u, v)
  BY Grouping
<1>3. /\ \A s, t \in Seq(Jobs) : LengthsAdd(Jobs, s, t)
      /\ \A s, t, u \in Seq(Jobs) : Grouped(s, t, u)
  BY Grouping
<1> QED
  BY <1>1, <1>2, <1>3

\* What the reader knows of two sequences of jobs is what it knows of each.
LEMMA ItemsApart == \A s, t \in Seq(Jobs) : Mapped(ItemOf, s \o t) = Mapped(ItemOf, s) \o Mapped(ItemOf, t)
<1>1. ASSUME NEW s \in Seq(Jobs), NEW t \in Seq(Jobs)
      PROVE  Mapped(ItemOf, s \o t) = Mapped(ItemOf, s) \o Mapped(ItemOf, t) /\ s \o t \in Seq(Jobs)
  <2>1. s \o t \in Seq(Jobs)
    BY Groups DEF LengthsAdd
  <2> QED
    BY <2>1, MappedConcat
<1> QED
  BY <1>1

\* A message in its place among the calls is that part of the stream which its bounds say.
LEMMA MessageAt ==
  ASSUME NEW D \in Seq(Seq(Byte)), NEW b \in Seq(Byte), NEW E \in Seq(Seq(Byte)),
         Calls = (D \o <<b>>) \o E
  PROVE  /\ Len(D) \in 0..Messages /\ Len(D) < Messages
         /\ Length(Len(D)) = Len(b) /\ Bound[Len(D) + 1] \in Nat
         /\ SubSeq(Bytes, Bound[Len(D) + 1] - Len(b) + 1, Bound[Len(D) + 1]) = b
<1> DEFINE T == Seq(Byte)
           B == <<b>>
           F == D \o B
           n == Len(D)
<1>1. B \in Seq(T) /\ Len(B) = 1
  OBVIOUS
<1>2. D \in Seq(T) /\ E \in Seq(T) /\ n \in Nat /\ Len(E) \in Nat
  BY LenProperties
<1>3. Messages = Len(Calls) /\ Bound = [k \in 0..Len(Calls) |-> Len(FlattenSeq(SubSeq(Calls, 1, k)))]
  BY ValuesAssumption DEF ValuesAssumption
<1>4. FlattenSeq(B) = b
  BY FlattenOne
<1> HIDE DEF B
<1>5. F \in Seq(T) /\ Len(F) = n + 1
  <2>1. LengthsAdd(T, D, B)
    BY <1>1, <1>2, Groups
  <2> QED
    BY <1>1, <2>1 DEF LengthsAdd
<1>6. FlattenSeq(F) = FlattenSeq(D) \o b
  <2>1. FlattenSeq(D \o B) = FlattenSeq(D) \o FlattenSeq(B)
    BY <1>1, <1>2, FlattenConcat
  <2> QED
    BY <1>4, <2>1
<1>7. Calls = F \o E
  BY DEF B
<1>8. Calls = D \o (B \o E) /\ B \o E \in Seq(T)
  <2>1. Grouped(D, B, E) /\ LengthsAdd(T, B, E)
    BY <1>1, <1>2, Groups
  <2> QED
    BY <1>7, <2>1 DEF Grouped, LengthsAdd
<1> HIDE DEF F
<1>9. Len(Calls) = n + 1 + Len(E)
  <2> HIDE DEF T
  <2>1. Len(F \o E) = Len(F) + Len(E)
    BY <1>2, <1>5, ConcatProperties
  <2> QED
    BY <1>5, <1>7, <2>1
<1>10. n \in 0..Len(Calls) /\ n + 1 \in 0..Len(Calls) /\ n < Len(Calls)
  BY <1>2, <1>9
<1>11. Bound[n] = Len(FlattenSeq(D))
  <2> HIDE DEF T
  <2>1. SubSeq(D \o (B \o E), 1, n) = SubSeq(D, 1, n)
    <3>1. n \in 0..Len(D)
      BY <1>2
    <3> QED
      BY <1>2, <1>8, <3>1, SameStart
  <2>2. SubSeq(D, 1, n) = D
    BY <1>2, SubSeqFull
  <2> QED
    BY <1>3, <1>8, <1>10, <2>1, <2>2
<1>12. Bound[n + 1] = Len(FlattenSeq(F))
  <2> HIDE DEF T
  <2>1. SubSeq(F \o E, 1, n + 1) = SubSeq(F, 1, n + 1)
    <3>1. n + 1 \in 0..Len(F)
      BY <1>2, <1>5
    <3> QED
      BY <1>2, <1>5, <3>1, SameStart
  <2>2. SubSeq(F, 1, n + 1) = F
    BY <1>5, SubSeqFull
  <2> QED
    BY <1>3, <1>7, <1>10, <2>1, <2>2
<1> DEFINE d == FlattenSeq(D)
           e == FlattenSeq(E)
<1>13. d \in Seq(Byte) /\ e \in Seq(Byte)
  BY <1>2, FlattenType
<1>14. Bytes = (d \o b) \o e
  <2>1. FlattenSeq(F \o E) = FlattenSeq(F) \o FlattenSeq(E)
    BY <1>2, <1>5, FlattenConcat
  <2> QED
    BY <1>6, <1>7, <2>1 DEF Bytes
<1> HIDE DEF d, e
<1>15. /\ Len(d) \in Nat /\ Len(b) \in Nat
       /\ d \o b \in Seq(Byte) /\ Len(d \o b) = Len(d) + Len(b)
       /\ \A i \in 1..(Len(d) + Len(b)) : (d \o b)[i] = IF i <= Len(d) THEN d[i] ELSE b[i - Len(d)]
  BY <1>13, ConcatProperties, LenProperties
<1>16. Bound[n] = Len(d) /\ Bound[n + 1] = Len(d) + Len(b)
  BY <1>6, <1>11, <1>12, <1>15 DEF d
<1> DEFINE c == d \o b
           s == c \o e
<1>17. c \in Seq(Byte) /\ Len(c) = Len(d) + Len(b)
       /\ \A i \in 1..(Len(d) + Len(b)) : c[i] = IF i <= Len(d) THEN d[i] ELSE b[i - Len(d)]
  BY <1>15
<1> HIDE DEF c
<1>18. s \in Seq(Byte) /\ Len(s) = Len(c) + Len(e) /\ Len(e) \in Nat /\ \A i \in 1..Len(c) : s[i] = c[i]
  BY <1>13, <1>17, ConcatProperties, LenProperties
<1> HIDE DEF s
<1>19. SubSeq(s, Len(d) + 1, Len(d) + Len(b)) = b
  <2> DEFINE q == SubSeq(s, Len(d) + 1, Len(d) + Len(b))
  <2>1. \A i \in (Len(d) + 1)..(Len(d) + Len(b)) : s[i] \in Byte
    <3>1. \A i \in (Len(d) + 1)..(Len(d) + Len(b)) : i \in 1..Len(s)
      BY <1>15, <1>17, <1>18
    <3> QED
      BY <1>18, <3>1, ElementOfSeq
  <2>2. Len(d) + 1 \in Int /\ Len(d) + Len(b) \in Int /\ Len(d) + 1 <= Len(d) + Len(b) + 1
    BY <1>15
  <2>3. /\ q \in Seq(Byte) /\ Len(q) = (Len(d) + Len(b)) - (Len(d) + 1) + 1
        /\ \A i \in 1..((Len(d) + Len(b)) - (Len(d) + 1) + 1) : q[i] = s[Len(d) + 1 + i - 1]
    BY <1>18, <2>1, <2>2, SubSeqProperties
  <2> HIDE DEF q
  <2>4. Len(q) = Len(b)
    BY <1>15, <2>3
  <2>5. ASSUME NEW i \in 1..Len(b) PROVE q[i] = b[i]
    <3>1. /\ i \in 1..((Len(d) + Len(b)) - (Len(d) + 1) + 1)
          /\ Len(d) + 1 + i - 1 = Len(d) + i /\ Len(d) + i \in 1..(Len(d) + Len(b))
          /\ ~(Len(d) + i <= Len(d)) /\ (Len(d) + i) - Len(d) = i
      BY <1>15
    <3>2. q[i] = s[Len(d) + i]
      BY <2>3, <3>1
    <3>3. s[Len(d) + i] = c[Len(d) + i]
      BY <1>17, <1>18, <3>1
    <3> QED
      BY <1>17, <3>1, <3>2, <3>3
  <2>6. q = b
    BY <2>3, <2>4, <2>5, SameElements
  <2> QED
    BY <2>6 DEF q
<1>20. s = Bytes
  BY <1>14 DEF s, c
<1>21. Bound[n + 1] - Len(b) + 1 = Len(d) + 1
  BY <1>15, <1>16
<1>22. Length(n) = Len(b)
  BY <1>15, <1>16 DEF Length
<1>23. n \in 0..Messages /\ n < Messages /\ Bound[n + 1] \in Nat
  BY <1>3, <1>10, <1>15, <1>16
<1> QED
  BY <1>16, <1>19, <1>20, <1>21, <1>22, <1>23

-----------------------------------------------------------------------------
\* The next job is taken: its first message is the next of the stream, and what it gives,
\* with what remains of it, is what it was to give.
LEMMA TakeJob ==
  ASSUME Compatible, NEW U \in Seq(Jobs), U # <<>>, NEW R \in Seq(Jobs), NEW D \in Seq(Seq(Byte)),
         NEW G \in Seq(Leaf), Calls = D \o Joins(CallsOf, U \o R), Expected = G \o Joins(GivesOf, U \o R)
  PROVE  \E j \in Jobs, V \in Seq(Jobs) :
           /\ Head(Mapped(ItemOf, U)) = ItemOf[j] /\ JobGoes(j)
           /\ Calls = (D \o <<First(j)>>) \o Joins(CallsOf, V \o R)
           /\ G \o Value(ItemOf[j][1], First(j)) \in Seq(Leaf)
           /\ Expected = (G \o Value(ItemOf[j][1], First(j))) \o Joins(GivesOf, V \o R)
           /\ More(ItemOf[j][1], First(j)) \o Tail(Mapped(ItemOf, U)) = Mapped(ItemOf, V)
<1> DEFINE j == Head(U)
           t == Tail(U)
           a == After(j)
           V == a \o t
           x == First(j)
           y == Value(ItemOf[j][1], First(j))
<1>1. j \in Jobs /\ t \in Seq(Jobs) /\ U = <<j>> \o t
  BY HeadTailProperties, HeadIsFirst
<1> HIDE DEF j, t
<1>2. JobGoes(j)
  BY <1>1, EachGoes
<1>3. x \in Seq(Byte) /\ a \in Seq(Jobs) /\ y \in Seq(Leaf) /\ <<j>> \in Seq(Jobs)
  BY <1>1, <1>2 DEF JobGoes
<1>4. CallsOf[j] = <<x>> \o Joins(CallsOf, a) /\ GivesOf[j] = y \o Joins(GivesOf, a)
  BY <1>2 DEF JobGoes
<1>5. More(ItemOf[j][1], First(j)) = Mapped(ItemOf, a)
  BY <1>2 DEF JobGoes
<1> DEFINE Y == <<x>>
<1>6. Y \in Seq(Seq(Byte))
  BY <1>3
<1> HIDE DEF x, y, a, Y
<1> DEFINE k == <<j>>
<1> HIDE DEF k
<1>7. t \o R \in Seq(Jobs) /\ V \in Seq(Jobs) /\ V \o R = a \o (t \o R) /\ U \o R = k \o (t \o R)
  <2>1. k \in Seq(Jobs) /\ U = k \o t
    BY <1>1, <1>3 DEF k
  <2>2. LengthsAdd(Jobs, t, R) /\ LengthsAdd(Jobs, a, t) /\ Grouped(a, t, R) /\ Grouped(k, t, R)
    BY <1>1, <1>3, <2>1, Groups
  <2> QED
    BY <2>1, <2>2 DEF Grouped, LengthsAdd
<1> DEFINE r == t \o R
<1>8. /\ Joins(CallsOf, U \o R) = CallsOf[j] \o Joins(CallsOf, r)
      /\ Joins(CallsOf, V \o R) = Joins(CallsOf, a) \o Joins(CallsOf, r)
      /\ Joins(GivesOf, U \o R) = GivesOf[j] \o Joins(GivesOf, r)
      /\ Joins(GivesOf, V \o R) = Joins(GivesOf, a) \o Joins(GivesOf, r)
  <2>1. Joins(CallsOf, k) = CallsOf[j] /\ Joins(GivesOf, k) = GivesOf[j] /\ k \in Seq(Jobs)
    BY <1>1, <1>3, JobJoins DEF k
  <2>2. r \in Seq(Jobs) /\ V \o R = a \o r /\ U \o R = k \o r
    BY <1>7
  <2> HIDE DEF r, V
  <2>3. /\ Joins(CallsOf, k \o r) = Joins(CallsOf, k) \o Joins(CallsOf, r)
        /\ Joins(GivesOf, k \o r) = Joins(GivesOf, k) \o Joins(GivesOf, r)
    BY <2>1, <2>2, JobJoins
  <2>4. /\ Joins(CallsOf, a \o r) = Joins(CallsOf, a) \o Joins(CallsOf, r)
        /\ Joins(GivesOf, a \o r) = Joins(GivesOf, a) \o Joins(GivesOf, r)
    BY <1>3, <2>2, JobJoins
  <2> QED
    BY <2>1, <2>2, <2>3, <2>4
<1>9. /\ Joins(CallsOf, a) \in Seq(Seq(Byte)) /\ Joins(CallsOf, r) \in Seq(Seq(Byte))
      /\ Joins(GivesOf, a) \in Seq(Leaf) /\ Joins(GivesOf, r) \in Seq(Leaf)
  BY <1>3, <1>7, JobJoins
<1> DEFINE ca == Joins(CallsOf, a)
           cr == Joins(CallsOf, r)
           ga == Joins(GivesOf, a)
           gr == Joins(GivesOf, r)
<1> HIDE DEF V, r, ca, cr, ga, gr
<1>10. Calls = (D \o Y) \o Joins(CallsOf, V \o R)
  <2> DEFINE T == Seq(Byte)
  <2>1. D \in Seq(T) /\ Y \in Seq(T) /\ ca \in Seq(T) /\ cr \in Seq(T)
    BY <1>6, <1>9 DEF ca, cr
  <2>2. Calls = D \o ((Y \o ca) \o cr)
    BY <1>4, <1>8 DEF ca, cr, Y
  <2>3. Joins(CallsOf, V \o R) = ca \o cr
    BY <1>8 DEF ca, cr
  <2>4. Regrouped(D, Y, ca, cr)
    BY <2>1, Groups
  <2> QED
    BY <2>2, <2>3, <2>4 DEF Regrouped
<1>11. G \o y \in Seq(Leaf)
  BY <1>3, ConcatProperties
<1>12. Expected = (G \o y) \o Joins(GivesOf, V \o R)
  <2>1. ga \in Seq(Leaf) /\ gr \in Seq(Leaf)
    BY <1>9 DEF ga, gr
  <2>2. Expected = G \o ((y \o ga) \o gr)
    BY <1>4, <1>8 DEF ga, gr
  <2>3. Joins(GivesOf, V \o R) = ga \o gr
    BY <1>8 DEF ga, gr
  <2>4. Regrouped(G, y, ga, gr)
    BY <1>3, <2>1, Groups
  <2> QED
    BY <2>2, <2>3, <2>4 DEF Regrouped
<1>13. Mapped(ItemOf, U) = <<ItemOf[j]>> \o Mapped(ItemOf, t)
  <2> DEFINE s == <<j>>
  <2>1. s \in Seq(Jobs)
    BY <1>3
  <2>2. Mapped(ItemOf, s) = <<ItemOf[j]>>
    BY MappedFew
  <2>3. U = s \o t
    BY <1>1
  <2> HIDE DEF s
  <2>4. Mapped(ItemOf, s \o t) = Mapped(ItemOf, s) \o Mapped(ItemOf, t)
    BY <1>1, <2>1, MappedConcat
  <2> QED
    BY <2>2, <2>3, <2>4
<1>14. Head(Mapped(ItemOf, U)) = ItemOf[j] /\ Tail(Mapped(ItemOf, U)) = Mapped(ItemOf, t)
  <2> DEFINE I == {ItemOf[q] : q \in Jobs}
             s == <<ItemOf[j]>>
             w == Mapped(ItemOf, t)
  <2>1. \A q \in Jobs : ItemOf[q] \in I
    OBVIOUS
  <2>2. s \in Seq(I) /\ Len(s) = 1 /\ s[1] = ItemOf[j]
    BY <1>1, <2>1
  <2> HIDE DEF I
  <2>3. w \in Seq(I)
    BY <1>1, <2>1, MappedType
  <2>4. Mapped(ItemOf, U) = s \o w
    BY <1>13
  <2> HIDE DEF s, w
  <2>5. Head(s \o w) = s[1] /\ Tail(s \o w) = w
    <3>1. /\ s \o w \in Seq(I) /\ Len(s \o w) = 1 + Len(w) /\ Len(w) \in Nat
          /\ \A i \in 1..(1 + Len(w)) : (s \o w)[i] = IF i <= 1 THEN s[i] ELSE w[i - 1]
      <4>1. /\ s \o w \in Seq(I) /\ Len(s \o w) = Len(s) + Len(w)
            /\ \A i \in 1..(Len(s) + Len(w)) : (s \o w)[i] = IF i <= Len(s) THEN s[i] ELSE w[i - Len(s)]
        BY <2>2, <2>3, ConcatProperties
      <4> QED
        BY <2>2, <2>3, <4>1, LenProperties
    <3> DEFINE u == s \o w
    <3>2. u \in Seq(I) /\ Len(u) = 1 + Len(w) /\ u[1] = s[1] /\ \A i \in 1..Len(w) : u[i + 1] = w[i]
      <4>1. 1 \in 1..(1 + Len(w)) /\ 1 <= 1
        BY <3>1
      <4>2. ASSUME NEW i \in 1..Len(w) PROVE u[i + 1] = w[i]
        <5>1. i + 1 \in 1..(1 + Len(w)) /\ ~(i + 1 <= 1) /\ (i + 1) - 1 = i
          BY <3>1
        <5> QED
          BY <3>1, <5>1
      <4> QED
        BY <3>1, <4>1, <4>2
    <3> HIDE DEF u
    <3>3. /\ u # <<>> /\ Head(u) = u[1] /\ Tail(u) \in Seq(I) /\ Len(Tail(u)) = Len(u) - 1
          /\ \A i \in 1..(Len(u) - 1) : Tail(u)[i] = u[i + 1]
      <4>1. u # <<>>
        BY <3>1, <3>2, EmptySeq
      <4> QED
        BY <3>2, <4>1, HeadTailProperties
    <3>4. Len(u) - 1 = Len(w)
      BY <3>1, <3>2
    <3>5. Tail(u) = w
      BY <2>3, <3>2, <3>3, <3>4, SameElements
    <3> QED
      BY <3>2, <3>3, <3>5 DEF u
  <2> QED
    BY <2>2, <2>4, <2>5 DEF w
<1>15. More(ItemOf[j][1], First(j)) \o Tail(Mapped(ItemOf, U)) = Mapped(ItemOf, V)
  <2>1. a \in Seq(Jobs) /\ t \in Seq(Jobs)
    BY <1>1, <1>3
  <2>2. Mapped(ItemOf, a \o t) = Mapped(ItemOf, a) \o Mapped(ItemOf, t)
    BY <2>1, ItemsApart
  <2> QED
    BY <1>5, <1>14, <2>2 DEF V
<1> QED
  BY <1>1, <1>2, <1>7, <1>10, <1>11, <1>12, <1>14, <1>15 DEF x, y, Y

-----------------------------------------------------------------------------
\* What errno and error say of a read: one that may be tried again has taken nothing.
ErrorState ==
  /\ errno \in {"0", "EAGAIN"} /\ error \in {"none", "0", "EAGAIN"}
  /\ pc # "failed" => errno = "0"
  /\ pc = "first" => got = Bound[read]
  /\ pc = "more" => Reader # "waitall"
  /\ pc = "failed" /\ error = "EAGAIN" => got = Bound[read]

\* What the reader has to read are jobs U of the value it is at, and those of the values
\* after it: after the messages that were read come theirs, and after what was shown what
\* they give.
AtJobs(U) ==
  /\ U \in Seq(Jobs) /\ todo = Mapped(ItemOf, U)
  /\ U = <<>> <=> nth = Len(Script) + 1
  /\ Later(nth) \in Seq(Jobs)
  /\ \E D \in Seq(Seq(Byte)) : Len(D) = read /\ Calls = D \o Joins(CallsOf, U \o Later(nth))
  /\ Expected = shown \o Joins(GivesOf, U \o Later(nth))
DecoderState ==
  /\ nth \in 1..(Len(Script) + 1)
  /\ shown \in Seq(Leaf)
  /\ \E U : AtJobs(U)

ValuesIInv == IInv /\ ErrorState /\ DecoderState

\* An exact reader is one of those that are compatible.
LEMMA CompatibleIsExact == Compatible => ExactReader
BY DEF Compatible, ExactReader

\* At first, all the script is to be read.
LEMMA ValuesInitIInv == ASSUME Compatible PROVE ValuesInit => ValuesIInv
<1> SUFFICES ASSUME ValuesInit PROVE ValuesIInv
  OBVIOUS
<1>1. IInv
  BY InitEstablishes DEF ValuesInit
<1>2. /\ Bound[0] = 0 /\ pc = "idle" /\ errno = "0" /\ error = "none"
      /\ nth = 1 /\ todo = Reads(1) /\ shown = <<>> /\ read = 0
  BY StreamAssumption DEF ValuesInit, Init
<1>3. ErrorState
  BY <1>2 DEF ErrorState
<1>4. Len(Script) \in Nat /\ AllJobs \in Seq(Jobs) /\ Len(AllJobs) = Len(Script)
  BY ScriptJobs
<1>5. 0 \in 0..Len(Script) /\ 1 \in 1..(Len(Script) + 1) /\ 0 + 1 = 1
  BY <1>4
<1>6. PICK U \in Seq(Jobs) :
        /\ Reads(0 + 1) = Mapped(ItemOf, U)
        /\ U = <<>> <=> 0 = Len(Script)
        /\ Later(0 + 1) \in Seq(Jobs) /\ U \o Later(0 + 1) = Later(0)
  BY <1>5, NextValue
<1>7. Later(0) = AllJobs
  <2>1. Later(0) = SubSeq(AllJobs, 1, Len(AllJobs))
    BY <1>4 DEF Later
  <2> QED
    BY <1>4, <2>1, SubSeqFull
<1>8. Calls = <<>> \o Joins(CallsOf, U \o Later(1)) /\ <<>> \in Seq(Seq(Byte)) /\ Len(<<>>) = 0
  <2>1. Calls \in Seq(Seq(Byte)) /\ Calls = Joins(CallsOf, U \o Later(1))
    BY <1>5, <1>6, <1>7, WholeScript
  <2> QED
    BY <2>1, ConcatEmptySeq, EmptySeq
<1>9. Expected = <<>> \o Joins(GivesOf, U \o Later(1)) /\ <<>> \in Seq(Leaf)
  <2>1. Expected \in Seq(Leaf) /\ Expected = Joins(GivesOf, U \o Later(1))
    BY <1>5, <1>6, <1>7, WholeScript
  <2> QED
    BY <2>1, ConcatEmptySeq, EmptySeq
<1>10. AtJobs(U)
  <2>1. U = <<>> <=> nth = Len(Script) + 1
    BY <1>2, <1>4, <1>6
  <2> QED
    BY <1>2, <1>5, <1>6, <1>8, <1>9, <2>1 DEF AtJobs
<1>11. DecoderState
  BY <1>2, <1>5, <1>9, <1>10 DEF DecoderState
<1> QED
  BY <1>1, <1>3, <1>11 DEF ValuesIInv

\* What does not read a message leaves the decoder where it is.
LEMMA DecoderSame == DecoderState /\ UNCHANGED <<decoder, read>> => DecoderState'
<1> SUFFICES ASSUME DecoderState, UNCHANGED <<decoder, read>> PROVE DecoderState'
  OBVIOUS
<1>1. PICK U : AtJobs(U)
  BY DEF DecoderState
<1>2. nth' = nth /\ todo' = todo /\ shown' = shown /\ read' = read
  BY DEF decoder
<1>3. AtJobs(U)'
  BY <1>1, <1>2 DEF AtJobs
<1> QED
  BY <1>2, <1>3 DEF DecoderState

\* What the other side and the network do.
LEMMA OthersKeep ==
  ValuesIInv /\ (Write \/ WriteFails \/ Close \/ Deliver) /\ UNCHANGED <<decoder, errors>> => ValuesIInv'
<1> SUFFICES ASSUME ValuesIInv, Write \/ WriteFails \/ Close \/ Deliver, UNCHANGED <<decoder, errors>>
             PROVE  ValuesIInv'
  OBVIOUS
<1>1. IInv'
  BY WriteStep, WriteFailsStep, CloseStep, DeliverStep DEF ValuesIInv
<1>2. pc' = pc /\ read' = read /\ got' = got /\ errno' = errno /\ error' = error
  BY DEF Write, WriteFails, Close, Deliver, reader, errors
<1>3. ErrorState'
  BY <1>2 DEF ValuesIInv, ErrorState
<1>4. DecoderState'
  BY <1>2, DecoderSame DEF ValuesIInv
<1> QED
  BY <1>1, <1>3, <1>4 DEF ValuesIInv

\* What the next message is, when there is one to read.
LEMMA NextJob ==
  ASSUME Compatible, DecoderState, NEW U, AtJobs(U), U # <<>>
  PROVE  \E j \in Jobs, V \in Seq(Jobs), E \in Seq(Seq(Byte)) :
           /\ Head(todo) = ItemOf[j] /\ ItemOf[j][2] = Length(read)
           /\ read \in 0..Messages /\ read < Messages /\ Len(E) = read + 1
           /\ Bound[read + 1] \in Nat
           /\ SubSeq(Bytes, Bound[read + 1] - ItemOf[j][2] + 1, Bound[read + 1]) = First(j)
           /\ More(ItemOf[j][1], First(j)) \o Tail(todo) = Mapped(ItemOf, V)
           /\ Calls = E \o Joins(CallsOf, V \o Later(nth))
           /\ shown \o Value(ItemOf[j][1], First(j)) \in Seq(Leaf)
           /\ Expected = (shown \o Value(ItemOf[j][1], First(j))) \o Joins(GivesOf, V \o Later(nth))
<1>1. /\ U \in Seq(Jobs) /\ todo = Mapped(ItemOf, U) /\ Later(nth) \in Seq(Jobs)
      /\ shown \in Seq(Leaf) /\ Expected = shown \o Joins(GivesOf, U \o Later(nth))
  BY DEF AtJobs, DecoderState
<1>2. PICK D \in Seq(Seq(Byte)) : Len(D) = read /\ Calls = D \o Joins(CallsOf, U \o Later(nth))
  BY DEF AtJobs
<1>3. PICK j \in Jobs, V \in Seq(Jobs) :
        /\ Head(Mapped(ItemOf, U)) = ItemOf[j] /\ JobGoes(j)
        /\ Calls = (D \o <<First(j)>>) \o Joins(CallsOf, V \o Later(nth))
        /\ shown \o Value(ItemOf[j][1], First(j)) \in Seq(Leaf)
        /\ Expected = (shown \o Value(ItemOf[j][1], First(j))) \o Joins(GivesOf, V \o Later(nth))
        /\ More(ItemOf[j][1], First(j)) \o Tail(Mapped(ItemOf, U)) = Mapped(ItemOf, V)
  BY <1>1, <1>2, TakeJob
<1>4. First(j) \in Seq(Byte) /\ Len(First(j)) = ItemOf[j][2]
  BY <1>3 DEF JobGoes
<1>5. Joins(CallsOf, V \o Later(nth)) \in Seq(Seq(Byte))
  <2>1. LengthsAdd(Jobs, V, Later(nth))
    BY <1>1, Groups
  <2> QED
    BY <2>1, JobJoins DEF LengthsAdd
<1> DEFINE b == First(j)
           R == Joins(CallsOf, V \o Later(nth))
           E == D \o <<b>>
<1>6. /\ read \in 0..Messages /\ read < Messages
      /\ Length(read) = Len(b) /\ Bound[read + 1] \in Nat
      /\ SubSeq(Bytes, Bound[read + 1] - Len(b) + 1, Bound[read + 1]) = b
  <2>1. b \in Seq(Byte) /\ R \in Seq(Seq(Byte)) /\ Calls = (D \o <<b>>) \o R
    BY <1>3, <1>4, <1>5
  <2> HIDE DEF b, R
  <2>2. /\ Len(D) \in 0..Messages /\ Len(D) < Messages
        /\ Length(Len(D)) = Len(b) /\ Bound[Len(D) + 1] \in Nat
        /\ SubSeq(Bytes, Bound[Len(D) + 1] - Len(b) + 1, Bound[Len(D) + 1]) = b
    BY <2>1, MessageAt
  <2> QED
    BY <1>2, <2>2
<1>7. E \in Seq(Seq(Byte)) /\ Len(E) = read + 1
  <2> DEFINE s == <<b>>
  <2>1. s \in Seq(Seq(Byte)) /\ Len(s) = 1
    BY <1>4
  <2> HIDE DEF s
  <2>2. LengthsAdd(Seq(Byte), D, s)
    BY <2>1, Groups
  <2> QED
    BY <1>2, <2>1, <2>2 DEF LengthsAdd, s
<1> QED
  BY <1>1, <1>3, <1>4, <1>6, <1>7

\* There is a message to read as long as there is a value to read.
LEMMA JobsLeft ==
  ASSUME Compatible, DecoderState, NEW U, AtJobs(U), read < Messages
  PROVE  U # <<>>
<1> SUFFICES ASSUME U = <<>> PROVE FALSE
  OBVIOUS
<1>1. Len(Script) \in Nat /\ nth = Len(Script) + 1
  BY ScriptJobs DEF AtJobs
<1>2. Later(nth) = <<>>
  <2>1. nth + 1 \in Int /\ ~(nth + 1 <= Len(Script))
    BY <1>1
  <2> QED
    BY <1>1, <2>1, SubSeqEmpty DEF Later
<1>3. PICK D \in Seq(Seq(Byte)) : Len(D) = read /\ Calls = D \o Joins(CallsOf, <<>> \o <<>>)
  BY <1>2 DEF AtJobs
<1>4. <<>> \o <<>> = <<>>
  BY EmptySeq, ConcatEmptySeq
<1>5. Calls = D
  <2>1. Calls = D \o <<>>
    BY <1>3, <1>4, JobJoins
  <2> QED
    BY <2>1, ConcatEmptySeq
<1>6. Messages = read
  BY <1>3, <1>5, ValuesAssumption DEF ValuesAssumption
<1>7. Messages \in Nat
  BY StreamAssumption
<1> QED
  BY <1>6, <1>7

\* A method asks for the bytes of its next message.
LEMMA AskKeeps == ASSUME Compatible PROVE ValuesIInv /\ Ask => ValuesIInv'
<1> SUFFICES ASSUME ValuesIInv, Ask PROVE ValuesIInv'
  OBVIOUS
<1>1. IInv /\ ErrorState /\ DecoderState
  BY DEF ValuesIInv
<1>2. PICK U : AtJobs(U)
  BY <1>1 DEF DecoderState
<1>3. U # <<>>
  <2>1. Len(Script) \in Nat /\ nth # Len(Script) + 1
    BY <1>1, ScriptJobs DEF Ask, DecoderState
  <2> QED
    BY <1>2, <2>1 DEF AtJobs
<1>4. Head(todo)[2] = Length(read) /\ read < Messages
  <2>1. PICK j \in Jobs : Head(todo) = ItemOf[j] /\ ItemOf[j][2] = Length(read) /\ read < Messages
    BY <1>1, <1>2, <1>3, NextJob
  <2> QED
    BY <2>1
<1>5. Call
  BY <1>4 DEF Ask, Call
<1>6. IInv'
  BY <1>1, <1>5, CallStep
<1>7. /\ pc = "idle" /\ pc' = "first" /\ read' = read /\ got' = got /\ errno' = errno /\ error' = error
      /\ UNCHANGED decoder
  BY DEF Ask, errors
<1>8. got = Bound[read]
  BY <1>1, <1>7 DEF IInv, ReaderState
<1>9. ErrorState'
  BY <1>1, <1>7, <1>8 DEF ErrorState
<1>10. DecoderState'
  BY <1>1, <1>7, DecoderSame
<1> QED
  BY <1>6, <1>9, <1>10 DEF ValuesIInv

\* The bytes of a message are what was written, and are decoded to it.
LEMMA DecodeKeeps ==
  ASSUME Compatible, DecoderState, read < Messages, read' = read + 1, got' = Bound[read'], Decode
  PROVE  DecoderState'
<1>1. PICK U : AtJobs(U)
  BY DEF DecoderState
<1>2. U # <<>>
  BY <1>1, JobsLeft
<1>3. PICK j \in Jobs, V \in Seq(Jobs), E \in Seq(Seq(Byte)) :
        /\ Head(todo) = ItemOf[j] /\ ItemOf[j][2] = Length(read)
        /\ read \in 0..Messages /\ read < Messages /\ Len(E) = read + 1
        /\ Bound[read + 1] \in Nat
        /\ SubSeq(Bytes, Bound[read + 1] - ItemOf[j][2] + 1, Bound[read + 1]) = First(j)
        /\ More(ItemOf[j][1], First(j)) \o Tail(todo) = Mapped(ItemOf, V)
        /\ Calls = E \o Joins(CallsOf, V \o Later(nth))
        /\ shown \o Value(ItemOf[j][1], First(j)) \in Seq(Leaf)
        /\ Expected = (shown \o Value(ItemOf[j][1], First(j))) \o Joins(GivesOf, V \o Later(nth))
  BY <1>1, <1>2, NextJob
<1>4. /\ shown' = shown \o Value(ItemOf[j][1], First(j))
      /\ IF Mapped(ItemOf, V) = <<>> THEN nth' = nth + 1 /\ todo' = Reads(nth + 1)
                                     ELSE todo' = Mapped(ItemOf, V) /\ UNCHANGED nth
  BY <1>3 DEF Decode
<1>5. /\ nth \in 1..(Len(Script) + 1) /\ Len(Script) \in Nat /\ nth # Len(Script) + 1
      /\ Later(nth) \in Seq(Jobs)
  BY <1>1, <1>2, ScriptJobs DEF DecoderState, AtJobs
<1>6. Mapped(ItemOf, V) = <<>> <=> V = <<>>
  <2>1. Len(Mapped(ItemOf, V)) = Len(V)
    BY MappedAt
  <2>2. V = <<>> => Mapped(ItemOf, V) = <<>>
    BY MappedFew
  <2>3. Mapped(ItemOf, V) = <<>> => Len(V) = 0
    BY <2>1
  <2> QED
    BY <2>2, <2>3, EmptySeq
<1>7. shown' \in Seq(Leaf)
  BY <1>3, <1>4
<1>8. CASE V = <<>>
  <2>1. nth' = nth + 1 /\ todo' = Reads(nth + 1)
    BY <1>4, <1>6, <1>8
  <2>2. nth \in 0..Len(Script) /\ nth + 1 \in 1..(Len(Script) + 1)
    BY <1>5
  <2>3. PICK W \in Seq(Jobs) :
          /\ Reads(nth + 1) = Mapped(ItemOf, W)
          /\ W = <<>> <=> nth = Len(Script)
          /\ Later(nth + 1) \in Seq(Jobs) /\ W \o Later(nth + 1) = Later(nth)
    BY <2>2, NextValue
  <2>4. V \o Later(nth) = W \o Later(nth + 1)
    BY <1>5, <1>8, <2>3, ConcatEmptySeq
  <2>5. Calls = E \o Joins(CallsOf, W \o Later(nth + 1))
    BY <1>3, <2>4
  <2>6. Expected = shown' \o Joins(GivesOf, W \o Later(nth + 1))
    BY <1>3, <1>4, <2>4
  <2>7. W = <<>> <=> nth + 1 = Len(Script) + 1
    BY <1>5, <2>3
  <2>8. AtJobs(W)'
    BY <1>3, <2>1, <2>3, <2>5, <2>6, <2>7 DEF AtJobs
  <2> QED
    BY <1>7, <2>1, <2>2, <2>8 DEF DecoderState
<1>9. CASE V # <<>>
  <2>1. nth' = nth /\ todo' = Mapped(ItemOf, V)
    BY <1>4, <1>6, <1>9
  <2>2. AtJobs(V)'
    BY <1>3, <1>4, <1>5, <1>9, <2>1 DEF AtJobs
  <2> QED
    BY <1>5, <1>7, <2>1, <2>2 DEF DecoderState
<1> QED
  BY <1>8, <1>9

\* A read that returns its message, a part of it, or too little.
LEMMA ReadValueKeeps == ASSUME Compatible PROVE ValuesIInv /\ ReadValue => ValuesIInv'
<1> SUFFICES ASSUME ValuesIInv, ReadValue PROVE ValuesIInv'
  OBVIOUS
<1>1. IInv /\ ErrorState /\ DecoderState /\ Read
  BY DEF ValuesIInv, ReadValue
<1>2. IInv'
  BY <1>1, ReadStep, CompatibleIsExact
<1>3. /\ pc \in {"first", "more"} /\ read \in 0..Messages /\ read < Messages
      /\ errno = "0" /\ errno' = "0"
      /\ error' = IF pc' = "failed" THEN "0" ELSE error
  BY <1>1 DEF IInv, TypeOK, ReaderState, ErrorState, Read, ReadValue
<1>4. \/ pc' = "failed" /\ read' = read
      \/ pc' = "idle" /\ read' = read + 1
      \/ pc' = "more" /\ read' = read /\ Reader # "waitall"
  <2>1. PICK n \in 1..(arrived - got) :
          IF ~Enough(n) \/ ~Complete(n)
          THEN pc' = "failed" /\ UNCHANGED read
          ELSE IF rest' = 0 \/ Reader = "waitall"
               THEN pc' = "idle" /\ read' = read + 1
               ELSE pc' = "more" /\ UNCHANGED read
    BY <1>1 DEF Read
  <2> QED
    BY <2>1
<1>5. ErrorState'
  BY <1>1, <1>3, <1>4 DEF ErrorState
<1>6. DecoderState'
  <2>1. CASE read' = read
    <3>1. UNCHANGED decoder
      BY <2>1 DEF ReadValue
    <3> QED
      BY <1>1, <2>1, <3>1, DecoderSame
  <2>2. CASE read' # read
    <3>1. pc' = "idle" /\ read' = read + 1 /\ Decode
      BY <1>4, <2>2 DEF ReadValue
    <3>2. got' = Bound[read']
      BY <1>2, <3>1 DEF IInv, ReaderState
    <3> QED
      BY <1>1, <1>3, <3>1, <3>2, DecodeKeeps
  <2> QED
    BY <2>1, <2>2
<1> QED
  BY <1>2, <1>5, <1>6 DEF ValuesIInv

\* A read that fails: it is a timeout only if nothing of its message was taken.
LEMMA ReadValueFailsKeeps == ASSUME Compatible PROVE ValuesIInv /\ ReadValueFails => ValuesIInv'
<1> SUFFICES ASSUME ValuesIInv, ReadValueFails PROVE ValuesIInv'
  OBVIOUS
<1>1. IInv /\ ErrorState /\ DecoderState /\ ReadFails
  BY DEF ValuesIInv, ReadValueFails
<1>2. IInv'
  BY <1>1, ReadFailsStep
<1>3. /\ pc \in {"first", "more"} /\ errno = "0" /\ Interrupted
      /\ pc' = "failed" /\ read' = read /\ got' = got /\ UNCHANGED decoder
      /\ errno' = (IF closed /\ arrived = sent THEN "0" ELSE "EAGAIN") /\ error' = errno'
  BY <1>1 DEF ErrorState, ReadFails, ReadValueFails
<1>4. error' = "EAGAIN" => got = Bound[read]
  <2>1. SUFFICES ASSUME error' = "EAGAIN" PROVE got = Bound[read]
    OBVIOUS
  <2>2. TimeoutSet
    BY <1>3, <2>1 DEF Interrupted
  <2>3. pc = "first"
    BY <1>1, <1>3, <2>2 DEF Compatible, ErrorState
  <2> QED
    BY <1>1, <2>3 DEF ErrorState
<1>5. ErrorState'
  BY <1>3, <1>4 DEF ErrorState
<1>6. DecoderState'
  BY <1>1, <1>3, DecoderSame
<1> QED
  BY <1>2, <1>5, <1>6 DEF ValuesIInv

\* A method that is called again starts at its message, as the first time.
LEMMA RetryKeeps == ValuesIInv /\ Retry => ValuesIInv'
<1> SUFFICES ASSUME ValuesIInv, Retry PROVE ValuesIInv'
  OBVIOUS
<1>1. IInv /\ ErrorState /\ DecoderState
  BY DEF ValuesIInv
<1>2. /\ pc = "failed" /\ error = "EAGAIN" /\ pc' = "idle" /\ errno' = "0" /\ error' = "none"
      /\ UNCHANGED <<written, sent, closed, arrived, read, rest, got, decoder>>
  BY <1>1 DEF Retry, IsTimeoutError, AfterCatch, ErrorState, sender
<1>3. got = Bound[read]
  BY <1>1, <1>2 DEF ErrorState
<1>4. IInv'
  BY <1>1, <1>2, <1>3 DEF IInv, TypeOK, SenderState, ReaderState
<1>5. ErrorState'
  BY <1>2 DEF ErrorState
<1>6. DecoderState'
  BY <1>1, <1>2, DecoderSame
<1> QED
  BY <1>4, <1>5, <1>6 DEF ValuesIInv

\* What no step changes stays so.
LEMMA ValuesStutter == ValuesIInv /\ UNCHANGED valueVars => ValuesIInv'
<1> SUFFICES ASSUME ValuesIInv, UNCHANGED valueVars PROVE ValuesIInv'
  OBVIOUS
<1>1. UNCHANGED vars /\ UNCHANGED <<decoder, read>> /\ errno' = errno /\ error' = error
  BY DEF valueVars, vars, decoder
<1>2. IInv' /\ DecoderState'
  BY <1>1, StutterStep, DecoderSame DEF ValuesIInv
<1>3. ErrorState'
  BY <1>1 DEF ValuesIInv, ErrorState, vars
<1> QED
  BY <1>2, <1>3 DEF ValuesIInv

\* The inductive invariant of a reader of values.
THEOREM ValuesInductive ==
  ASSUME Compatible
  PROVE  ValuesSpec => []ValuesIInv
<1>1. ValuesInit => ValuesIInv
  BY ValuesInitIInv
<1>2. ValuesIInv /\ [ValuesNext]_valueVars => ValuesIInv'
  BY OthersKeep, AskKeeps, ReadValueKeeps, ReadValueFailsKeeps, RetryKeeps, ValuesStutter DEF ValuesNext
<1> QED
  BY <1>1, <1>2, PTL DEF ValuesSpec

\* The state of the reader is of its type: a read is never of no bytes.
THEOREM ValuesTypeCorrect ==
  ASSUME Compatible
  PROVE  ValuesSpec => []ValuesTypeOK
<1>1. ValuesIInv => ValuesTypeOK
  <2> SUFFICES ASSUME ValuesIInv PROVE ValuesTypeOK
    OBVIOUS
  <2>1. TypeOK /\ nth \in 1..(Len(Script) + 1) /\ errno \in {"0", "EAGAIN"} /\ error \in {"none", "0", "EAGAIN"}
    BY DEF ValuesIInv, IInv, ErrorState, DecoderState
  <2>2. PICK U \in Seq(Jobs) : todo = Mapped(ItemOf, U)
    BY DEF ValuesIInv, DecoderState, AtJobs
  <2>3. ASSUME NEW i \in DOMAIN todo PROVE todo[i][2] \in Nat \ {0}
    <3>1. /\ Len(U) \in Nat /\ DOMAIN U = 1..Len(U)
          /\ \A k \in 1..Len(U) : U[k] \in Jobs /\ Mapped(ItemOf, U)[k] = ItemOf[U[k]]
      BY MappedAt
    <3>2. DOMAIN todo = DOMAIN U
      BY <2>2 DEF Mapped
    <3>3. U[i] \in Jobs /\ todo[i] = ItemOf[U[i]]
      BY <2>2, <3>1, <3>2
    <3>4. JobGoes(U[i])
      BY <3>3, EachGoes
    <3> QED
      BY <3>3, <3>4 DEF JobGoes
  <2> QED
    BY <2>1, <2>3 DEF ValuesTypeOK
<1> QED
  BY <1>1, ValuesInductive, PTL

\* The values read are those that were written, in their order, whatever the lengths, the
\* endianness of the writer, the nesting and the timeouts.
THEOREM ValuesCorrect ==
  ASSUME Compatible
  PROVE  ValuesSpec => []ValuesAgree
<1>1. ValuesIInv => ValuesAgree
  <2> SUFFICES ASSUME ValuesIInv PROVE ValuesAgree
    OBVIOUS
  <2>1. PICK U : AtJobs(U)
    BY DEF ValuesIInv, DecoderState
  <2> DEFINE R == Joins(GivesOf, U \o Later(nth))
  <2>2. R \in Seq(Leaf)
    <3>1. LengthsAdd(Jobs, U, Later(nth))
      BY <2>1, Groups DEF AtJobs
    <3> QED
      BY <3>1, JobJoins DEF LengthsAdd
  <2>3. shown \in Seq(Leaf) /\ Expected = shown \o R
    BY <2>1 DEF ValuesIInv, DecoderState, AtJobs
  <2> HIDE DEF R
  <2>4. IsPrefix(shown, shown \o R)
    BY <2>2, <2>3, PrefixOf
  <2> QED
    BY <2>3, <2>4 DEF ValuesAgree
<1> QED
  BY <1>1, ValuesInductive, PTL

\* A method that fails in the middle of a value has taken nothing of the next message, so
\* that no retry loses the place in the stream.
THEOREM ValuesStayInMessage ==
  ASSUME Compatible
  PROVE  ValuesSpec => []StaysInMessage
<1>1. IInv => StaysInMessage
  BY IInvStays
<1> QED
  BY <1>1, ValuesInductive, PTL DEF ValuesIInv
=============================================================================
