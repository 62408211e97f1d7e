---------------------------- MODULE TunnelProofs ----------------------------
(***************************************************************************)
(* Tunnel for every number of bytes, every size of the buffers and every   *)
(* choice of the sides that read or close: a byte is moved from one place  *)
(* to the next, and the places in their order hold all that a side sent.   *)
(***************************************************************************)
EXTENDS Tunnel, TLAPS, SequenceTheorems

DataOK ==
  /\ inbox \in [Sides -> Seq(Nat)]
  /\ outbox \in [Sides -> Seq(Nat)]
  /\ got \in [Sides -> Seq(Nat)]
  /\ buf \in Seq(Nat)

\* The tunnel writes only what it has read, and returns for a side that closed.
CopyState ==
  /\ pc = "write" => buf # <<>>
  /\ pc = "returned" => closed[turn]

\* What the tunnel holds of the bytes of a side.
Held(d) == IF turn = d THEN buf ELSE <<>>
\* All that is on its way from a side, or has got to the other.
Line(d) == got[d] \o outbox[d] \o Held(d) \o inbox[d]

IInv ==
  /\ TypeOK
  /\ DataOK
  /\ CopyState
  /\ Transparent
  /\ EndIsLast

-----------------------------------------------------------------------------
\* The first of a sequence goes to the end of the one before it.
LEMMA HeadMoves ==
  ASSUME NEW S, NEW s \in Seq(S), NEW t \in Seq(S), t # <<>>
  PROVE  /\ Append(s, Head(t)) \in Seq(S) /\ Tail(t) \in Seq(S)
         /\ Append(s, Head(t)) \o Tail(t) = s \o t
<1>1. /\ Head(t) \in S /\ Tail(t) \in Seq(S) /\ Len(Tail(t)) = Len(t) - 1
      /\ Len(s) \in Nat /\ Len(t) \in Nat
      /\ \A i \in 1..(Len(t) - 1) : Tail(t)[i] = t[i + 1]
      /\ Head(t) = t[1]
  BY HeadTailProperties, LenProperties
<1> DEFINE a == Append(s, Head(t))
           b == Tail(t)
<1>2. /\ a \in Seq(S) /\ Len(a) = Len(s) + 1
      /\ \A i \in 1..Len(s) : a[i] = s[i]
      /\ a[Len(s) + 1] = t[1]
  BY <1>1, AppendProperties
<1> HIDE DEF a
<1>3. /\ a \o b \in Seq(S) /\ Len(a \o b) = Len(a) + Len(b)
      /\ \A i \in 1..Len(a) + Len(b) : (a \o b)[i] = IF i <= Len(a) THEN a[i] ELSE b[i - Len(a)]
  BY <1>1, <1>2, ConcatProperties
<1>4. /\ s \o t \in Seq(S) /\ Len(s \o t) = Len(s) + Len(t)
      /\ \A i \in 1..Len(s) + Len(t) : (s \o t)[i] = IF i <= Len(s) THEN s[i] ELSE t[i - Len(s)]
  BY ConcatProperties
<1> HIDE DEF b
<1>5. Len(b) = Len(t) - 1 /\ \A i \in 1..(Len(t) - 1) : b[i] = t[i + 1]
  BY <1>1 DEF b
<1>6. Len(a \o b) = Len(s \o t)
  BY <1>1, <1>2, <1>3, <1>4, <1>5
<1>7. ASSUME NEW i \in 1..Len(a \o b) PROVE (a \o b)[i] = (s \o t)[i]
  <2>1. i \in 1..Len(a) + Len(b) /\ i \in 1..Len(s) + Len(t) /\ i \in Nat
    BY <1>3, <1>4, <1>6
  <2>2. CASE i <= Len(s)
    <3>1. i <= Len(a) /\ i \in 1..Len(s)
      BY <1>1, <1>2, <2>1, <2>2
    <3> QED
      BY <1>2, <1>3, <1>4, <2>1, <2>2, <3>1
  <2>3. CASE i = Len(s) + 1
    <3>1. i <= Len(a) /\ ~(i <= Len(s)) /\ i - Len(s) = 1
      BY <1>1, <1>2, <2>3
    <3> QED
      BY <1>2, <1>3, <1>4, <2>1, <2>3, <3>1
  <2>4. CASE i > Len(s) + 1
    <3>1. /\ ~(i <= Len(a)) /\ ~(i <= Len(s)) /\ i - Len(a) \in 1..(Len(t) - 1)
          /\ i - Len(a) + 1 = i - Len(s)
      BY <1>1, <1>2, <1>5, <2>1, <2>4
    <3>2. (a \o b)[i] = t[i - Len(a) + 1]
      BY <1>3, <1>5, <2>1, <3>1
    <3> QED
      BY <1>4, <2>1, <3>1, <3>2
  <2> QED
    BY <1>1, <2>1, <2>2, <2>3, <2>4
<1>8. a \o b = s \o t
  BY <1>3, <1>4, <1>6, <1>7, SeqEqual
<1> QED
  BY <1>1, <1>2, <1>8 DEF a, b

\* What is put at the end of the last sequence is at the end of them all.
LEMMA LastGrows ==
  ASSUME NEW S, NEW s \in Seq(S), NEW t \in Seq(S), NEW v \in S
  PROVE  s \o Append(t, v) = Append(s \o t, v)
<1>1. <<v>> \in Seq(S) /\ s \o t \in Seq(S)
  BY ConcatProperties
<1>2. \A u \in Seq(S) : Append(u, v) = u \o <<v>>
  BY AppendIsConcat
<1>3. (s \o t) \o <<v>> = s \o (t \o <<v>>)
  BY <1>1, ConcatAssociative
<1> QED
  BY <1>1, <1>2, <1>3

\* Three sequences of bytes, one after the other.
LEMMA Associative ==
  \A s, t, u \in Seq(Nat) : (s \o t) \o u = s \o (t \o u)
BY ConcatAssociative

\* The numbers to n, and the next.
LEMMA NumbersGrow ==
  ASSUME NEW n \in Nat
  PROVE  /\ [k \in 1..n |-> k] \in Seq(Nat) /\ Len([k \in 1..n |-> k]) = n
         /\ Append([k \in 1..n |-> k], n + 1) = [k \in 1..(n + 1) |-> k]
<1> DEFINE s(m) == [k \in 1..m |-> k]
<1>1. ASSUME NEW m \in Nat
      PROVE  s(m) \in Seq(Nat) /\ Len(s(m)) = m /\ \A k \in 1..m : s(m)[k] = k
  <2>1. s(m) \in [1..m -> Nat]
    OBVIOUS
  <2>2. s(m) \in Seq(Nat)
    BY <2>1, SeqDef
  <2>3. DOMAIN s(m) = 1..m
    OBVIOUS
  <2> HIDE DEF s
  <2>4. Len(s(m)) = m
    BY <2>2, <2>3, LenProperties
  <2> QED
    BY <2>2, <2>4 DEF s
<1> HIDE DEF s
<1>2. /\ Append(s(n), n + 1) \in Seq(Nat) /\ Len(Append(s(n), n + 1)) = n + 1
      /\ \A k \in 1..n : Append(s(n), n + 1)[k] = k
      /\ Append(s(n), n + 1)[n + 1] = n + 1
  BY <1>1, AppendProperties
<1>3. s(n + 1) \in Seq(Nat) /\ Len(s(n + 1)) = n + 1 /\ \A k \in 1..(n + 1) : s(n + 1)[k] = k
  BY <1>1
<1>4. \A k \in 1..(n + 1) : Append(s(n), n + 1)[k] = s(n + 1)[k]
  BY <1>2, <1>3
<1>5. Append(s(n), n + 1) = s(n + 1)
  BY <1>2, <1>3, <1>4, SeqEqual
<1> QED
  BY <1>1, <1>5 DEF s

\* The places that the bytes of a side go through, one by one.
LEMMA LineFacts ==
  ASSUME DataOK, NEW d \in Sides
  PROVE  /\ got[d] \in Seq(Nat) /\ outbox[d] \in Seq(Nat) /\ Held(d) \in Seq(Nat) /\ inbox[d] \in Seq(Nat)
         /\ got[d] \o outbox[d] \in Seq(Nat)
         /\ got[d] \o outbox[d] \o Held(d) \in Seq(Nat)
<1>1. got[d] \in Seq(Nat) /\ outbox[d] \in Seq(Nat) /\ Held(d) \in Seq(Nat) /\ inbox[d] \in Seq(Nat)
  BY EmptySeq DEF DataOK, Held
<1> QED
  BY <1>1, ConcatProperties
-----------------------------------------------------------------------------
\* Nothing is on its way at first.
LEMMA InitIInv == Init => IInv
<1> SUFFICES ASSUME Init PROVE IInv
  OBVIOUS
<1>1. <<>> \in Seq(Nat) /\ Len(<<>>) = 0
  BY EmptySeq
<1>2. TypeOK /\ DataOK
  BY <1>1, TunnelAssumption DEF Init, TypeOK, DataOK, Sides
<1>3. CopyState /\ EndIsLast
  BY DEF Init, CopyState, EndIsLast
<1>4. Transparent
  <2> SUFFICES ASSUME NEW d \in Sides PROVE Line(d) = [k \in 1..sent[d] |-> k]
    BY DEF Transparent, Line, Held
  <2>1. Line(d) = <<>> \o <<>> \o <<>> \o <<>>
    BY DEF Init, Line, Held
  <2>2. Line(d) = <<>>
    BY <1>1, <2>1, ConcatEmptySeq
  <2>3. [k \in 1..0 |-> k] = <<>>
    <3>1. 0 \in Nat
      OBVIOUS
    <3>2. [k \in 1..0 |-> k] \in Seq(Nat) /\ Len([k \in 1..0 |-> k]) = 0
      BY <3>1, NumbersGrow
    <3> QED
      BY <3>2, EmptySeq
  <2> QED
    BY <2>2, <2>3 DEF Init
<1> QED
  BY <1>2, <1>3, <1>4 DEF IInv

\* When nothing is moved, nothing is lost.
LEMMA LineStays ==
  ASSUME IInv, UNCHANGED <<sent, inbox, outbox, got, buf>>, turn' = turn \/ buf = <<>>
  PROVE  DataOK' /\ Transparent'
<1>1. \A d \in Sides : Held(d)' = Held(d)
  BY DEF Held
<1>2. \A d \in Sides : Line(d)' = Line(d)
  BY <1>1 DEF Line
<1>3. Transparent'
  BY <1>2 DEF IInv, Transparent, Line, Held
<1> QED
  BY <1>3 DEF IInv, DataOK

\* A side sends its next byte.
LEMMA SendIInv ==
  ASSUME IInv, NEW d \in Sides, Send(d)
  PROVE  IInv'
<1> USE DEF Send, ends, tunnel
<1>1. /\ sent[d] \in 0..Count /\ sent'[d] = sent[d] + 1 /\ Count \in Nat /\ ~closed[d]
      /\ \A e \in Sides \ {d} : sent'[e] = sent[e] /\ inbox'[e] = inbox[e]
      /\ inbox'[d] = Append(inbox[d], sent[d] + 1)
      /\ UNCHANGED <<closed, outbox, got, pc, ready, turn, buf>>
      /\ sent' \in [Sides -> 0..Count]
  BY TunnelAssumption DEF IInv, TypeOK, DataOK
<1>2. sent[d] \in Nat /\ sent[d] + 1 \in Nat /\ sent'[d] \in Nat
  BY <1>1
<1>3. DataOK'
  <2>1. inbox' = [inbox EXCEPT ![d] = Append(@, sent[d] + 1)]
    BY <1>1
  <2>2. Append(inbox[d], sent[d] + 1) \in Seq(Nat)
    BY <1>2, AppendProperties DEF IInv, DataOK
  <2> QED
    BY <1>1, <2>1, <2>2 DEF IInv, DataOK
<1>4. TypeOK'
  <2>1. Len(inbox[d]) \in Nat /\ Len(inbox'[d]) = Len(inbox[d]) + 1 /\ Len(inbox[d]) < KernelSize
    BY <1>1, <1>2, AppendProperties, LenProperties DEF IInv, DataOK
  <2>2. Len(inbox'[d]) <= KernelSize
    BY <2>1, TunnelAssumption
  <2> QED
    BY <1>1, <2>2 DEF IInv, TypeOK
<1>5. ASSUME NEW e \in Sides PROVE Line(e)' = [k \in 1..sent'[e] |-> k]
  <2>1. Held(e)' = Held(e) /\ Line(e) = [k \in 1..sent[e] |-> k]
    BY <1>1 DEF IInv, Transparent, Line, Held
  <2>2. CASE e = d
    <3>1. Line(d)' = got[d] \o outbox[d] \o Held(d) \o Append(inbox[d], sent[d] + 1)
      BY <1>1, <2>1, <2>2 DEF Line
    <3>2. Line(d)' = Append(Line(d), sent[d] + 1)
      <4> DEFINE before == got[d] \o outbox[d] \o Held(d)
      <4>1. before \in Seq(Nat) /\ inbox[d] \in Seq(Nat)
        BY LineFacts DEF IInv
      <4>2. Line(d)' = before \o Append(inbox[d], sent[d] + 1) /\ Line(d) = before \o inbox[d]
        BY <3>1 DEF Line
      <4> DEFINE n == sent[d] + 1
      <4>3. n \in Nat
        BY <1>2
      <4> HIDE DEF before, n
      <4>4. \A s, t \in Seq(Nat) : \A v \in Nat : s \o Append(t, v) = Append(s \o t, v)
        BY LastGrows
      <4>5. before \o Append(inbox[d], n) = Append(before \o inbox[d], n)
        BY <4>1, <4>3, <4>4
      <4> QED
        BY <4>2, <4>5 DEF n
    <3> QED
      BY <1>1, <1>2, <2>1, <2>2, <3>2, NumbersGrow
  <2>3. CASE e # d
    <3>1. Line(e)' = Line(e) /\ sent'[e] = sent[e]
      BY <1>1, <2>1, <2>3 DEF Line
    <3> QED
      BY <2>1, <3>1
  <2> QED
    BY <2>2, <2>3
<1>6. Transparent'
  BY <1>5 DEF Transparent, Line, Held
<1>7. CopyState' /\ EndIsLast'
  BY <1>1 DEF IInv, TypeOK, CopyState, EndIsLast
<1> QED
  BY <1>3, <1>4, <1>6, <1>7 DEF IInv

\* A side reads the first of what was written for it.
LEMMA ReceiveIInv ==
  ASSUME IInv, NEW d \in Sides, Receive(d)
  PROVE  IInv'
<1> USE DEF Receive, ends, tunnel
<1>1. /\ outbox[d] # <<>>
      /\ \A e \in Sides \ {d} : got'[e] = got[e] /\ outbox'[e] = outbox[e]
      /\ got'[d] = Append(got[d], Head(outbox[d])) /\ outbox'[d] = Tail(outbox[d])
      /\ UNCHANGED <<sent, closed, inbox, pc, ready, turn, buf>>
  BY DEF IInv, DataOK
<1>2. /\ got[d] \in Seq(Nat) /\ outbox[d] \in Seq(Nat)
      /\ got'[d] \in Seq(Nat) /\ outbox'[d] \in Seq(Nat)
      /\ got'[d] \o outbox'[d] = got[d] \o outbox[d]
  <2>1. got[d] \in Seq(Nat) /\ outbox[d] \in Seq(Nat)
    BY LineFacts DEF IInv
  <2>2. \A s, t \in Seq(Nat) : t # <<>> =>
           /\ Append(s, Head(t)) \in Seq(Nat) /\ Tail(t) \in Seq(Nat)
           /\ Append(s, Head(t)) \o Tail(t) = s \o t
    BY HeadMoves
  <2> QED
    BY <1>1, <2>1, <2>2
<1>3. DataOK'
  BY <1>1, <1>2 DEF IInv, DataOK
<1>4. TypeOK'
  <2>1. Len(outbox'[d]) = Len(outbox[d]) - 1 /\ Len(outbox[d]) \in Nat
    BY <1>1, <1>2, HeadTailProperties, LenProperties
  <2>2. Len(outbox'[d]) <= KernelSize
    BY <2>1, TunnelAssumption DEF IInv, TypeOK
  <2> QED
    BY <1>1, <2>2 DEF IInv, TypeOK
<1>5. ASSUME NEW e \in Sides PROVE Line(e)' = Line(e) /\ got'[e] \o outbox'[e] = got[e] \o outbox[e]
  <2>1. Held(e)' = Held(e) /\ got'[e] \o outbox'[e] = got[e] \o outbox[e] /\ inbox'[e] = inbox[e]
    BY <1>1, <1>2 DEF Held
  <2> QED
    BY <2>1 DEF Line
<1>6. Transparent'
  BY <1>1, <1>5 DEF IInv, Transparent, Line, Held
<1>7. CopyState' /\ EndIsLast'
  BY <1>1, <1>5 DEF IInv, TypeOK, CopyState, EndIsLast
<1> QED
  BY <1>3, <1>4, <1>6, <1>7 DEF IInv

\* The tunnel takes the first bytes of what a side sent.
LEMMA ReadIInv ==
  ASSUME IInv, Read
  PROVE  IInv'
<1> USE DEF Read, ends
<1> DEFINE d == turn
<1>1. /\ d \in Sides /\ pc = "read" /\ pc' = "write" /\ buf = <<>> /\ inbox[d] \in Seq(Nat)
      /\ Len(inbox[d]) \in Nat
  BY LenProperties DEF IInv, TypeOK, DataOK
<1>2. PICK n \in 1..Len(inbox[d]) :
        /\ n <= Asked
        /\ buf' = SubSeq(inbox[d], 1, n)
        /\ inbox' = [inbox EXCEPT ![d] = SubSeq(@, n + 1, Len(@))]
  OBVIOUS
<1>3. /\ inbox'[d] = SubSeq(inbox[d], n + 1, Len(inbox[d]))
      /\ \A e \in Sides \ {d} : inbox'[e] = inbox[e]
      /\ UNCHANGED <<sent, closed, outbox, got, ready, turn>>
  BY <1>1, <1>2 DEF IInv, DataOK
<1> HIDE DEF Read, d
<1>4. n \in Nat /\ n >= 1 /\ n <= Len(inbox[d]) /\ \A i \in 1..Len(inbox[d]) : inbox[d][i] \in Nat
  BY <1>1, <1>2, ElementOfSeq
<1>5. buf' \in Seq(Nat) /\ Len(buf') = n
  BY <1>1, <1>2, <1>4, SubSeqProperties
<1>6. inbox'[d] \in Seq(Nat) /\ Len(inbox'[d]) = Len(inbox[d]) - n
  <2>1. /\ n + 1 \in Int /\ Len(inbox[d]) \in Int
        /\ \A i \in (n + 1)..Len(inbox[d]) : inbox[d][i] \in Nat
        /\ (IF n + 1 <= Len(inbox[d]) THEN Len(inbox[d]) - (n + 1) + 1 ELSE 0) = Len(inbox[d]) - n
    BY <1>1, <1>4
  <2>2. /\ SubSeq(inbox[d], n + 1, Len(inbox[d])) \in Seq(Nat)
        /\ Len(SubSeq(inbox[d], n + 1, Len(inbox[d])))
             = IF n + 1 <= Len(inbox[d]) THEN Len(inbox[d]) - (n + 1) + 1 ELSE 0
    BY <2>1, SubSeqProperties
  <2> QED
    BY <1>3, <2>1, <2>2
<1>7. buf' \o inbox'[d] = inbox[d]
  <2>1. 1 \in 1..Len(inbox[d]) + 1 /\ n \in (1 - 1)..Len(inbox[d]) /\ Len(inbox[d]) \in n..Len(inbox[d])
    BY <1>1, <1>4
  <2>2. SubSeq(inbox[d], 1, n) \o SubSeq(inbox[d], n + 1, Len(inbox[d])) = SubSeq(inbox[d], 1, Len(inbox[d]))
    BY <1>1, <2>1, ConcatAdjacentSubSeq
  <2>3. SubSeq(inbox[d], 1, Len(inbox[d])) = inbox[d]
    BY <1>1, SubSeqFull
  <2> QED
    BY <1>2, <1>3, <2>2, <2>3
<1>8. DataOK'
  BY <1>2, <1>3, <1>5, <1>6 DEF IInv, DataOK
<1>9. TypeOK'
  <2>1. Len(buf') <= BufferSize /\ Len(inbox'[d]) <= KernelSize
    BY <1>1, <1>2, <1>4, <1>5, <1>6, TunnelAssumption DEF Asked, IInv, TypeOK
  <2> QED
    BY <1>1, <1>3, <2>1 DEF IInv, TypeOK
<1>10. ASSUME NEW e \in Sides PROVE Line(e)' = Line(e)
  <2>1. CASE e = d
    <3>1. Held(d) = <<>> /\ Held(d)' = buf'
      BY <1>1, <1>3 DEF Held, d
    <3>2. Line(d)' = got[d] \o outbox[d] \o buf' \o inbox'[d]
      BY <1>3, <3>1 DEF Line, d
    <3>3. got[d] \o outbox[d] \in Seq(Nat)
      BY <1>1, LineFacts DEF IInv
    <3>4. Line(d)' = got[d] \o outbox[d] \o inbox[d]
      <4> DEFINE before == got[d] \o outbox[d]
      <4>1. before \in Seq(Nat) /\ Line(d)' = (before \o buf') \o inbox'[d]
        BY <3>2, <3>3
      <4> HIDE DEF before
      <4>2. (before \o buf') \o inbox'[d] = before \o (buf' \o inbox'[d])
        BY <1>5, <1>6, <4>1, Associative
      <4> QED
        BY <1>7, <4>1, <4>2 DEF before
    <3>5. Line(d) = got[d] \o outbox[d] \o inbox[d]
      BY <3>1, <3>3, ConcatEmptySeq DEF Line
    <3> QED
      BY <1>3, <2>1, <3>4, <3>5 DEF d
  <2>2. CASE e # d
    BY <1>3, <2>2 DEF Line, Held, d
  <2> QED
    BY <2>1, <2>2
<1>11. Transparent'
  BY <1>3, <1>10 DEF IInv, Transparent, Line, Held
<1>12. CopyState' /\ EndIsLast'
  BY <1>1, <1>4, <1>5, EmptySeq DEF CopyState, EndIsLast
<1> QED
  BY <1>8, <1>9, <1>11, <1>12 DEF IInv

\* A byte goes from the tunnel to the socket of the other side.
LEMMA WriteIInv ==
  ASSUME IInv, Write
  PROVE  IInv'
<1> USE DEF Write, ends
<1> DEFINE d == turn
<1>1. /\ d \in Sides /\ Other(Sink(turn)) = d
      /\ pc = "write" /\ buf \in Seq(Nat) /\ buf # <<>> /\ Len(outbox[d]) < KernelSize
      /\ buf' = Tail(buf)
      /\ IF Len(buf) = 1 THEN Served(d) ELSE pc' = pc /\ turn' = turn
      /\ outbox' = [outbox EXCEPT ![d] = Append(@, Head(buf))]
      /\ UNCHANGED <<sent, closed, inbox, got, ready>>
  BY DEF IInv, TypeOK, DataOK, CopyState, Other, Sink, Sides
<1>2. /\ outbox'[d] = Append(outbox[d], Head(buf))
      /\ \A e \in Sides \ {d} : outbox'[e] = outbox[e]
  BY <1>1 DEF IInv, DataOK
<1> HIDE DEF Write
<1>3. /\ outbox[d] \in Seq(Nat) /\ got[d] \in Seq(Nat) /\ Len(outbox[d]) \in Nat
      /\ Head(buf) \in Nat /\ buf' \in Seq(Nat) /\ Len(buf') = Len(buf) - 1 /\ Len(buf) \in Nat
      /\ outbox'[d] \in Seq(Nat) /\ Len(outbox'[d]) = Len(outbox[d]) + 1
  BY <1>1, <1>2, LineFacts, HeadTailProperties, AppendProperties, LenProperties DEF IInv
<1>4. pc' \in {"write", "read", "select"} /\ turn' \in Sides /\ (pc' = "write" => buf' # <<>>)
      /\ (turn' # d \/ pc' # "write" => buf' = <<>>)
  <2>1. CASE Len(buf) = 1
    <3>1. buf' = <<>>
      BY <1>3, <2>1, EmptySeq
    <3> QED
      BY <1>1, <2>1, <3>1 DEF Served, Sides
  <2>2. CASE Len(buf) # 1
    <3>1. Len(buf) > 1
      BY <1>1, <1>3, <2>2, EmptySeq
    <3>2. buf' # <<>>
      BY <1>3, <3>1, EmptySeq
    <3> QED
      BY <1>1, <2>2, <3>2
  <2> QED
    BY <2>1, <2>2
<1>5. DataOK'
  BY <1>1, <1>3 DEF IInv, DataOK
<1>6. TypeOK'
  <2>1. Len(outbox'[d]) <= KernelSize /\ Len(buf') <= BufferSize
    BY <1>1, <1>3, TunnelAssumption DEF IInv, TypeOK
  <2> QED
    BY <1>1, <1>2, <1>4, <2>1 DEF IInv, TypeOK
<1>7. ASSUME NEW e \in Sides PROVE Line(e)' = Line(e)
  <2>1. CASE e = d
    <3>1. Held(d) = buf /\ Held(e)' = buf'
      BY <1>4, <2>1 DEF Held, d
    <3>2. Line(e)' = got[d] \o outbox'[d] \o buf' \o inbox[d]
      BY <1>1, <2>1, <3>1 DEF Line, d
    <3>3. got[d] \o outbox'[d] \o buf' = got[d] \o outbox[d] \o buf
      <4>1. outbox'[d] \o buf' = outbox[d] \o buf
        BY <1>1, <1>2, <1>3, HeadMoves
      <4>2. /\ (got[d] \o outbox'[d]) \o buf' = got[d] \o (outbox'[d] \o buf')
            /\ (got[d] \o outbox[d]) \o buf = got[d] \o (outbox[d] \o buf)
        <5>1. /\ got[d] \in Seq(Nat) /\ outbox[d] \in Seq(Nat) /\ buf \in Seq(Nat)
              /\ outbox'[d] \in Seq(Nat) /\ buf' \in Seq(Nat)
          BY <1>1, <1>3
        <5>2. (got[d] \o outbox'[d]) \o buf' = got[d] \o (outbox'[d] \o buf')
          BY <5>1, Associative
        <5>3. (got[d] \o outbox[d]) \o buf = got[d] \o (outbox[d] \o buf)
          BY <5>1, Associative
        <5> QED
          BY <5>2, <5>3
      <4> QED
        BY <4>1, <4>2
    <3> QED
      BY <2>1, <3>1, <3>2, <3>3 DEF Line
  <2>2. CASE e # d
    <3>1. Held(e) = <<>> /\ Held(e)' = <<>>
      BY <1>4, <2>2 DEF Held, d
    <3> QED
      BY <1>1, <1>2, <2>2, <3>1 DEF Line, d
  <2> QED
    BY <2>1, <2>2
<1>8. Transparent'
  BY <1>1, <1>7 DEF IInv, Transparent, Line, Held
<1>9. CopyState' /\ EndIsLast'
  BY <1>4 DEF CopyState, EndIsLast
<1> QED
  BY <1>5, <1>6, <1>8, <1>9 DEF IInv

\* The tunnel ends when nothing is left of what the side that closed had sent.
LEMMA EndIInv ==
  ASSUME IInv, End
  PROVE  IInv'
<1> USE DEF End, ends
<1> DEFINE d == turn
<1>1. /\ d \in Sides /\ pc = "read" /\ pc' = "returned" /\ buf = <<>> /\ inbox[d] = <<>> /\ closed[d]
      /\ UNCHANGED <<sent, closed, inbox, outbox, got, ready, turn, buf>>
  BY DEF IInv, TypeOK, AtEnd
<1> HIDE DEF End, d
<1>2. got[d] \o outbox[d] \in Seq(Nat)
  BY <1>1, LineFacts DEF IInv
<1>3. Line(d) = got[d] \o outbox[d]
  <2>1. Held(d) = <<>>
    BY <1>1 DEF Held
  <2> QED
    BY <1>1, <1>2, <2>1, ConcatEmptySeq DEF Line
<1>4. Line(d) = [k \in 1..sent[d] |-> k] /\ sent[d] \in Nat
  <2>1. \A e \in Sides : Line(e) = [k \in 1..sent[e] |-> k]
    BY DEF IInv, Transparent, Line, Held
  <2>2. sent[d] \in 0..Count
    BY <1>1 DEF IInv, TypeOK
  <2> QED
    BY <1>1, <2>1, <2>2, TunnelAssumption
<1>5. Len(got[d] \o outbox[d]) = sent[d]
  BY <1>3, <1>4, NumbersGrow
<1>6. DataOK' /\ Transparent'
  BY <1>1, LineStays
<1>7. TypeOK'
  BY <1>1 DEF IInv, TypeOK
<1>8. CopyState' /\ EndIsLast'
  BY <1>1, <1>5 DEF CopyState, EndIsLast, d
<1> QED
  BY <1>6, <1>7, <1>8 DEF IInv

\* The steps of the tunnel that move nothing.
LEMMA QuietIInv ==
  ASSUME IInv, Select \/ TimesOut \/ Skip \/ Fails
  PROVE  IInv'
<1> USE DEF ends
<1>1. /\ UNCHANGED <<sent, closed, inbox, outbox, got, buf>>
      /\ pc' \in {"read", "select", "thrown"} /\ turn' \in Sides /\ ready' \subseteq Sides
      /\ (turn' = turn /\ pc' = "thrown") \/ buf = <<>>
  <2>1. CASE Select
    BY <2>1 DEF Select, Readable, Sides, IInv, TypeOK
  <2>2. CASE TimesOut
    BY <2>2 DEF TimesOut, IInv, TypeOK
  <2>3. CASE Skip
    BY <2>3 DEF Skip, Served, Sides, IInv, TypeOK
  <2>4. CASE Fails
    BY <2>4 DEF Fails, IInv, TypeOK
  <2> QED
    BY <2>1, <2>2, <2>3, <2>4
<1>2. DataOK' /\ Transparent'
  BY <1>1, LineStays
<1>3. TypeOK'
  BY <1>1 DEF IInv, TypeOK
<1>4. CopyState' /\ EndIsLast'
  BY <1>1 DEF CopyState, EndIsLast
<1> QED
  BY <1>2, <1>3, <1>4 DEF IInv

-----------------------------------------------------------------------------
\* Each side reads what the other sent, in order and nothing else, and all of it
\* was written when the tunnel returns because that side has closed.
THEOREM TunnelCorrect == Spec => []TunnelInv
<1>1. IInv /\ [Next]_vars => IInv'
  <2> SUFFICES ASSUME IInv, [Next]_vars PROVE IInv'
    OBVIOUS
  <2>1. ASSUME NEW d \in Sides, Close(d) PROVE IInv'
    <3>1. DataOK' /\ Transparent'
      BY <2>1, LineStays DEF Close, tunnel
    <3>2. TypeOK' /\ CopyState' /\ EndIsLast'
      BY <2>1 DEF Close, tunnel, IInv, TypeOK, CopyState, EndIsLast
    <3> QED
      BY <3>1, <3>2 DEF IInv
  <2>2. CASE UNCHANGED vars
    <3>1. DataOK' /\ Transparent'
      BY <2>2, LineStays DEF vars
    <3>2. TypeOK' /\ CopyState' /\ EndIsLast'
      BY <2>2 DEF vars, IInv, TypeOK, CopyState, EndIsLast
    <3> QED
      BY <3>1, <3>2 DEF IInv
  <2> QED
    BY <2>1, <2>2, SendIInv, ReceiveIInv, ReadIInv, WriteIInv, EndIInv, QuietIInv DEF Next, Copy
<1>2. IInv => TunnelInv
  BY DEF IInv, TunnelInv
<1> QED
  BY <1>1, <1>2, InitIInv, PTL DEF Spec
=============================================================================
