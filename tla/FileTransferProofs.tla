------------------------- MODULE FileTransferProofs -------------------------
(***************************************************************************)
(* FileTransfer for every size of the file and of the chunks, every choice *)
(* of what can fail and every way that reads and writes are cut: the bytes *)
(* of the file are in the sender, in the stream, in the receiver's chunk   *)
(* or in its temporary file, each in its place.                            *)
(***************************************************************************)
EXTENDS FileTransfer, TLAPS, SequenceTheorems

Byte == Nat \X {0, 1}
Item == {<<"size">>} \cup Byte \cup ({"hash"} \X Seq(Byte))

\* From place from + 1 to place to, s has the bytes of the file that follow the
\* first ones; of the first version if it was never changed.
Part(s, from, to, first, v) ==
  \A k \in (from + 1)..to : /\ s[k] \in Byte
                            /\ s[k][1] = first + (k - from)
                            /\ v = 0 => s[k][2] = 0

DataOK ==
  /\ stream \in Seq(Item)
  /\ digest \in Seq(Byte) /\ rdigest \in Seq(Byte)
  /\ buf \in Seq(Byte) /\ file \in Seq(Byte)

SenderState ==
  /\ spc = "size" => done = 0
  /\ spc \in {"chunk", "digest"} => done < Size
  /\ spc \in {"hash", "sent"} => done = Size
  /\ Len(digest) = IF SenderHashes THEN done ELSE 0
  /\ Part(digest, 0, Len(digest), 0, version)

\* What the receiver has still to read, and how much the sender has written.
Rest == IF rpc = "size" THEN Size ELSE rest
Written ==
  CASE spc = "size" -> 0 [] spc = "chunk" -> done [] spc = "digest" -> ChunkEnd [] OTHER -> Size

\* The size before the bytes of the file in the stream, and the hash after them.
Header == IF rpc = "size" /\ stream # <<>> THEN 1 ELSE 0
Trailer == IF spc = "sent" THEN 1 ELSE 0

StreamState ==
  rpc \notin Ended =>
    /\ spc = "size" => rpc = "size" /\ stream = <<>>
    /\ rpc = "size" /\ stream = <<>> => spc \in {"size", "failed"}
    /\ Header + Trailer <= Len(stream)
    /\ Part(stream, Header, Len(stream) - Trailer, Size - Rest, version)
    /\ LET there == Size - Rest + Len(stream) - Trailer - Header
       IN  IF spc = "failed" THEN there <= Size ELSE there = Written
    /\ spc = "sent" => stream[Len(stream)] = <<"hash", digest>>

ReceiverState ==
  /\ rpc \in {"size", "create"} => temp = "none" /\ rdigest = <<>>
  /\ rpc = "create" => rest = Size
  /\ rpc \in {"read", "write", "rewrite", "hash"} => temp = "open"
  /\ rpc = "read" => rest > 0
  /\ rpc = "hash" => rest = 0
  /\ rpc \in {"read", "write", "hash"} => Part(file, 0, Len(file), 0, version)
  /\ rpc \in {"read", "hash"} =>
       /\ Len(file) = Size - rest
       /\ ReceiverHashes => rdigest = file
  /\ rpc = "write" =>
       /\ filerest = Len(buf) /\ filerest > 0 /\ at = 0
       /\ Len(file) + filerest = Size - rest
       /\ Part(buf, 0, Len(buf), Len(file), version)
       /\ ReceiverHashes => rdigest = file \o buf
  /\ rpc = "rewrite" =>
       /\ wrote = "short"
       /\ Len(buf) <= Size /\ at + filerest = Len(buf) /\ rs <= Len(buf)
       /\ Len(file) + rest <= Size
       /\ Len(file) + rest + filerest - rs <= Size

EndState ==
  /\ rpc = "received" =>
       /\ spc = "sent" /\ stream = <<>>
       /\ Len(file) = Size /\ Part(file, 0, Size, 0, version)
       /\ SenderHashes /\ ReceiverHashes => file = digest
  /\ FailsForACause
  /\ NoTempLeft
  /\ temp = "kept" => rpc = "received"

IInv ==
  /\ TypeOK
  /\ DataOK
  /\ SenderState
  /\ StreamState
  /\ ReceiverState
  /\ EndState
-----------------------------------------------------------------------------
\* The lesser of two numbers.
LEMMA MinOfTwo ==
  ASSUME NEW a \in Int, NEW b \in Int
  PROVE  Min({a, b}) = IF a <= b THEN a ELSE b
<1> DEFINE m == IF a <= b THEN a ELSE b
<1>1. m \in {a, b} /\ \A y \in {a, b} : m <= y
  OBVIOUS
<1>2. \A x \in {a, b} : (\A y \in {a, b} : x <= y) => x = m
  OBVIOUS
<1> HIDE DEF m
<1>3. Min({a, b}) = m
  BY <1>1, <1>2 DEF Min
<1> QED
  BY <1>3 DEF m

\* What a subtraction gives that wraps at most once.
LEMMA WrapsOnce ==
  ASSUME NEW m \in Nat \ {0}, NEW a \in Int, -m < a, a < m
  PROVE  a % m = IF a >= 0 THEN a ELSE a + m
<1>1. \A n \in Nat \ {0} : \A x \in 0..(n - 1) : x % n = x
  OBVIOUS
<1>2. CASE a >= 0
  BY <1>1, <1>2
<1>3. CASE a < 0
  <2> DEFINE q == a \div m
             r == a % m
  <2>1. q \in Int /\ r \in 0..(m - 1) /\ a = m * q + r
    OBVIOUS
  <2> HIDE DEF q, r
  <2>2. ~ (q >= 0)
    <3>1. \A x, y \in Nat : x * y >= 0
      OBVIOUS
    <3> QED
      BY <1>3, <2>1, <3>1
  <2>3. ~ (q <= -2)
    <3>1. ASSUME NEW p \in Nat, q = -2 - p PROVE FALSE
      <4>1. m * q = -2 * m - m * p /\ m * p \in Nat
        BY <3>1
      <4> QED
        BY <2>1, <4>1
    <3>2. q <= -2 => -2 - q \in Nat /\ q = -2 - (-2 - q)
      BY <2>1
    <3> QED
      BY <3>1, <3>2
  <2>4. q = -1
    BY <2>1, <2>2, <2>3
  <2>5. m * q = -m
    BY <2>4
  <2>6. r = a + m
    BY <2>1, <2>5
  <2> QED
    BY <1>3, <2>6 DEF r
<1> QED
  BY <1>2, <1>3

\* The bytes of the file that a chunk is made of.
LEMMA BytesArePart ==
  ASSUME NEW first \in Nat, NEW n \in Nat, version \in {0, 1}
  PROVE  /\ Bytes(first + 1, first + n) \in Seq(Byte)
         /\ Len(Bytes(first + 1, first + n)) = n
         /\ Part(Bytes(first + 1, first + n), 0, n, first, version)
<1> DEFINE b == Bytes(first + 1, first + n)
<1>1. b = [k \in 1..n |-> <<first + k, version>>]
  <2>1. first + n - (first + 1) + 1 = n /\ \A k \in 1..n : first + 1 + k - 1 = first + k
    OBVIOUS
  <2> QED
    BY <2>1 DEF Bytes
<1> HIDE DEF b
<1>2. b \in [1..n -> Byte]
  BY <1>1 DEF Byte
<1>3. b \in Seq(Byte)
  BY <1>2, SeqDef
<1>4. Len(b) = n
  BY <1>1, <1>3, LenProperties
<1>5. Part(b, 0, n, first, version)
  BY <1>1 DEF Part, Byte
<1> QED
  BY <1>3, <1>4, <1>5 DEF b

\* The bytes of one sequence, then those of another.
LEMMA PartOfBoth ==
  ASSUME NEW S, NEW s \in Seq(S), NEW t \in Seq(S), NEW from \in 0..Len(s), NEW first \in Int,
         NEW v, Part(s, from, Len(s), first, v), Part(t, 0, Len(t), first + Len(s) - from, v)
  PROVE  /\ Len(s \o t) = Len(s) + Len(t)
         /\ Part(s \o t, from, Len(s \o t), first, v)
<1>1. Len(s) \in Nat /\ Len(t) \in Nat
  BY LenProperties
<1>2. /\ Len(s \o t) = Len(s) + Len(t)
      /\ \A i \in 1..Len(s) + Len(t) : (s \o t)[i] = IF i <= Len(s) THEN s[i] ELSE t[i - Len(s)]
  BY ConcatProperties
<1>3. ASSUME NEW k \in (from + 1)..Len(s \o t)
      PROVE  /\ (s \o t)[k] \in Byte
             /\ (s \o t)[k][1] = first + (k - from)
             /\ v = 0 => (s \o t)[k][2] = 0
  <2>1. CASE k <= Len(s)
    <3>1. (s \o t)[k] = s[k] /\ k \in (from + 1)..Len(s)
      BY <1>1, <1>2, <2>1
    <3> QED
      BY <3>1 DEF Part
  <2>2. CASE k > Len(s)
    <3>1. /\ (s \o t)[k] = t[k - Len(s)] /\ k - Len(s) \in 1..Len(t)
          /\ first + (k - from) = first + Len(s) - from + (k - Len(s) - 0)
      BY <1>1, <1>2, <2>2
    <3> QED
      BY <3>1 DEF Part
  <2> QED
    BY <1>1, <2>1, <2>2
<1> QED
  BY <1>2, <1>3 DEF Part

\* The bytes between two places of a sequence.
LEMMA PartOfOne ==
  ASSUME NEW s, NEW to \in Int, NEW first \in Int, NEW v, Part(s, 0, to, first, v),
         NEW n \in Nat, n <= to
  PROVE  /\ SubSeq(s, 1, n) \in Seq(Byte)
         /\ Len(SubSeq(s, 1, n)) = n
         /\ Part(SubSeq(s, 1, n), 0, n, first, v)
<1>1. \A k \in 1..n : s[k] \in Byte
  BY DEF Part
<1>2. /\ SubSeq(s, 1, n) \in Seq(Byte)
      /\ Len(SubSeq(s, 1, n)) = n
      /\ \A k \in 1..n : SubSeq(s, 1, n)[k] = s[k]
  BY <1>1, SubSeqProperties
<1> QED
  BY <1>2 DEF Part

\* A piece of a sequence.
LEMMA PieceOf ==
  ASSUME NEW S, NEW s \in Seq(S), NEW m \in Nat, NEW n \in Nat, m + n <= Len(s)
  PROVE  SubSeq(s, m + 1, m + n) \in Seq(S) /\ Len(SubSeq(s, m + 1, m + n)) = n
<1> DEFINE i == m + 1
           j == m + n
<1>1. i \in Int /\ j \in Int /\ (IF i <= j THEN j - i + 1 ELSE 0) = n
  OBVIOUS
<1>2. \A k \in i..j : s[k] \in S
  BY LenProperties, ElementOfSeq
<1> HIDE DEF i, j
<1>3. SubSeq(s, i, j) \in Seq(S) /\ Len(SubSeq(s, i, j)) = IF i <= j THEN j - i + 1 ELSE 0
  BY <1>1, <1>2, SubSeqProperties
<1> QED
  BY <1>1, <1>3 DEF i, j

\* Where a sequence holds bytes of the file, what follows the first ones of them
\* does.
LEMMA PartAfter ==
  ASSUME NEW S, NEW s \in Seq(S), NEW n \in 0..Len(s), NEW from \in 0..n, NEW to \in n..Len(s),
         NEW first \in Int, NEW v, Part(s, from, to, first, v)
  PROVE  /\ SubSeq(s, n + 1, Len(s)) \in Seq(S)
         /\ Len(SubSeq(s, n + 1, Len(s))) = Len(s) - n
         /\ \A k \in 1..(Len(s) - n) : SubSeq(s, n + 1, Len(s))[k] = s[n + k]
         /\ Part(SubSeq(s, n + 1, Len(s)), 0, to - n, first + n - from, v)
<1> DEFINE r == SubSeq(s, n + 1, Len(s))
<1>1. Len(s) \in Nat /\ n \in Int /\ n <= Len(s)
  BY LenProperties
<1>2. \A k \in (n + 1)..Len(s) : s[k] \in S
  BY <1>1, ElementOfSeq
<1>3. /\ r \in Seq(S)
      /\ Len(r) = Len(s) - n
      /\ \A k \in 1..(Len(s) - n) : r[k] = s[n + k]
  BY <1>1, <1>2, SubSeqProperties
<1> HIDE DEF r
<1>4. ASSUME NEW k \in (0 + 1)..(to - n)
      PROVE  /\ r[k] \in Byte
             /\ r[k][1] = first + n - from + (k - 0)
             /\ v = 0 => r[k][2] = 0
  <2>1. /\ r[k] = s[n + k] /\ n + k \in (from + 1)..to
        /\ first + n - from + (k - 0) = first + (n + k - from)
    BY <1>1, <1>3
  <2> QED
    BY <2>1 DEF Part
<1> QED
  BY <1>3, <1>4 DEF Part, r

\* Two sequences that hold the same bytes of an unchanged file are equal.
LEMMA PartIsUnique ==
  ASSUME NEW s \in Seq(Byte), NEW t \in Seq(Byte), Len(s) = Len(t),
         Part(s, 0, Len(s), 0, 0), Part(t, 0, Len(t), 0, 0)
  PROVE  s = t
<1>1. \A k \in 1..Len(s) : s[k] = <<k, 0>> /\ t[k] = <<k, 0>>
  BY LenProperties DEF Part, Byte
<1> QED
  BY <1>1, SeqEqual
-----------------------------------------------------------------------------
\* Nothing is sent, and no file made, at first.
LEMMA InitIInv == Init => IInv
<1> SUFFICES ASSUME Init PROVE IInv
  OBVIOUS
<1>1. /\ \A S : <<>> \in Seq(S)
      /\ Len(<<>>) = 0
  BY EmptySeq
<1>2. TypeOK /\ DataOK
  BY <1>1, FileAssumption DEF Init, TypeOK, DataOK
<1>3. SenderState
  BY <1>1 DEF Init, SenderState, Part
<1>4. StreamState
  BY <1>1, FileAssumption DEF Init, StreamState, Part, Header, Trailer, Rest, Written, Ended
<1>5. ReceiverState /\ EndState
  BY DEF Init, ReceiverState, EndState, FailsForACause, NoTempLeft
<1> QED
  BY <1>2, <1>3, <1>4, <1>5 DEF IInv

\* A chunk is at most what is left of the file.
LEMMA ChunkEndFact ==
  ASSUME IInv, spc \in {"chunk", "digest"}
  PROVE  /\ done \in Nat /\ ChunkEnd \in Nat
         /\ done < ChunkEnd /\ ChunkEnd <= Size /\ ChunkEnd <= done + Chunk
<1>1. done \in Nat /\ done < Size /\ Size \in Nat /\ Chunk \in Nat \ {0}
  BY FileAssumption DEF IInv, TypeOK, SenderState
<1>2. ChunkEnd = IF done + Chunk <= Size THEN done + Chunk ELSE Size
  BY <1>1, MinOfTwo DEF ChunkEnd
<1> QED
  BY <1>1, <1>2

\* What a sender's step leaves alone of the invariant: the receiver's part, which
\* has not ended well before the sender has.
LEMMA ReceiverStays ==
  ASSUME IInv, UNCHANGED <<version, receiver>>, spc \notin {"sent", "failed"}
  PROVE  ReceiverState' /\ EndState'
<1>1. ReceiverState'
  BY DEF IInv, ReceiverState, receiver, Part
<1>2. EndState'
  BY DEF IInv, EndState, receiver, FailsForACause, NoTempLeft
<1> QED
  BY <1>1, <1>2

\* The sender begins with the size: there is nothing in the stream before it.
LEMMA SendSizeIInv ==
  ASSUME IInv, SendSize
  PROVE  IInv'
<1> USE DEF SendSize
<1>1. TypeOK'
  BY DEF IInv, TypeOK, receiver
<1>2. DataOK'
  <2>1. stream \in Seq(Item) /\ <<"size">> \in Item
    BY DEF IInv, DataOK, Item
  <2>2. stream' \in Seq(Item)
    BY <2>1, AppendProperties
  <2> QED
    BY <2>2 DEF IInv, DataOK, receiver
<1>3. SenderState'
  BY FileAssumption DEF IInv, SenderState, Part
<1>4. StreamState'
  <2> SUFFICES ASSUME rpc \notin Ended PROVE StreamState'
    BY DEF StreamState, receiver
  <2>1. rpc = "size" /\ stream = <<>> /\ rpc' = "size" /\ Size \in Nat
    BY FileAssumption DEF IInv, StreamState, receiver
  <2>2. Len(stream') = 1 /\ stream' # <<>>
    BY <2>1
  <2>3. spc' \in {"chunk", "hash"} /\ (spc' = "hash" => Size = 0) /\ done' = 0
    BY DEF IInv, SenderState
  <2>4. Header' = 1 /\ Trailer' = 0 /\ Rest' = Size /\ Written' = 0
    BY <2>1, <2>2, <2>3 DEF Header, Trailer, Rest, Written
  <2> QED
    BY <2>1, <2>2, <2>3, <2>4 DEF StreamState, Part
<1> QED
  BY <1>1, <1>2, <1>3, <1>4, ReceiverStays DEF IInv

\* Some bytes of the next chunk come after those in the stream.
LEMMA StreamGrows ==
  ASSUME IInv, spc = "chunk", NEW n \in 0..(ChunkEnd - done),
         stream' = stream \o Bytes(done + 1, done + n),
         UNCHANGED <<version, done, receiver>>, spc' \in {"digest", "failed"},
         spc' = "digest" => done + n = ChunkEnd
  PROVE  stream' \in Seq(Item) /\ StreamState'
<1> DEFINE b == Bytes(done + 1, done + n)
<1>1. /\ done \in Nat /\ ChunkEnd \in Nat /\ ChunkEnd <= Size /\ Size \in Nat
      /\ stream \in Seq(Item) /\ Len(stream) \in Nat /\ n \in Nat
  BY ChunkEndFact, LenProperties, FileAssumption DEF IInv, DataOK
<1>2. b \in Seq(Byte) /\ Len(b) = n /\ Part(b, 0, n, done, version)
  BY <1>1, BytesArePart DEF IInv, TypeOK
<1>3. b \in Seq(Item)
  <2>1. Byte \subseteq Item
    BY DEF Item
  <2> QED
    BY <1>2, <2>1, SeqMonotonic
<1>4. stream' = stream \o b
  OBVIOUS
<1> HIDE DEF b
<1>5. stream' \in Seq(Item) /\ Len(stream') = Len(stream) + n
  BY <1>1, <1>2, <1>3, <1>4, ConcatProperties
<1>6. ASSUME rpc \notin Ended PROVE StreamState'
  <2>1. /\ rpc = "size" => stream # <<>>
        /\ Trailer = 0 /\ Trailer' = 0 /\ Header \in 0..1
    BY <1>6 DEF IInv, StreamState, Trailer, Header
  <2>2. /\ Header <= Len(stream) /\ Size - Rest + Len(stream) - Header = done
        /\ Part(stream, Header, Len(stream), Size - Rest, version)
        /\ Rest \in 0..Size
    BY <1>1, <1>6, <2>1 DEF IInv, TypeOK, StreamState, Written, Rest
  <2>3. rpc = "size" => stream' # <<>>
    BY <1>1, <1>5, <2>1, EmptySeq
  <2>4. Header' = Header /\ Rest' = Rest
    BY <2>1, <2>3 DEF Header, Rest, receiver
  <2>5. Part(b, 0, Len(b), Size - Rest + Len(stream) - Header, version)
    BY <1>2, <2>2
  <2>6. Header \in 0..Len(stream) /\ Size - Rest \in Int
    BY <1>1, <2>1, <2>2
  <2>7. Part(stream', Header, Len(stream'), Size - Rest, version)
    BY <1>1, <1>3, <1>4, <2>2, <2>5, <2>6, PartOfBoth
  <2>8. Len(stream') - Trailer' = Len(stream')
    BY <1>1, <1>5, <2>1
  <2>9. Part(stream, Header, Len(stream) - Trailer, Size - Rest, version)'
    BY <2>4, <2>7, <2>8
  <2>10. spc' = "digest" => Written' = ChunkEnd
    BY DEF Written, ChunkEnd
  <2>11. Size - Rest' + Len(stream') - Trailer' - Header' = done + n /\ done + n <= Size
    <3>1. /\ Rest \in Int /\ Header \in Int /\ Len(stream) \in Int /\ n \in Int /\ done \in Int
          /\ Size \in Int /\ n <= ChunkEnd - done
      BY <1>1, <2>1, <2>2
    <3>2. Size - Rest' + Len(stream') - Trailer' - Header' = Size - Rest + (Len(stream) + n) - 0 - Header
      BY <1>5, <2>1, <2>4
    <3>3. Size - Rest + (Len(stream) + n) - 0 - Header = Size - Rest + Len(stream) - Header + n
      BY <3>1
    <3>4. done + n <= Size
      BY <1>1, <3>1
    <3> QED
      BY <2>2, <3>2, <3>3, <3>4
  <2>12. Header' + Trailer' <= Len(stream')
    BY <1>1, <1>5, <2>1, <2>2, <2>4
  <2> QED
    <3>1. spc' \notin {"size", "sent"} /\ (rpc' = "size" => stream' # <<>>)
      BY <2>3 DEF receiver
    <3>2. IF spc' = "failed" THEN Size - Rest' + Len(stream') - Trailer' - Header' <= Size
                             ELSE Size - Rest' + Len(stream') - Trailer' - Header' = Written'
      BY <2>10, <2>11
    <3> QED
      BY <2>9, <2>12, <3>1, <3>2 DEF StreamState
<1>7. rpc \in Ended => StreamState'
  BY DEF StreamState, receiver
<1> QED
  BY <1>5, <1>6, <1>7

\* The whole chunk is written before the sender hashes it.
LEMMA SendChunkIInv ==
  ASSUME IInv, SendChunk
  PROVE  IInv'
<1> USE DEF SendChunk
<1> DEFINE n == ChunkEnd - done
<1>1. n \in 0..(ChunkEnd - done) /\ done + n = ChunkEnd
  BY ChunkEndFact
<1>2. stream' \in Seq(Item) /\ StreamState'
  BY <1>1, StreamGrows
<1>3. TypeOK' /\ DataOK'
  BY <1>2 DEF IInv, TypeOK, DataOK, receiver
<1>4. SenderState'
  BY DEF IInv, SenderState
<1> QED
  BY <1>2, <1>3, <1>4, ReceiverStays DEF IInv

\* An _o() that throws has written a part of what it was given at most.
LEMMA SendFailsIInv ==
  ASSUME IInv, SendFails
  PROVE  IInv'
<1> USE DEF SendFails
<1>1. stream' \in Seq(Item) /\ StreamState'
  <2>1. CASE spc = "chunk"
    <3>1. PICK n \in 0..(ChunkEnd - done - 1) : stream' = stream \o Bytes(done + 1, done + n)
      BY <2>1
    <3>2. n \in 0..(ChunkEnd - done)
      BY <2>1, ChunkEndFact
    <3> QED
      BY <2>1, <3>1, <3>2, StreamGrows
  <2>2. CASE spc \in {"size", "hash"}
    <3>1. stream' = stream /\ stream \in Seq(Item) /\ spc' = "failed" /\ Trailer = 0 /\ Trailer' = 0
      BY <2>2 DEF IInv, DataOK, Trailer
    <3>2. Header' = Header /\ Rest' = Rest /\ Header \in 0..1
      BY <3>1 DEF Header, Rest, receiver
    <3>3. Written <= Size
      BY <2>2, FileAssumption DEF Written
    <3> QED
      BY <3>1, <3>2, <3>3 DEF IInv, StreamState, receiver
  <2> QED
    BY <2>1, <2>2
<1>2. TypeOK' /\ DataOK'
  BY <1>1 DEF IInv, TypeOK, DataOK, receiver
<1>3. SenderState'
  BY DEF IInv, SenderState
<1> QED
  BY <1>1, <1>2, <1>3, ReceiverStays DEF IInv

\* The bytes of the chunk are hashed as they are now, which may not be those that
\* were sent.
LEMMA DigestChunkIInv ==
  ASSUME IInv, DigestChunk
  PROVE  IInv'
<1> USE DEF DigestChunk
<1> DEFINE n == ChunkEnd - done
           b == Bytes(done + 1, done + n)
<1>1. /\ done \in Nat /\ ChunkEnd \in Nat /\ ChunkEnd <= Size /\ Size \in Nat
      /\ n \in Nat /\ done + n = ChunkEnd /\ done' = ChunkEnd /\ done < ChunkEnd
  BY ChunkEndFact, FileAssumption
<1>2. /\ digest' = IF SenderHashes THEN digest \o b ELSE digest
      /\ spc' = IF ChunkEnd = Size THEN "hash" ELSE "chunk"
  BY <1>1 DEF Hashed
<1>3. b \in Seq(Byte) /\ Len(b) = n /\ Part(b, 0, n, done, version)
  BY <1>1, BytesArePart DEF IInv, TypeOK
<1>4. /\ digest \in Seq(Byte) /\ Len(digest) \in Nat
      /\ Len(digest) = IF SenderHashes THEN done ELSE 0
      /\ Part(digest, 0, Len(digest), 0, version)
  BY LenProperties DEF IInv, DataOK, SenderState
<1> HIDE DEF n, b
<1>5. /\ digest' \in Seq(Byte)
      /\ Len(digest') = IF SenderHashes THEN ChunkEnd ELSE 0
      /\ Part(digest', 0, Len(digest'), 0, version)
  <2>1. CASE SenderHashes
    <3>1. digest' = digest \o b /\ 0 \in 0..Len(digest) /\ 0 + Len(digest) - 0 = done
      BY <1>1, <1>2, <1>4, <2>1
    <3>2. Part(b, 0, Len(b), 0 + Len(digest) - 0, version)
      BY <1>3, <3>1
    <3>3. digest \o b \in Seq(Byte) /\ Len(digest \o b) = Len(digest) + Len(b)
      BY <1>3, <1>4, ConcatProperties
    <3>4. Part(digest \o b, 0, Len(digest \o b), 0, version)
      BY <1>3, <1>4, <3>1, <3>2, PartOfBoth
    <3> QED
      BY <1>1, <1>3, <1>4, <2>1, <3>1, <3>3, <3>4
  <2>2. CASE ~SenderHashes
    BY <1>2, <1>4, <2>2
  <2> QED
    BY <2>1, <2>2
<1>6. TypeOK'
  BY <1>1, <1>2 DEF IInv, TypeOK, receiver
<1>7. DataOK'
  BY <1>5 DEF IInv, DataOK, receiver
<1>8. SenderState'
  BY <1>1, <1>2, <1>5 DEF SenderState
<1>9. StreamState'
  <2>1. Header' = Header /\ Rest' = Rest /\ Trailer = 0 /\ Trailer' = 0
    BY <1>2 DEF Header, Rest, Trailer, receiver
  <2>2. Written = ChunkEnd /\ Written' = ChunkEnd
    BY <1>1, <1>2 DEF Written
  <2> QED
    BY <1>2, <2>1, <2>2 DEF IInv, StreamState, receiver
<1> QED
  BY <1>6, <1>7, <1>8, <1>9, ReceiverStays DEF IInv

\* The hash comes after the last byte of the file.
LEMMA SendHashIInv ==
  ASSUME IInv, SendHash
  PROVE  IInv'
<1> USE DEF SendHash
<1> DEFINE h == <<"hash", digest>>
<1>1. stream \in Seq(Item) /\ h \in Item /\ Len(stream) \in Nat
  BY LenProperties DEF IInv, DataOK, Item
<1>2. /\ stream' \in Seq(Item) /\ Len(stream') = Len(stream) + 1
      /\ \A k \in 1..Len(stream) : stream'[k] = stream[k]
      /\ stream'[Len(stream) + 1] = h
  BY <1>1, AppendProperties
<1>3. TypeOK' /\ DataOK' /\ SenderState'
  BY <1>2 DEF IInv, TypeOK, DataOK, SenderState, receiver
<1>4. StreamState'
  <2> SUFFICES ASSUME rpc \notin Ended PROVE StreamState'
    BY DEF StreamState, receiver
  <2>1. /\ rpc = "size" => stream # <<>> /\ stream' # <<>>
        /\ Trailer = 0 /\ Trailer' = 1 /\ Header \in 0..1
    BY <1>1, <1>2, EmptySeq DEF IInv, StreamState, Trailer, Header
  <2>2. Header' = Header /\ Rest' = Rest /\ Written' = Written
    BY <2>1 DEF Header, Rest, receiver, Written
  <2>3. Part(stream', Header, Len(stream') - 1, Size - Rest, version)
    BY <1>1, <1>2, <2>1 DEF IInv, StreamState, Part
  <2> QED
    BY <1>1, <1>2, <2>1, <2>2, <2>3 DEF IInv, StreamState, receiver
<1> QED
  BY <1>3, <1>4, ReceiverStays DEF IInv

\* The file is changed: nothing is known of the versions of its bytes any longer.
LEMMA ChangeIInv ==
  ASSUME IInv, Change
  PROVE  IInv'
<1> USE DEF Change
<1>1. /\ UNCHANGED <<spc, done, digest, stream, rpc, rest, rdigest, buf, at, filerest, rs, temp, file, wrote>>
      /\ version' = 1
  BY DEF receiver
<1>2. \A s, from, to, first : Part(s, from, to, first, version) => Part(s, from, to, first, version')
  BY <1>1 DEF Part
<1>3. TypeOK' /\ DataOK'
  BY <1>1 DEF IInv, TypeOK, DataOK
<1>4. SenderState'
  BY <1>1, <1>2 DEF IInv, SenderState
<1>5. StreamState'
  <2>1. Header' = Header /\ Trailer' = Trailer /\ Rest' = Rest /\ Written' = Written
    BY <1>1 DEF Header, Trailer, Rest, Written, ChunkEnd
  <2> QED
    BY <1>1, <1>2, <2>1 DEF IInv, StreamState
<1>6. ReceiverState'
  BY <1>1, <1>2 DEF IInv, ReceiverState
<1>7. EndState'
  BY <1>1, <1>2 DEF IInv, EndState, FailsForACause, NoTempLeft
<1> QED
  BY <1>3, <1>4, <1>5, <1>6, <1>7 DEF IInv
-----------------------------------------------------------------------------
\* The stream is what the receiver reads of the file, then what it does not.
LEMMA StreamFacts ==
  ASSUME IInv, rpc \notin Ended
  PROVE  /\ stream \in Seq(Item) /\ Len(stream) \in Nat /\ Size \in Nat
         /\ Rest \in 0..Size /\ Header \in 0..1 /\ Trailer \in 0..1
         /\ Header + Trailer <= Len(stream)
         /\ Part(stream, Header, Len(stream) - Trailer, Size - Rest, version)
         /\ Size - Rest + Len(stream) - Trailer - Header <= Size
         /\ spc \notin {"size", "chunk", "digest", "failed"} =>
              Size - Rest + Len(stream) - Trailer - Header = Size
<1>1. stream \in Seq(Item) /\ Len(stream) \in Nat /\ Size \in Nat
  BY LenProperties, FileAssumption DEF IInv, DataOK
<1>2. Rest \in 0..Size /\ Header \in 0..1 /\ Trailer \in 0..1
  BY <1>1 DEF IInv, TypeOK, Rest, Header, Trailer
<1>3. spc # "failed" => Written <= Size
  BY <1>1, ChunkEndFact DEF Written, IInv, TypeOK
<1>4. spc \notin {"size", "chunk", "digest", "failed"} => Written = Size
  BY DEF Written
<1> QED
  BY <1>1, <1>2, <1>3, <1>4 DEF IInv, StreamState

\* What a receiver's step leaves alone: the sender's part.
LEMMA SenderStays ==
  ASSUME IInv, UNCHANGED sender
  PROVE  SenderState'
BY DEF IInv, SenderState, sender

\* A step that leaves the stream alone, and what is still to be read of it.
LEMMA StreamStays ==
  ASSUME IInv, UNCHANGED <<sender, stream, rest>>, rpc # "size", rpc' # "size",
         rpc \notin Ended
  PROVE  StreamState'
<1>1. /\ Header' = Header /\ Trailer' = Trailer /\ Rest' = Rest /\ Written' = Written
  BY DEF Header, Trailer, Rest, Written, ChunkEnd, sender
<1> QED
  BY <1>1 DEF IInv, StreamState, sender

\* The receiver takes the size off the stream: the bytes of the file come next.
LEMMA ReadSizeIInv ==
  ASSUME IInv, ReadSize
  PROVE  IInv'
<1> USE DEF ReadSize
<1>1. rpc \notin Ended /\ Header = 1 /\ Rest = Size
  BY DEF Ended, Header, Rest
<1>2. /\ stream' \in Seq(Item) /\ Len(stream') = Len(stream) - 1 /\ Len(stream) \in Nat
      /\ \A k \in 1..(Len(stream) - 1) : stream'[k] = stream[k + 1]
  BY <1>1, StreamFacts, HeadTailProperties
<1>3. TypeOK' /\ DataOK'
  BY <1>2, FileAssumption DEF IInv, TypeOK, DataOK, sender
<1>4. StreamState'
  <2>1. Header' = 0 /\ Trailer' = Trailer /\ Rest' = Size /\ Written' = Written
    BY DEF Header, Trailer, Rest, Written, ChunkEnd, sender
  <2>2. Trailer \in 0..1 /\ 1 + Trailer <= Len(stream) /\ Size \in Nat
    BY <1>1, StreamFacts
  <2>3. Part(stream, 1, Len(stream) - Trailer, Size - Size, version)
    BY <1>1, StreamFacts
  <2>4. Part(stream', 0, Len(stream') - Trailer, Size - Size, version)
    <3> SUFFICES ASSUME NEW k \in (0 + 1)..(Len(stream') - Trailer)
                 PROVE  /\ stream'[k] \in Byte
                        /\ stream'[k][1] = Size - Size + (k - 0)
                        /\ version = 0 => stream'[k][2] = 0
      BY DEF Part
    <3>1. /\ stream'[k] = stream[k + 1] /\ k + 1 \in (1 + 1)..(Len(stream) - Trailer)
          /\ Size - Size + (k - 0) = Size - Size + (k + 1 - 1)
      BY <1>2, <2>2
    <3>2. /\ stream[k + 1] \in Byte
          /\ stream[k + 1][1] = Size - Size + (k + 1 - 1)
          /\ version = 0 => stream[k + 1][2] = 0
      BY <2>3, <3>1 DEF Part
    <3> QED
      BY <3>1, <3>2
  <2>5. spc = "sent" => stream'[Len(stream')] = stream[Len(stream)]
    BY <1>2, <2>2 DEF Trailer
  <2>6. spc # "size"
    BY <1>1 DEF IInv, StreamState
  <2>7. /\ Len(stream') - Trailer' - Header' = Len(stream) - Trailer - Header
        /\ Size - Rest' + Len(stream') - Trailer' - Header' = Size - Rest + Len(stream) - Trailer - Header
    BY <1>1, <1>2, <2>1, <2>2
  <2>8. Header' + Trailer' <= Len(stream')
    BY <1>2, <2>1, <2>2
  <2> QED
    BY <1>1, <2>1, <2>4, <2>5, <2>6, <2>7, <2>8 DEF IInv, StreamState, sender
<1>5. ReceiverState' /\ EndState'
  BY DEF IInv, ReceiverState, EndState, FailsForACause, NoTempLeft, sender
<1> QED
  BY <1>3, <1>4, <1>5, SenderStays DEF IInv

\* The temporary file is made, empty.
LEMMA CreateIInv ==
  ASSUME IInv, Create
  PROVE  IInv'
<1> USE DEF Create
<1>1. temp = "none" /\ file = <<>> /\ rdigest = <<>> /\ rest = Size /\ Size \in Nat
  BY FileAssumption DEF IInv, TypeOK, ReceiverState
<1>2. TypeOK' /\ DataOK'
  BY <1>1 DEF IInv, TypeOK, DataOK, sender
<1>3. StreamState'
  BY StreamStays DEF Ended
<1>4. ReceiverState'
  BY <1>1, EmptySeq DEF ReceiverState, Part
<1>5. EndState'
  BY DEF IInv, EndState, FailsForACause, NoTempLeft, sender
<1> QED
  BY <1>2, <1>3, <1>4, <1>5, SenderStays DEF IInv

\* The receiver reads no more than the bytes of the file: the hash stays in the
\* stream.
LEMMA ReadIInv ==
  ASSUME IInv, Read
  PROVE  IInv'
<1> USE DEF Read
<1>1. rpc = "read" /\ rpc' = "write" /\ rpc \notin Ended /\ Header = 0 /\ Rest = rest
  BY DEF Ended, Header, Rest
<1>2. /\ stream \in Seq(Item) /\ Len(stream) \in Nat /\ Size \in Nat /\ rest \in 0..Size /\ rest > 0
      /\ Trailer \in 0..1 /\ Trailer <= Len(stream)
      /\ Part(stream, 0, Len(stream) - Trailer, Size - rest, version)
      /\ Trailer = 1 => Len(stream) - Trailer = rest
  <2>1. /\ stream \in Seq(Item) /\ Len(stream) \in Nat /\ Size \in Nat /\ rest \in 0..Size
        /\ Trailer \in 0..1 /\ 0 + Trailer <= Len(stream)
        /\ Part(stream, 0, Len(stream) - Trailer, Size - rest, version)
    BY <1>1, StreamFacts
  <2>2. rest > 0
    BY <1>1 DEF IInv, ReceiverState
  <2>3. Trailer = 1 => spc = "sent"
    BY DEF Trailer
  <2>4. Trailer = 1 => Size - rest + Len(stream) - Trailer - 0 = Size
    BY <1>1, <2>3, StreamFacts
  <2> QED
    BY <2>1, <2>2, <2>4
<1>3. PICK n \in 1..Min({Asked, Len(stream)}) :
        /\ buf' = SubSeq(stream, 1, n)
        /\ stream' = SubSeq(stream, n + 1, Len(stream))
        /\ rest' = rest - n
        /\ filerest' = n
  OBVIOUS
<1>4. Chunk \in Nat /\ Size < SizeMax
  BY FileAssumption
<1>5. Asked \in Nat /\ Asked <= rest /\ Asked <= Chunk
  <2>1. Asked = IF rest <= Chunk THEN rest ELSE Chunk
    <3>1. rest \in Int /\ Chunk \in Int
      BY <1>2, <1>4
    <3> QED
      BY <3>1, MinOfTwo DEF Asked
  <2> QED
    BY <1>2, <1>4, <2>1
<1>6. n \in Nat /\ n >= 1 /\ n <= rest /\ n <= Chunk /\ n <= Len(stream) /\ n <= Len(stream) - Trailer
  <2>1. Min({Asked, Len(stream)}) = IF Asked <= Len(stream) THEN Asked ELSE Len(stream)
    <3>1. Asked \in Int /\ Len(stream) \in Int
      BY <1>2, <1>5
    <3> QED
      BY <3>1, MinOfTwo
  <2>2. n \in Nat /\ n >= 1 /\ n <= Asked /\ n <= Len(stream)
    BY <1>2, <1>3, <1>5, <2>1
  <2>3. n <= rest /\ n <= Chunk
    BY <1>2, <1>4, <1>5, <2>2
  <2>4. n <= Len(stream) - Trailer
    BY <1>2, <2>2, <2>3
  <2> QED
    BY <2>2, <2>3, <2>4
<1>7. buf' \in Seq(Byte) /\ Len(buf') = n /\ Part(buf', 0, n, Size - rest, version)
  <2>1. Len(stream) - Trailer \in Int /\ Size - rest \in Int
    BY <1>2
  <2> QED
    BY <1>2, <1>3, <1>6, <2>1, PartOfOne
<1>8. /\ stream' \in Seq(Item) /\ Len(stream') = Len(stream) - n
      /\ \A k \in 1..(Len(stream) - n) : stream'[k] = stream[n + k]
      /\ Part(stream', 0, Len(stream) - Trailer - n, Size - rest + n - 0, version)
  <2>1. /\ n \in 0..Len(stream) /\ 0 \in 0..n /\ Len(stream) - Trailer \in n..Len(stream)
        /\ Size - rest \in Int
    BY <1>2, <1>6
  <2> QED
    BY <1>2, <1>3, <2>1, PartAfter
<1>9. rdigest \in Seq(Byte) /\ file \in Seq(Byte) /\ Len(file) = Size - rest
      /\ (ReceiverHashes => rdigest = file) /\ Part(file, 0, Len(file), 0, version)
  BY <1>1 DEF IInv, DataOK, ReceiverState
<1>10. rdigest' \in Seq(Byte) /\ (ReceiverHashes => rdigest' = file \o buf')
  BY <1>7, <1>9, ConcatProperties
<1>11. UNCHANGED <<version, spc, done, digest, rs, temp, file>> /\ at' = 0
  BY DEF sender
<1>12. TypeOK' /\ DataOK'
  <2>1. rest' \in 0..Size /\ filerest' \in 0..(SizeMax - 1) /\ Len(buf') <= Chunk /\ at' \in 0..Chunk
    BY <1>2, <1>3, <1>4, <1>6, <1>7, <1>11, FileAssumption
  <2> QED
    BY <1>1, <1>7, <1>8, <1>10, <1>11, <2>1 DEF IInv, TypeOK, DataOK
<1>13. StreamState'
  <2>1. Header' = 0 /\ Trailer' = Trailer /\ Rest' = rest - n /\ Written' = Written
    BY <1>1, <1>3, <1>11 DEF Header, Trailer, Rest, Written, ChunkEnd
  <2>2. /\ Len(stream') - Trailer' = Len(stream) - Trailer - n
        /\ Size - Rest' = Size - rest + n - 0
        /\ Header' + Trailer' <= Len(stream')
        /\ Size - Rest' + Len(stream') - Trailer' - Header' = Size - rest + Len(stream) - Trailer - 0
    <3>1. /\ Len(stream) \in Int /\ Trailer \in Int /\ Size \in Int /\ rest \in Int /\ n \in Int
          /\ n <= Len(stream) - Trailer
      BY <1>2, <1>6
    <3>2. /\ Len(stream) - n - Trailer = Len(stream) - Trailer - n
          /\ Size - (rest - n) = Size - rest + n - 0
          /\ 0 + Trailer <= Len(stream) - n
          /\ Size - (rest - n) + (Len(stream) - n) - Trailer - 0 = Size - rest + Len(stream) - Trailer - 0
      BY <3>1
    <3> QED
      BY <1>8, <2>1, <3>2
  <2>3. Part(stream', Header', Len(stream') - Trailer', Size - Rest', version')
    BY <1>8, <1>11, <2>1, <2>2
  <2>4. spc = "sent" => stream'[Len(stream')] = stream[Len(stream)]
    <3>1. spc = "sent" => Trailer = 1 /\ Len(stream) - n \in 1..(Len(stream) - n)
      BY <1>2, <1>6 DEF Trailer
    <3>2. n + (Len(stream) - n) = Len(stream)
      BY <1>2, <1>6
    <3> QED
      BY <1>8, <3>1, <3>2
  <2> QED
    BY <1>1, <1>11, <2>1, <2>2, <2>3, <2>4 DEF IInv, StreamState
<1>14. ReceiverState'
  <2>1. Len(file) + n = Size - rest'
    BY <1>2, <1>3, <1>6, <1>9
  <2>2. Part(buf', 0, Len(buf'), Len(file), version) /\ filerest' = Len(buf') /\ filerest' > 0
    BY <1>3, <1>6, <1>7, <1>9
  <2>3. temp = "open"
    BY <1>1 DEF IInv, ReceiverState
  <2> QED
    BY <1>1, <1>3, <1>9, <1>10, <1>11, <2>1, <2>2, <2>3 DEF ReceiverState
<1>15. EndState'
  BY <1>1, <1>11 DEF IInv, EndState, FailsForACause, NoTempLeft
<1> QED
  BY <1>12, <1>13, <1>14, <1>15, SenderStays DEF IInv

\* The first write() of a chunk: either it takes the chunk, which then is in the
\* file, or the rest is to be written.
LEMMA WriteIInv ==
  ASSUME IInv, Write
  PROVE  IInv'
<1> USE DEF Write
<1>1. /\ rpc = "write" /\ UNCHANGED <<version, spc, done, digest, stream, rest, rdigest, buf, temp>>
      /\ rpc \notin Ended
  BY DEF sender, Ended
<1>2. /\ buf \in Seq(Byte) /\ file \in Seq(Byte) /\ Len(buf) \in Nat /\ Len(file) \in Nat
      /\ filerest = Len(buf) /\ filerest > 0 /\ at = 0 /\ temp = "open"
      /\ Len(file) + filerest = Size - rest /\ rest \in 0..Size /\ Size \in Nat
      /\ Part(file, 0, Len(file), 0, version) /\ Part(buf, 0, Len(buf), Len(file), version)
      /\ ReceiverHashes => rdigest = file \o buf
      /\ Len(buf) <= Chunk /\ Chunk \in Nat /\ filerest < SizeMax /\ SizeMax \in Nat
  BY <1>1, LenProperties, FileAssumption DEF IInv, TypeOK, DataOK, ReceiverState
<1>3. PICK n \in 1..filerest :
        /\ file' = file \o SubSeq(buf, 1, n)
        /\ rs' = n
        /\ wrote' = IF n = filerest THEN wrote ELSE "short"
        /\ IF WroteAll(n) THEN rpc' = AfterChunk /\ UNCHANGED <<at, filerest>>
           ELSE rpc' = "rewrite" /\ at' = at + n /\ filerest' = filerest - n
  BY <1>2
<1>4. /\ n \in Nat /\ n >= 1 /\ n <= Len(buf)
      /\ SubSeq(buf, 1, n) \in Seq(Byte) /\ Len(SubSeq(buf, 1, n)) = n
  BY <1>2, <1>3, PartOfOne
<1>5. /\ file' \in Seq(Byte) /\ Len(file') = Len(file) + n
  BY <1>2, <1>3, <1>4, ConcatProperties
<1>6. rpc' \in {"read", "hash", "rewrite"}
  BY <1>3 DEF AfterChunk
<1>7. TypeOK'
  <2>1. Len(file') <= Size /\ rs' \in 0..Chunk /\ at' \in 0..Chunk /\ filerest' \in 0..(SizeMax - 1)
    BY <1>2, <1>3, <1>4, <1>5 DEF WroteAll
  <2> QED
    BY <1>1, <1>2, <1>6, <2>1 DEF IInv, TypeOK
<1>8. DataOK'
  BY <1>1, <1>5 DEF IInv, DataOK
<1>9. StreamState'
  BY <1>1, <1>6, StreamStays
<1>10. ReceiverState'
  <2>1. CASE n = filerest
    <3>1. file' = file \o buf
      BY <1>2, <1>3, <2>1, SubSeqFull
    <3>2. 0 \in 0..Len(file) /\ 0 + Len(file) - 0 = Len(file)
      BY <1>2
    <3>3. Part(file \o buf, 0, Len(file \o buf), 0, version)
      BY <1>2, <3>2, PartOfBoth
    <3>4. rpc' = IF rest = 0 THEN "hash" ELSE "read"
      BY <1>3, <2>1 DEF WroteAll, AfterChunk
    <3>5. Len(file') = Size - rest
      BY <1>2, <1>5, <2>1
    <3>6. Part(file', 0, Len(file'), 0, version')
      BY <1>1, <3>1, <3>3
    <3>7. rpc' \in {"read", "hash"} /\ (rpc' = "read" => rest' > 0) /\ (rpc' = "hash" => rest' = 0)
      BY <1>1, <1>2, <3>4
    <3>8. temp' = "open" /\ Len(file') = Size - rest' /\ (ReceiverHashes => rdigest' = file')
      BY <1>1, <1>2, <3>1, <3>5
    <3> QED
      BY <3>6, <3>7, <3>8 DEF ReceiverState
  <2>2. CASE n # filerest
    <3>1. rpc' = "rewrite" /\ at' = n /\ filerest' = filerest - n /\ rs' = n /\ wrote' = "short"
      BY <1>2, <1>3, <1>4, <2>2 DEF WroteAll
    <3>2. Len(buf) <= Size /\ Len(file') + rest <= Size /\ Len(file') + rest + filerest' - rs' <= Size
      BY <1>2, <1>4, <1>5, <3>1
    <3> QED
      BY <1>1, <1>2, <1>4, <3>1, <3>2 DEF ReceiverState
  <2> QED
    BY <2>1, <2>2
<1>11. EndState'
  BY <1>1, <1>2, <1>6 DEF IInv, EndState, FailsForACause, NoTempLeft
<1> QED
  BY <1>1, <1>7, <1>8, <1>9, <1>10, <1>11, SenderStays DEF IInv, sender

\* A chunk of which write() has not taken all at once never gets to its end: what
\* was written is taken off twice.
LEMMA RewriteIInv ==
  ASSUME IInv, Rewrite
  PROVE  IInv'
<1> USE DEF Rewrite
<1> DEFINE left == (filerest - rs) % SizeMax
           b == at + rs
<1>1. /\ rpc = "rewrite" /\ UNCHANGED <<version, spc, done, digest, stream, rest, rdigest, buf, wrote>>
      /\ rpc \notin Ended /\ wrote = "short"
  BY DEF sender, Ended, IInv, ReceiverState
<1>2. /\ buf \in Seq(Byte) /\ file \in Seq(Byte) /\ Len(buf) \in Nat /\ Len(file) \in Nat
      /\ at + filerest = Len(buf) /\ rs <= Len(buf) /\ Len(buf) <= Size /\ temp = "open"
      /\ Len(file) + rest <= Size /\ Len(file) + rest + filerest - rs <= Size
      /\ rest \in 0..Size /\ Size \in Nat /\ Size < SizeMax /\ SizeMax \in Nat
      /\ Len(buf) <= Chunk /\ Chunk \in Nat /\ filerest \in 0..(SizeMax - 1) /\ rs \in 0..Chunk
      /\ at \in 0..Chunk
  BY <1>1, LenProperties, FileAssumption DEF IInv, TypeOK, DataOK, ReceiverState
<1>3. left = IF filerest >= rs THEN filerest - rs ELSE filerest - rs + SizeMax
  <2>1. SizeMax \in Nat \ {0} /\ filerest - rs \in Int /\ -SizeMax < filerest - rs /\ filerest - rs < SizeMax
    BY <1>2
  <2>2. left = IF filerest - rs >= 0 THEN filerest - rs ELSE filerest - rs + SizeMax
    BY <2>1, WrapsOnce
  <2>3. filerest - rs >= 0 <=> filerest >= rs
    BY <1>2
  <2> QED
    BY <2>2, <2>3
<1>4. /\ filerest' = left /\ at' = Min({b, Chunk})
      /\ \/ left = 0 /\ Fail("unwritten") /\ UNCHANGED <<rs, file>>
         \/ /\ left # 0 /\ b + left > Len(buf)
            /\ rpc' = "undefined"
            /\ UNCHANGED <<rs, file, temp>>
         \/ /\ left # 0 /\ b + left <= Len(buf)
            /\ \E n \in 1..left : file' = file \o SubSeq(buf, b + 1, b + n) /\ rs' = n
            /\ UNCHANGED <<rpc, temp>>
  OBVIOUS
<1> HIDE DEF Rewrite, left
<1>5. /\ left \in 0..(SizeMax - 1) /\ b \in Nat
      /\ at' = IF b <= Chunk THEN b ELSE Chunk
  BY <1>2, <1>3, <1>4, MinOfTwo
<1> HIDE DEF b
<1>6. at' \in 0..Chunk
  BY <1>2, <1>5
<1>7. CASE left = 0 /\ Fail("unwritten") /\ UNCHANGED <<rs, file>>
  <2>1. rpc' = "unwritten" /\ temp' = "deleted"
    BY <1>2, <1>7 DEF Fail, Cleaned
  <2>2. TypeOK' /\ DataOK'
    BY <1>1, <1>2, <1>4, <1>5, <1>6, <1>7, <2>1 DEF IInv, TypeOK, DataOK, Ended
  <2>3. StreamState' /\ ReceiverState' /\ EndState'
    BY <1>1, <2>1 DEF IInv, StreamState, ReceiverState, EndState, FailsForACause, NoTempLeft, Ended
  <2> QED
    BY <1>1, <2>2, <2>3, SenderStays DEF IInv, sender
<1>8. CASE left # 0 /\ rpc' = "undefined" /\ UNCHANGED <<rs, file, temp>>
  <2>1. TypeOK' /\ DataOK'
    BY <1>1, <1>2, <1>4, <1>5, <1>6, <1>8 DEF IInv, TypeOK, DataOK, Ended
  <2>2. StreamState' /\ ReceiverState' /\ EndState'
    BY <1>1, <1>2, <1>8 DEF IInv, StreamState, ReceiverState, EndState, FailsForACause, NoTempLeft, Ended
  <2> QED
    BY <1>1, <2>1, <2>2, SenderStays DEF IInv, sender
<1>9. CASE /\ left # 0 /\ b + left <= Len(buf)
           /\ \E n \in 1..left : file' = file \o SubSeq(buf, b + 1, b + n) /\ rs' = n
           /\ UNCHANGED <<rpc, temp>>
  <2>1. PICK n \in 1..left : file' = file \o SubSeq(buf, b + 1, b + n) /\ rs' = n
    BY <1>9
  <2>2. left = filerest - rs /\ left > 0 /\ b + left = Len(buf)
    BY <1>2, <1>3, <1>5, <1>9 DEF b
  <2>3. n \in Nat /\ n >= 1 /\ n <= left /\ left \in Nat /\ b \in Nat /\ b + n <= Len(buf)
    BY <1>2, <1>5, <2>1, <2>2
  <2>4. SubSeq(buf, b + 1, b + n) \in Seq(Byte) /\ Len(SubSeq(buf, b + 1, b + n)) = n
    BY <1>2, <2>3, PieceOf
  <2>5. file' \in Seq(Byte) /\ Len(file') = Len(file) + n
    BY <1>2, <2>1, <2>4, ConcatProperties
  <2>6. /\ at' = b /\ at' + filerest' = Len(buf) /\ rs' <= Len(buf)
        /\ Len(file') + rest <= Size /\ Len(file') + rest + filerest' - rs' <= Size
    <3>1. at' = b /\ filerest' = left /\ rs' = n /\ b + left = Len(buf)
      BY <1>2, <1>4, <1>5, <2>1, <2>2, <2>3
    <3>2. n <= Len(buf)
      BY <1>2, <2>3
    <3>3. /\ Len(file) \in Int /\ rest \in Int /\ filerest \in Int /\ rs \in Int /\ n \in Int /\ left \in Int
          /\ left = filerest - rs /\ n <= left /\ Len(file) + rest + filerest - rs <= Size
          /\ Size \in Int
      BY <1>2, <2>2, <2>3
    <3>4. Len(file) + n + rest <= Size /\ Len(file) + n + rest + left - n <= Size
      BY <3>3
    <3> QED
      BY <2>5, <3>1, <3>2, <3>4
  <2>7. TypeOK' /\ DataOK'
    <3>1. rs' \in 0..Chunk /\ Len(file') <= Size
      BY <1>2, <2>1, <2>3, <2>5, <2>6
    <3> QED
      BY <1>1, <1>2, <1>4, <1>5, <1>6, <1>9, <2>5, <3>1 DEF IInv, TypeOK, DataOK
  <2>8. StreamState'
    BY <1>1, <1>9, StreamStays DEF sender
  <2>9. ReceiverState'
    BY <1>1, <1>2, <1>9, <2>6 DEF ReceiverState
  <2>10. EndState'
    BY <1>1, <1>9 DEF IInv, EndState, FailsForACause, NoTempLeft
  <2> QED
    BY <1>1, <2>7, <2>8, <2>9, <2>10, SenderStays DEF IInv, sender
<1> QED
  BY <1>4, <1>7, <1>8, <1>9

\* A write() that fails ends the transfer, and the temporary file is deleted.
LEMMA WriteFailsIInv ==
  ASSUME IInv, WriteFails
  PROVE  IInv'
<1> USE DEF WriteFails, Fail
<1>1. temp = "open" /\ temp' = "deleted" /\ rpc' = "unwritten"
  BY DEF IInv, ReceiverState, Cleaned
<1>2. TypeOK' /\ DataOK'
  BY <1>1 DEF IInv, TypeOK, DataOK, Ended, sender
<1>3. StreamState' /\ ReceiverState' /\ EndState'
  BY <1>1 DEF IInv, StreamState, ReceiverState, EndState, FailsForACause, NoTempLeft, Ended
<1> QED
  BY <1>2, <1>3, SenderStays DEF IInv

\* What the receiver finds after the file is the hash of a sender that has sent it
\* all; if the file was not changed they are of the same bytes.
LEMMA ReadHashIInv ==
  ASSUME IInv, ReadHash
  PROVE  IInv'
<1> USE DEF ReadHash
<1>1. /\ rpc = "hash" /\ rpc \notin Ended /\ stream # <<>> /\ Header = 0 /\ Rest = 0
      /\ UNCHANGED <<version, spc, done, digest, rest, rdigest, buf, at, filerest, rs, file>>
  BY DEF Ended, Header, Rest, IInv, ReceiverState, sender
<1>2. Len(stream) > 0
  BY <1>1, EmptySeq, StreamFacts
<1>3. Len(stream) = 1 /\ spc = "sent"
  <2> HIDE DEF ReadHash
  <2>1. /\ Size \in Int /\ Len(stream) \in Int /\ Trailer \in 0..1
        /\ Size - Rest + Len(stream) - Trailer - Header <= Size
    BY <1>1, StreamFacts
  <2>2. \A s, l, t \in Int : s - 0 + l - t - 0 <= s => l <= t
    OBVIOUS
  <2>3. Len(stream) <= Trailer
    BY <1>1, <2>1, <2>2
  <2>4. Trailer = 1 /\ Len(stream) = 1
    <3>1. \A l, t \in Int : l > 0 /\ l <= t /\ t \in 0..1 => t = 1 /\ l = 1
      OBVIOUS
    <3>2. Trailer \in Int /\ Len(stream) > 0
      BY <1>2, <2>1
    <3> QED
      BY <2>1, <2>3, <3>1, <3>2
  <2> QED
    BY <2>4 DEF Trailer
<1>4. Head(stream)[2] = digest
  <2>1. stream[1] = <<"hash", digest>>
    BY <1>1, <1>3 DEF IInv, StreamState
  <2>2. Head(stream) = stream[1]
    OBVIOUS
  <2> QED
    BY <2>1, <2>2
<1>5. stream' = <<>> /\ stream' \in Seq(Item)
  <2>1. stream' \in Seq(Item) /\ Len(stream') = 0
    BY <1>1, <1>3, StreamFacts, HeadTailProperties
  <2> QED
    BY <2>1, EmptySeq
<1>6. /\ digest \in Seq(Byte) /\ file \in Seq(Byte) /\ Size \in Nat
      /\ Len(file) = Size /\ Part(file, 0, Size, 0, version) /\ (ReceiverHashes => rdigest = file)
      /\ Len(digest) = (IF SenderHashes THEN Size ELSE 0) /\ Part(digest, 0, Len(digest), 0, version)
      /\ temp = "open"
  <2>1. Len(file) = Size - 0 /\ Size \in Nat
    BY <1>1, FileAssumption DEF IInv, ReceiverState
  <2> QED
    BY <1>1, <1>3, <2>1 DEF IInv, DataOK, ReceiverState, SenderState
<1>7. CASE SameHash(digest)
  <2>1. rpc' = "received" /\ temp' = "kept"
    BY <1>4, <1>7
  <2>2. SenderHashes /\ ReceiverHashes => file = digest
    <3> SUFFICES ASSUME SenderHashes, ReceiverHashes PROVE file = digest
      OBVIOUS
    <3>1. CASE digest = <<>>
      <4>1. Size = 0
        BY <1>6, <3>1, EmptySeq
      <4> QED
        BY <1>6, <3>1, <4>1, EmptySeq
    <3>2. CASE digest = rdigest
      BY <1>6, <3>2
    <3> QED
      BY <1>7, <3>1, <3>2 DEF SameHash
  <2>3. TypeOK' /\ DataOK'
    BY <1>1, <1>5, <2>1 DEF IInv, TypeOK, DataOK, Ended
  <2>4. StreamState' /\ ReceiverState'
    BY <1>1, <2>1 DEF StreamState, ReceiverState, Ended
  <2>5. EndState'
    BY <1>1, <1>3, <1>5, <1>6, <2>1, <2>2 DEF IInv, EndState, FailsForACause, NoTempLeft
  <2> QED
    BY <2>3, <2>4, <2>5, SenderStays DEF IInv
<1>8. CASE ~SameHash(digest)
  <2>1. rpc' = "failed" /\ temp' = "deleted"
    BY <1>4, <1>6, <1>8 DEF Fail, Cleaned
  <2>2. version = 1
    <3> SUFFICES ASSUME version = 0 PROVE FALSE
      BY DEF IInv, TypeOK
    <3>1. digest # <<>> /\ ReceiverHashes /\ digest # rdigest
      BY <1>8 DEF SameHash
    <3>2. SenderHashes
      BY <1>6, <3>1, EmptySeq
    <3>3. digest = file
      BY <1>6, <3>2, PartIsUnique
    <3> QED
      BY <1>6, <3>1, <3>3
  <2>3. TypeOK' /\ DataOK'
    BY <1>1, <1>5, <2>1 DEF IInv, TypeOK, DataOK, Ended
  <2>4. StreamState' /\ ReceiverState'
    BY <1>1, <2>1 DEF StreamState, ReceiverState, Ended
  <2>5. EndState'
    BY <1>1, <2>1, <2>2 DEF EndState, FailsForACause, NoTempLeft
  <2> QED
    BY <2>3, <2>4, <2>5, SenderStays DEF IInv
<1> QED
  BY <1>7, <1>8

\* The end of the stream ends it likewise, and only a sender that failed leaves one.
LEMMA ReadFailsIInv ==
  ASSUME IInv, ReadFails
  PROVE  IInv'
<1> USE DEF ReadFails, Fail
<1>1. temp' \in {"none", "deleted"} /\ rpc' = "failed" /\ (temp' = "none" => temp = "none")
  BY DEF IInv, TypeOK, EndState, NoTempLeft, Cleaned
<1>2. TypeOK' /\ DataOK'
  BY <1>1 DEF IInv, TypeOK, DataOK, Ended, sender
<1>3. StreamState' /\ ReceiverState' /\ EndState'
  BY <1>1 DEF IInv, StreamState, ReceiverState, EndState, FailsForACause, NoTempLeft, Ended, sender
<1> QED
  BY <1>2, <1>3, SenderStays DEF IInv

-----------------------------------------------------------------------------
\* Each byte of the file is where the two ends have brought it, and nothing else.
LEMMA TransferInductive == Spec => []IInv
<1>1. IInv /\ [Next]_vars => IInv'
  <2> SUFFICES ASSUME IInv, [Next]_vars PROVE IInv'
    OBVIOUS
  <2>1. CASE UNCHANGED vars
    <3>1. TypeOK' /\ DataOK'
      BY <2>1 DEF vars, IInv, TypeOK, DataOK
    <3>2. SenderState' /\ ReceiverState'
      BY <2>1 DEF vars, IInv, SenderState, ReceiverState
    <3>3. Header' = Header /\ Trailer' = Trailer /\ Rest' = Rest /\ Written' = Written
      BY <2>1 DEF vars, Header, Trailer, Rest, Written, ChunkEnd
    <3>4. StreamState'
      BY <2>1, <3>3 DEF vars, IInv, StreamState
    <3>5. EndState'
      BY <2>1 DEF vars, IInv, EndState, FailsForACause, NoTempLeft
    <3> QED
      BY <3>1, <3>2, <3>4, <3>5 DEF IInv
  <2> QED
    BY <2>1, SendSizeIInv, SendChunkIInv, DigestChunkIInv, SendHashIInv, SendFailsIInv, ChangeIInv,
       ReadSizeIInv, CreateIInv, ReadIInv, WriteIInv, RewriteIInv, WriteFailsIInv, ReadHashIInv,
       ReadFailsIInv DEF Next, OFile, IFile
<1> QED
  BY <1>1, InitIInv, PTL DEF Spec

\* The two ends keep within their buffers and the range of size_t, and the
\* temporary file is there only while it is received, or after success.
THEOREM FileCorrect == Spec => []FileInv
<1>1. IInv => FileInv
  BY DEF IInv, EndState, FileInv
<1> QED
  BY <1>1, TransferInductive, PTL

\* A file that was received has every byte of the one that was sent, in its place,
\* and nothing of it is left in the stream, however the reads were cut.
THEOREM ReceivedIsWhole == Spec => []FileIsWhole
<1>1. IInv => FileIsWhole
  <2> SUFFICES ASSUME IInv, rpc = "received"
               PROVE  [k \in DOMAIN file |-> file[k][1]] = [k \in 1..Size |-> k] /\ stream = <<>>
    BY DEF FileIsWhole
  <2>1. /\ file \in Seq(Byte) /\ Len(file) = Size /\ Part(file, 0, Size, 0, version) /\ stream = <<>>
        /\ Size \in Nat
    BY FileAssumption DEF IInv, DataOK, EndState
  <2>2. DOMAIN file = 1..Size /\ \A k \in 1..Size : file[k][1] = k
    BY <2>1, LenProperties DEF Part
  <2> QED
    BY <2>1, <2>2
<1> QED
  BY <1>1, TransferInductive, PTL

\* With hashes at both ends, a file that was received is the one that was hashed,
\* though it was changed while it was sent.
THEOREM ReceivedIsHashed == Spec => []FileIsHashed
<1>1. IInv => FileIsHashed
  BY DEF IInv, EndState, FileIsHashed
<1> QED
  BY <1>1, TransferInductive, PTL

\* The receiver of a file that nobody changed, from a sender that does not fail, does
\* not find another hash or the end of the stream; and while each write() takes the
\* whole of what it is given, it does not fail to write.
THEOREM FailureHasACause == Spec => []FailsForACause
<1>1. IInv => FailsForACause
  BY DEF IInv, EndState
<1> QED
  BY <1>1, TransferInductive, PTL
=============================================================================
