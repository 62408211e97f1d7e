---------------------------- MODULE FileTransfer ----------------------------
(***************************************************************************)
(* o_file and i_file of simple_socket: the size, the bytes of the file     *)
(* chunk by chunk, then the hash.  The receiver reads what there is, a     *)
(* chunk at most, and writes it to a temporary file that it deletes if     *)
(* anything fails.  A byte is its place and its version: another program   *)
(* may change the file while it is sent.                                   *)
(***************************************************************************)
EXTENDS Integers, SequencesExt

CONSTANTS Size,            \* of the file
          Chunk,           \* of the chunks, at both ends
          SizeMax,         \* size_t counts modulo this
          SenderHashes,    \* whether each end is built with XIF_USE_SSL
          ReceiverHashes,
          FileChanges,     \* whether the file may be changed
          SenderFails,     \* whether an _o() may throw
          WritesShort,     \* whether write() may write less than it is asked
          WritesFail       \* whether it may fail

ASSUME FileAssumption ==
  /\ Size \in Nat /\ Chunk \in Nat \ {0} /\ SizeMax \in Nat /\ Size < SizeMax
  /\ {SenderHashes, ReceiverHashes, FileChanges, SenderFails, WritesShort, WritesFail} \subseteq BOOLEAN

VARIABLES
  version,   \* of the file
  spc,       \* the sender: "size", "chunk", "digest", "hash", "sent" or "failed"
  done,      \* how many bytes it has sent
  digest,    \* the bytes it has hashed
  stream,    \* what the receiver has not read
  rpc,       \* the receiver: "size", "create", "read", "write", "rewrite", "hash",
             \* "received", "failed", "unwritten" (failed to write) or "undefined"
  rest,      \* bytes_rest
  rdigest,   \* the bytes it has hashed
  buf,       \* the chunk it read
  at,        \* what precedes b in it
  filerest,  \* file_rest
  rs,        \* what write() returned
  temp,      \* the temporary file: "none", "open", "kept" or "deleted"
  file       \* its bytes

\* How its write()s have gone, "whole", "short" or "failed" (for the properties only).
VARIABLE wrote

sender == <<version, spc, done, digest>>
receiver == <<rpc, rest, rdigest, buf, at, filerest, rs, temp, file, wrote>>
vars == <<version, spc, done, digest, stream, rpc, rest, rdigest, buf, at, filerest, rs, temp, file, wrote>>

Ended == {"received", "failed", "unwritten", "undefined"}

TypeOK ==
  /\ version \in {0, 1}
  /\ spc \in {"size", "chunk", "digest", "hash", "sent", "failed"}
  /\ done \in 0..Size
  /\ rpc \in {"size", "create", "read", "write", "rewrite", "hash"} \union Ended
  /\ rest \in 0..Size
  /\ Len(buf) <= Chunk /\ at \in 0..Chunk
  /\ filerest \in 0..(SizeMax - 1) /\ rs \in 0..Chunk
  /\ temp \in {"none", "open", "kept", "deleted"}
  /\ (temp = "none" => file = <<>>) /\ Len(file) <= Size
  /\ wrote \in {"whole", "short", "failed"}

Init ==
  /\ version = 0 /\ spc = "size" /\ done = 0 /\ digest = <<>> /\ stream = <<>>
  /\ rpc = "size" /\ rest = 0 /\ rdigest = <<>> /\ buf = <<>>
  /\ at = 0 /\ filerest = 0 /\ rs = 0 /\ temp = "none" /\ file = <<>>
  /\ wrote = "whole"

-----------------------------------------------------------------------------
Bytes(first, last) == [k \in 1..(last - first + 1) |-> <<first + k - 1, version>>]

\* The last chunk is what is left.
ChunkEnd == Min({done + Chunk, Size})

Hashed_Chunk == Bytes(done + 1, done + Chunk)
\* The hash is of the bytes as they are in the mapping now.
Hashed == Bytes(done + 1, ChunkEnd)

Asked_Chunk == Chunk
\* The receiver never asks for what comes after the file.
Asked == Min({rest, Chunk})

SameHash_Unchecked(h) == TRUE
\* same_hash(): an end that has none accepts what the other has.
SameHash(h) == h = <<>> \/ ~ReceiverHashes \/ h = rdigest

WroteAll_NoError(n) == n > 0
\* Whether a write() of n bytes is the last one of a chunk.
WroteAll(n) == n = filerest

Cleaned_Left == temp
\* What a receiver that fails leaves: i_file closes and deletes what it has made.
Cleaned == IF temp = "open" THEN "deleted" ELSE temp

Fail(how) ==
  /\ rpc' = how
  /\ temp' = Cleaned

-----------------------------------------------------------------------------
SendSize ==
  /\ spc = "size"
  /\ stream' = Append(stream, <<"size">>)
  /\ spc' = IF Size = 0 THEN "hash" ELSE "chunk"
  /\ UNCHANGED <<version, done, digest, receiver>>

\* write_from_file: the chunk, mapped, is given to _o() ...
SendChunk ==
  /\ spc = "chunk"
  /\ stream' = stream \o Bytes(done + 1, ChunkEnd)
  /\ spc' = "digest"
  /\ UNCHANGED <<version, done, digest, receiver>>

\* ... and then to MD5_Update(), out of the same mapping.
DigestChunk ==
  /\ spc = "digest"
  /\ digest' = IF SenderHashes THEN digest \o Hashed ELSE digest
  /\ done' = ChunkEnd
  /\ spc' = IF done' = Size THEN "hash" ELSE "chunk"
  /\ UNCHANGED <<version, stream, receiver>>

SendHash ==
  /\ spc = "hash"
  /\ stream' = Append(stream, <<"hash", digest>>)
  /\ spc' = "sent"
  /\ UNCHANGED <<version, done, digest, receiver>>

\* An _o() throws, having written a part.
SendFails ==
  /\ SenderFails /\ spc \in {"size", "chunk", "hash"}
  /\ IF spc = "chunk"
       THEN \E n \in 0..(ChunkEnd - done - 1) : stream' = stream \o Bytes(done + 1, done + n)
       ELSE UNCHANGED stream
  /\ spc' = "failed"
  /\ UNCHANGED <<version, done, digest, receiver>>

Change ==
  /\ FileChanges /\ version = 0
  /\ version' = 1
  /\ UNCHANGED <<spc, done, digest, stream, receiver>>

-----------------------------------------------------------------------------
ReadSize ==
  /\ rpc = "size" /\ stream # <<>>
  /\ stream' = Tail(stream)
  /\ rest' = Size
  /\ rpc' = "create"
  /\ UNCHANGED <<sender, rdigest, buf, at, filerest, rs, temp, file, wrote>>

Create ==
  /\ rpc = "create"
  /\ temp' = "open"
  /\ rpc' = IF rest = 0 THEN "hash" ELSE "read"
  /\ UNCHANGED <<sender, stream, rest, rdigest, buf, at, filerest, rs, file, wrote>>

\* read_to_file: one read(), hashed.
Read ==
  /\ rpc = "read"
  /\ \E n \in 1..Min({Asked, Len(stream)}) :
       /\ buf' = SubSeq(stream, 1, n)
       /\ stream' = SubSeq(stream, n + 1, Len(stream))
       /\ rest' = rest - n
       /\ filerest' = n
  /\ rdigest' = IF ReceiverHashes THEN rdigest \o buf' ELSE rdigest
  /\ at' = 0
  /\ rpc' = "write"
  /\ UNCHANGED <<sender, rs, temp, file, wrote>>

AfterChunk == IF rest = 0 THEN "hash" ELSE "read"

\* The first write() of the chunk.
Write ==
  /\ rpc = "write"
  /\ \E n \in (IF WritesShort THEN 1..filerest ELSE {filerest}) :
       /\ file' = file \o SubSeq(buf, 1, n)
       /\ rs' = n
       /\ wrote' = IF n = filerest THEN wrote ELSE "short"
       /\ IF WroteAll(n) THEN rpc' = AfterChunk /\ UNCHANGED <<at, filerest>>
          ELSE rpc' = "rewrite" /\ at' = at + n /\ filerest' = filerest - n
  /\ UNCHANGED <<sender, stream, rest, rdigest, buf, temp>>

\* The others: what was written is taken off once more before each.  A write() of
\* nothing returns 0, which is an error; past the end of the chunk it is not
\* defined what is written.
Rewrite ==
  /\ rpc = "rewrite"
  /\ LET left == (filerest - rs) % SizeMax
         b == at + rs
     IN  /\ filerest' = left
         /\ at' = Min({b, Chunk})
         /\ \/ left = 0 /\ Fail("unwritten") /\ UNCHANGED <<rs, file>>
            \/ /\ left # 0 /\ b + left > Len(buf)
               /\ rpc' = "undefined"
               /\ UNCHANGED <<rs, file, temp>>
            \/ /\ left # 0 /\ b + left <= Len(buf)
               /\ \E n \in 1..left : file' = file \o SubSeq(buf, b + 1, b + n) /\ rs' = n
               /\ UNCHANGED <<rpc, temp>>
  /\ UNCHANGED <<sender, stream, rest, rdigest, buf, wrote>>

WriteFails ==
  /\ WritesFail /\ rpc \in {"write", "rewrite"}
  /\ Fail("unwritten")
  /\ wrote' = "failed"
  /\ UNCHANGED <<sender, stream, rest, rdigest, buf, at, filerest, rs, file>>

\* The hash of the sender, compared.
ReadHash ==
  /\ rpc = "hash" /\ stream # <<>>
  /\ stream' = Tail(stream)
  /\ IF SameHash(Head(stream)[2]) THEN rpc' = "received" /\ temp' = "kept" ELSE Fail("failed")
  /\ UNCHANGED <<sender, rest, rdigest, buf, at, filerest, rs, file, wrote>>

\* A read() finds the end of the stream.
ReadFails ==
  /\ rpc \in {"size", "read", "hash"} /\ stream = <<>> /\ spc = "failed"
  /\ Fail("failed")
  /\ UNCHANGED <<sender, stream, rest, rdigest, buf, at, filerest, rs, file, wrote>>

OFile == SendSize \/ SendChunk \/ DigestChunk \/ SendHash
IFile == ReadSize \/ Create \/ Read \/ Write \/ Rewrite \/ WriteFails \/ ReadHash \/ ReadFails
Next == OFile \/ SendFails \/ Change \/ IFile

\* Both ends run when they can.
Spec == Init /\ [][Next]_vars /\ WF_vars(OFile) /\ WF_vars(IFile)

-----------------------------------------------------------------------------
\* A file that was received has every byte of the one that was sent, in its
\* place, whatever the sizes of the reads and writes; and nothing is left of it
\* in the stream.
FileIsWhole ==
  rpc = "received" => /\ [k \in DOMAIN file |-> file[k][1]] = [k \in 1..Size |-> k]
                      /\ stream = <<>>

\* With hashes at both ends it is the file that the sender hashed, though it was
\* changed while it was sent (simple_socket.hpp:50).
FileIsHashed == rpc = "received" /\ SenderHashes /\ ReceiverHashes => file = digest

\* The temporary file is there only while it is received, and after success
\* (simple_socket.hpp:234-239).
NoTempLeft ==
  /\ rpc \in {"failed", "unwritten"} => temp # "open"
  /\ rpc = "received" <=> temp = "kept"

\* The invariant of the two ends.
FileInv == TypeOK /\ NoTempLeft

\* The receiver refuses a file only if it was changed or the sender failed: the two
\* ends agree on sizes and hashes (simple_socket.hpp:31).  It fails to write only
\* after a write() that failed or, since its count is wrong after one, that was cut
\* (simple_socket.cpp:106); what is not defined takes one that was cut.
FailsForACause ==
  /\ rpc = "failed" => version = 1 \/ spc = "failed"
  /\ rpc = "unwritten" => wrote # "whole"
  /\ rpc = "undefined" => wrote = "short"

\* The receiver comes to an end: it never waits for bytes that are not sent, nor
\* for a hash that it has read as a part of the file.
Ends == <>(rpc \in Ended)
=============================================================================
