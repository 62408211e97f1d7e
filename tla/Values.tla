------------------------------- MODULE Values -------------------------------
(***************************************************************************)
(* simple_socket on top of strict reads: a program writes the values of    *)
(* Script with the o_ methods, and its peer reads them with the i_ methods *)
(* of the same types in the same order.  The messages of StreamIO are the  *)
(* arguments of the _o() calls.  The reader knows no boundaries: what it   *)
(* asks for next depends on the bytes it has read.  If a read times out,   *)
(* the program goes on as is_timeout_error() tells it to.                  *)
(*                                                                         *)
(* A byte is a digit of base Base, and the widths of the integers are      *)
(* scaled with it.                                                         *)
(***************************************************************************)
EXTENDS StreamIO, SequencesExt

CONSTANTS Vals,                \* the values, as records with a type and a v
          Depth, Nesting,      \* how deep they are nested in each other
          Script,              \* those that are written, in this order
          Base,                \* 256 in the code
          W32, W64,            \* bytes of uint32_t and of the 64-bit integers
          WriterBig, ReaderBig,  \* whether the hosts are big-endian
          KeyFirst             \* in which order the reader's build evaluates the
                               \* two arguments of std::pair (simple_socket.hpp:210)

VARIABLES
  nth,    \* the value of Script that the reader is at
  todo,   \* what it still has to read of it: what it is, and its bytes
  shown,  \* the values it has got, those of a polyvar one by one
  errno,  \* of its thread
  error   \* std_errno of the io_error that was thrown

decoder == <<nth, todo, shown>>
errors == <<errno, error>>
valueVars == <<written, sent, closed, arrived, pc, read, rest, got, nth, todo, shown,
               errno, error>>

-----------------------------------------------------------------------------
Types == <<"VOID", "STR", "FLOAT", "INT", "CHAR", "BOOL", "LIST", "MAP">>
Tag(t) == CHOOSE i \in 0..7 : Types[i + 1] = t

Byte == 0..(Base - 1)

\* n without its lowest bytes: none of them, one, ..., w.
Shifted(n, w) ==
  LET left[i \in 0..w] == IF i = 0 THEN n ELSE left[i - 1] \div Base
  IN  left

\* A number that w bytes can hold.
Fits(n, w) == n \in Nat /\ Shifted(n, w)[w] = 0

\* What is left of a number in an integer of w bytes.
InMemory(n, w, big) ==
  LET little == [i \in 1..w |-> Shifted(n, w)[i - 1] % Base]
  IN  IF big THEN Reverse(little) ELSE little

\* swapBytes()
Swapped(bytes) == Reverse(bytes)

\* not XIF_SOCKETXX_ENDIANNESS_SAME: the priority is little-endian.
MustSwap(big) == big

\* o_int, and o_float through it
OnWire(n, w) ==
  LET bytes == InMemory(n, w, WriterBig)
  IN  IF MustSwap(WriterBig) THEN Swapped(bytes) ELSE bytes

\* i_int: the bytes as they are, "already converted by sender".
AsInt(bytes) ==
  LET little == IF ReaderBig THEN Reverse(bytes) ELSE bytes
      high[i \in 0..Len(bytes)] == IF i = 0 THEN 0 ELSE high[i - 1] * Base + little[Len(bytes) + 1 - i]
  IN  high[Len(bytes)]

LongString_OffByOne(s) == Len(s) > Base - 1
\* A length of one byte, unless it is more than 254.
LongString(s) == Len(s) > Base - 2

\* The bytes of a string, without the end that c_str() gives them.
Content(s) == s

\* o_str
StringOut(s) ==
  (IF LongString(s) THEN <<<<Base - 1>>, OnWire(Len(s), W64)>> ELSE <<<<Len(s)>>>>)
    \o (IF s = <<>> THEN <<>> ELSE <<Content(s)>>)

\* o_bin: the length is cut to 32 bits, and nothing is written for NULL.
BinaryOut(p) ==
  <<OnWire(Len(p), W32)>> \o (IF p = <<>> THEN <<>> ELSE <<p>>)

\* The messages that the o_ method of a value writes: o_var of an item of a list, or
\* of a map, is called by that of the list.
Out[x \in Vals] ==
  LET VarOut(y) == <<<<Tag(y.type)>>>> \o Out[y]
  IN  CASE x.type = "VOID" -> <<>>
        [] x.type \in {"CHAR", "BOOL"} -> <<<<x.v>>>>
        [] x.type \in {"INT", "FLOAT"} -> <<OnWire(x.v, W64)>>
        [] x.type = "INT32" -> <<OnWire(x.v, W32)>>
        [] x.type = "STR" -> StringOut(x.v)
        [] x.type = "BIN" -> BinaryOut(x.v)
        [] x.type = "BUF" -> <<x.v>>
        [] x.type = "LIST" -> <<OnWire(Len(x.v), W64)>> \o FlattenSeq([i \in DOMAIN x.v |-> VarOut(x.v[i])])
        [] x.type = "MAP" ->
             <<OnWire(Len(x.v), W64)>>
               \o FlattenSeq([i \in DOMAIN x.v |-> StringOut(x.v[i].key) \o VarOut(x.v[i].val)])
        [] x.type = "VAR" -> VarOut(x.v)

\* What a value is made of, and should be to its reader: no bytes, no lengths.
Leaves[x \in Vals] ==
  CASE x.type = "LIST" -> FlattenSeq([i \in DOMAIN x.v |-> Leaves[x.v[i]]])
    [] x.type = "MAP" ->
         FlattenSeq([i \in DOMAIN x.v |-> <<x.v[i].key>> \o Leaves[x.v[i].val]])
    [] x.type = "VAR" -> Leaves[x.v]
    [] x.type = "VOID" -> <<"VOID">>
    [] OTHER -> <<x.v>>

\* The _o() calls of the first n values, the stream they make, and the place in
\* it where each value begins.
MessagesOf(n) == FlattenSeq([i \in 1..n |-> Out[Script[i]]])
Calls == MessagesOf(Len(Script))
Bytes == FlattenSeq(Calls)
Begins == [n \in 1..(Len(Script) + 1) |-> Len(FlattenSeq(MessagesOf(n - 1)))]
Expected == FlattenSeq([i \in DOMAIN Script |-> Leaves[Script[i]]])

\* What the types of C++ allow: a polyvar is inside another, or in the script.
Strings == {s \in Seq(Byte) : Fits(Len(s), W64)}
Polyvar(y) == y \in Vals /\ y.type \in Range(Types)
Inside(y, x) == Polyvar(y) /\ Nesting[y] < Nesting[x]
WellTyped(x) ==
  CASE x.type = "VOID" -> TRUE
    [] x.type \in {"CHAR", "BOOL"} -> x.v \in Byte
    [] x.type \in {"INT", "FLOAT"} -> Fits(x.v, W64)
    [] x.type = "INT32" -> Fits(x.v, W32)
    [] x.type \in {"STR", "BIN"} -> x.v \in Strings
    [] x.type = "BUF" -> x.v \in Seq(Byte) \ {<<>>}
    [] x.type = "LIST" ->
         /\ Len(x.v) \in Nat /\ DOMAIN x.v = 1..Len(x.v) /\ Fits(Len(x.v), W64)
         /\ \A i \in DOMAIN x.v : Inside(x.v[i], x)
    [] x.type = "MAP" ->
         /\ Len(x.v) \in Nat /\ DOMAIN x.v = 1..Len(x.v) /\ Fits(Len(x.v), W64)
         /\ \A i \in DOMAIN x.v : x.v[i].key \in Strings /\ Inside(x.v[i].val, x)
    [] x.type = "VAR" -> Inside(x.v, x)
    [] OTHER -> FALSE

\* The stream that StreamIO cuts is that of the script.
ASSUME ValuesAssumption ==
  /\ Base \in Nat /\ Base >= 8 /\ W64 \in Nat /\ W32 \in 1..W64
  /\ WriterBig \in BOOLEAN /\ ReaderBig \in BOOLEAN /\ KeyFirst \in BOOLEAN
  /\ Depth \in Nat /\ Nesting \in [Vals -> 0..Depth]
  /\ \A x \in Vals : WellTyped(x)
  /\ Script \in Seq(Vals) /\ \A i \in DOMAIN Script : Script[i].type # "VOID"
  /\ Messages = Len(Calls)
  /\ Bound = [k \in 0..Len(Calls) |-> Len(FlattenSeq(SubSeq(Calls, 1, k)))]

-----------------------------------------------------------------------------
\* What the i_ method of a type reads first.
In(x) ==
  CASE x.type \in {"CHAR", "BOOL"} -> <<<<"char", 1>>>>
    [] x.type \in {"INT", "FLOAT"} -> <<<<"int", W64>>>>
    [] x.type = "INT32" -> <<<<"int", W32>>>>
    [] x.type = "STR" -> <<<<"str", 1>>>>
    [] x.type = "BIN" -> <<<<"bin", W32>>>>
    [] x.type = "BUF" -> <<<<"chars", Len(x.v)>>>>
    [] x.type = "VAR" -> <<<<"var", 1>>>>
    [] x.type = "LIST" -> <<<<"list", W64>>>>
    [] x.type = "MAP" -> <<<<"map", W64>>>>
    [] OTHER -> <<>>

\* The arguments of std::pair are read in the order the build evaluates them.
Entry == IF KeyFirst THEN <<<<"str", 1>>, <<"var", 1>>>> ELSE <<<<"var", 1>>, <<"str", 1>>>>
Repeat(n, s) == FlattenSeq([i \in 1..n |-> s])

\* What remains to be read for an item, once its bytes are there.
More(item, bytes) ==
  CASE item = "str" /\ bytes[1] = Base - 1 -> <<<<"strlen", W64>>>>
    [] item = "str" /\ bytes[1] \notin {0, Base - 1} -> <<<<"chars", bytes[1]>>>>
    [] item \in {"strlen", "bin"} /\ AsInt(bytes) # 0 -> <<<<"chars", AsInt(bytes)>>>>
    [] item = "var" -> In([type |-> Types[bytes[1] + 1]])
    [] item = "list" -> Repeat(AsInt(bytes), <<<<"var", 1>>>>)
    [] item = "map" -> Repeat(AsInt(bytes), Entry)
    [] OTHER -> <<>>

\* The value it is, if it is one.
Value(item, bytes) ==
  CASE item = "char" -> <<bytes[1]>>
    [] item = "int" -> <<AsInt(bytes)>>
    [] item = "chars" -> <<bytes>>
    [] item = "var" /\ Types[bytes[1] + 1] = "VOID" -> <<"VOID">>
    [] item \in {"str", "strlen", "bin"} /\ More(item, bytes) = <<>> -> <<<<>>>>
    [] OTHER -> <<>>
-----------------------------------------------------------------------------
Reads(n) == IF n <= Len(Script) THEN In(Script[n]) ELSE <<>>

ValuesInit ==
  /\ Init
  /\ nth = 1 /\ todo = Reads(1) /\ shown = <<>>
  /\ errno = "0" /\ error = "none"

\* The next _i_fixsize() of the method that runs, or the first of the next one.
Ask ==
  /\ pc = "idle" /\ nth <= Len(Script)
  /\ pc' = "first"
  /\ rest' = Head(todo)[2]
  /\ UNCHANGED <<sender, arrived, read, got, decoder, errors>>

\* The bytes of an _i_fixsize() that returned go to the method that called it.
Decode ==
  LET item == Head(todo)
      bytes == SubSeq(Bytes, got' - item[2] + 1, got')
      left == More(item[1], bytes) \o Tail(todo)
  IN  /\ shown' = shown \o Value(item[1], bytes)
      /\ IF left = <<>> THEN nth' = nth + 1 /\ todo' = Reads(nth + 1)
                        ELSE todo' = left /\ UNCHANGED nth

\* A short recv() is an error too, but does not set errno.
ReadValue ==
  /\ Read
  /\ IF read' # read THEN Decode ELSE UNCHANGED decoder
  /\ error' = IF pc' = "failed" THEN errno ELSE error
  /\ UNCHANGED errno

\* At the end of the stream errno is not set either.
ReadValueFails ==
  /\ ReadFails
  /\ errno' = IF closed /\ arrived = sent THEN errno ELSE "EAGAIN"
  /\ error' = errno'
  /\ UNCHANGED decoder

IsTimeoutError_NotAgain == error = "ETIMEDOUT"
\* io_error::is_timeout_error()
IsTimeoutError == error \in {"ETIMEDOUT", "EAGAIN"}

AfterCatch_Kept == errno
\* ~classic_error: errno_reset
AfterCatch == "0"

\* The values that are read by one _i_fixsize().
Single(n) == n <= Len(Script) /\ Script[n].type \in {"CHAR", "BOOL", "INT", "INT32", "FLOAT", "BUF"}

\* The program calls the method again after a timeout, if the method makes one
\* read only; of the others it cannot tell how far they went.
Retry ==
  /\ pc = "failed" /\ IsTimeoutError /\ Single(nth)
  /\ pc' = "idle"
  /\ errno' = AfterCatch /\ error' = "none"
  /\ UNCHANGED <<sender, arrived, read, rest, got, decoder>>

ValuesNext ==
  \/ (Write \/ WriteFails \/ Close \/ Deliver) /\ UNCHANGED <<decoder, errors>>
  \/ Ask \/ ReadValue \/ ReadValueFails \/ Retry

\* What was sent arrives; the reader goes on, and tries again while it may.
ValuesSpec ==
  /\ ValuesInit /\ [][ValuesNext]_valueVars
  /\ WF_valueVars(Deliver /\ UNCHANGED <<decoder, errors>>)
  /\ WF_valueVars(Ask) /\ SF_valueVars(ReadValue) /\ WF_valueVars(Retry)

-----------------------------------------------------------------------------
ValuesTypeOK ==
  /\ TypeOK
  /\ nth \in 1..(Len(Script) + 1)
  /\ \A i \in DOMAIN todo : todo[i][2] \in Nat \ {0}
  /\ errno \in {"0", "EAGAIN"} /\ error \in {"none", "0", "EAGAIN"}

\* "The only thing you need to care about is the type of data and order"
\* (simple_socket.hpp:55): the values read are those that were written, whatever
\* the lengths, the endianness of the writer, the nesting of polyvars and the
\* timeouts after which a read was tried again (simple_socket.hpp:79-214,
\* base_io.hpp:140).
ValuesAgree == IsPrefix(shown, Expected)

\* A reader gives up for a cause: the stream has ended, or a timeout came in the
\* middle of a value, or in a method that cannot be called again.
CutShort ==
  pc = "failed" /\ \/ closed /\ arrived = sent
                   \/ got > Begins[nth]
                   \/ ~Single(nth)

\* What was written whole is read in the end, however often the reader's timeout
\* expires while it waits, unless it is cut short (base_io.cpp:265-269).
AllRead == []<>(read >= written \/ CutShort)
=============================================================================
