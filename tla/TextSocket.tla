----------------------------- MODULE TextSocket -----------------------------
(***************************************************************************)
(* text_socket: lines over a byte stream.  One end writes them with o_line *)
(* and o_txt, in several _o() each; the stream is cut anywhere; the other  *)
(* end calls i_line(), which keeps what it received past a line, or before *)
(* a failed read, in its buffer.                                           *)
(***************************************************************************)
EXTENDS Integers, SequencesExt

CONSTANTS NewLine,   \* '\n'
          Sep,       \* line_sep, the same at both ends
          SizeMod,   \* the separator's size and indices are kept modulo this (uint8_t: 256)
          PageSize,  \* the most that one read() asks for
          Lines,     \* the arguments of o_line
          Texts,     \* the arguments of o_txt
          MaxCalls   \* bounds the calls of the writer

SepSize == Len(Sep) % SizeMod

\* Where read_line looks for the separator, and finds it.
Found(b) == {i \in 1..(Len(b) - SepSize + 1) : IsPrefix(Sep, SubSeq(b, i, Len(b)))}

\* A line that is not ambiguous: with the separator after it, that is the first one there.
Clear(l) == \A i \in 1..Len(l) : ~IsPrefix(Sep, SubSeq(l \o Sep, i, Len(l \o Sep)))

\* Strings are sequences, the two ends agree on the separator, and no line is ambiguous.
ASSUME TextAssumption ==
  /\ Len(Sep) \in 1..SizeMod
  /\ SizeMod \in Nat \ {0} /\ PageSize \in Nat \ {0} /\ MaxCalls \in Nat
  /\ \A t \in {Sep} \union Lines \union Texts : t \in Seq(Range(t))
  /\ \A l \in Lines : Clear(l)

VARIABLES
  asked,     \* the lines that the writer's caller asked for
  calls,     \* how many calls that took
  pieces,    \* what the call under way still has to give to _o()
  failed,    \* whether an _o() failed and the writer closed
  stream,    \* the stream, as it arrives
  state,     \* "idle", "reading", or "closed" when the stream has ended
  received,  \* how much of it was received
  buffer,    \* text_socket::buffer
  lines      \* what i_line() returned

writer == <<asked, calls, pieces, failed, stream>>
lineReader == <<state, received, buffer, lines>>
textVars == <<asked, calls, pieces, failed, stream, state, received, buffer, lines>>

Chars == {NewLine} \union Range(Sep) \union UNION {Range(t) : t \in Lines \union Texts}

TextTypeOK ==
  /\ asked \in Seq(Seq(Chars)) /\ lines \in Seq(Seq(Chars))
  /\ calls \in 0..MaxCalls
  /\ pieces \in Seq(Seq(Chars))
  /\ failed \in BOOLEAN
  /\ stream \in Seq(Chars)
  /\ state \in {"idle", "reading", "closed"}
  /\ received \in 0..Len(stream)
  /\ buffer \in Seq(Chars) /\ Len(buffer) <= received

TextInit ==
  /\ asked = <<>> /\ calls = 0 /\ pieces = <<>> /\ failed = FALSE /\ stream = <<>>
  /\ state = "idle" /\ received = 0 /\ buffer = <<>> /\ lines = <<>>

-----------------------------------------------------------------------------
\* A text cut at its '\n': the lines they end, and what is left after the last.
Cut(text) ==
  LET cut[n \in 0..Len(text)] ==
        IF n = 0 THEN [ended |-> <<>>, tail |-> <<>>]
        ELSE IF text[n] = NewLine THEN [ended |-> Append(cut[n - 1].ended, cut[n - 1].tail), tail |-> <<>>]
        ELSE [ended |-> cut[n - 1].ended, tail |-> Append(cut[n - 1].tail, text[n])]
  IN  cut[Len(text)]

\* The lines that o_txt promises: the tail is one too.
LinesOf(text) == Cut(text).ended \o (IF Cut(text).tail = <<>> THEN <<>> ELSE <<Cut(text).tail>>)

\* The texts have no tail, which o_txt would not write, and their lines are not ambiguous.
WholeTexts ==
  \A t \in Texts :
    /\ Cut(t).tail = <<>>
    /\ \A k \in DOMAIN Cut(t).ended : Clear(Cut(t).ended[k])

\* The pieces that write_txt gives to _o(): when its loop ends, pos is at the end
\* of the text, so the tail is never written.
Pieces(text) ==
  FlattenSeq([k \in DOMAIN Cut(text).ended |->
                (IF Cut(text).ended[k] = <<>> THEN <<>> ELSE <<Cut(text).ended[k]>>)
                  \o <<SubSeq(Sep, 1, SepSize)>>])

\* o_line: o_str(line) and o_line_ending().
OLine ==
  /\ pieces = <<>> /\ ~failed /\ calls < MaxCalls
  /\ \E l \in Lines : asked' = Append(asked, l) /\ pieces' = <<l, Sep>>
  /\ calls' = calls + 1
  /\ UNCHANGED <<failed, stream, lineReader>>

\* o_txt.
OTxt ==
  /\ pieces = <<>> /\ ~failed /\ calls < MaxCalls
  /\ \E t \in Texts : asked' = asked \o LinesOf(t) /\ pieces' = Pieces(t)
  /\ calls' = calls + 1
  /\ UNCHANGED <<failed, stream, lineReader>>

\* One _o() of the call.
Send ==
  /\ pieces # <<>>
  /\ stream' = stream \o Head(pieces)
  /\ pieces' = Tail(pieces)
  /\ UNCHANGED <<asked, calls, failed, lineReader>>

\* One _o() that throws, having written a part: the writer gives up.
SendFails ==
  /\ pieces # <<>> /\ Head(pieces) # <<>>
  /\ \E n \in 0..(Len(Head(pieces)) - 1) : stream' = stream \o SubSeq(Head(pieces), 1, n)
  /\ pieces' = <<>>
  /\ failed' = TRUE
  /\ UNCHANGED <<asked, calls, lineReader>>

-----------------------------------------------------------------------------
Rest_Dropped(i) == <<>>
\* What stays in the buffer after the line that ends at the separator at i.
Rest(i) == SubSeq(buffer, i + SepSize, Len(buffer))

\* The buffer after a read that throws.
Kept(b) == b

\* buffer += what the read returned.
Fresh(bytes) == buffer \o bytes

Ending_Last == Max(Found(buffer))
\* The separator that ends the line: the first one.
Ending == Min(Found(buffer))

\* i_line() is called.
CallLine ==
  /\ state = "idle"
  /\ state' = "reading"
  /\ UNCHANGED <<writer, received, buffer, lines>>

\* There is a separator in the buffer: the line before it is returned, unless the
\* index in the separator cannot reach its '\0' and the comparison goes on for ever.
ReturnLine ==
  /\ state = "reading" /\ Found(buffer) # {}
  /\ Len(Sep) < SizeMod
  /\ lines' = Append(lines, SubSeq(buffer, 1, Ending - 1))
  /\ buffer' = Rest(Ending)
  /\ state' = "idle"
  /\ UNCHANGED <<writer, received>>

\* There is none: a read() adds what there is, a page at most.
Receive ==
  /\ state = "reading" /\ Found(buffer) = {}
  /\ \E n \in (received + 1)..Len(stream) :
       /\ n - received <= PageSize
       /\ received' = n
       /\ buffer' = Fresh(SubSeq(stream, received + 1, n))
  /\ UNCHANGED <<writer, state, lines>>

\* There is none and the read() times out: i_line() throws, and may be called again.
TimesOut ==
  /\ state = "reading" /\ Found(buffer) = {} /\ received = Len(stream) /\ ~failed
  /\ state' = "idle"
  /\ buffer' = Kept(buffer)
  /\ UNCHANGED <<writer, received, lines>>

\* There is none and the stream has ended: i_line() throws.
Ends ==
  /\ state = "reading" /\ Found(buffer) = {} /\ received = Len(stream) /\ failed
  /\ state' = "closed"
  /\ UNCHANGED <<writer, received, buffer, lines>>

TextNext == OLine \/ OTxt \/ Send \/ SendFails \/ CallLine \/ ReturnLine \/ Receive \/ TimesOut \/ Ends

\* A caller that goes on calling i_line(), even after a timeout; a call goes on
\* when it can.
TextSpec == TextInit /\ [][TextNext]_textVars /\ WF_textVars(CallLine) /\ WF_textVars(ReturnLine) /\ WF_textVars(Receive)

-----------------------------------------------------------------------------
\* The lines read are the lines written, in order, whatever the sizes of the
\* reads, the timeouts between them and the failure of the writer
\* (text_buffered.hpp:58-70).
LinesAreWritten == IsPrefix(lines, asked)

\* Every byte received is in a line that was returned, is a separator, or waits
\* in the buffer.
NoByteLost == FlattenSeq([k \in DOMAIN lines |-> lines[k] \o Sep]) \o buffer = SubSeq(stream, 1, received)

\* The invariant of the two ends.
TextInv == TextTypeOK /\ LinesAreWritten /\ NoByteLost

\* i_line() never waits for more when the line is already there, and what it
\* received after a line it does not receive again: every line that the writer
\* finished is read in the end.
AllLinesRead ==
  \A k \in 1..(2 * MaxCalls) : (pieces = <<>> /\ ~failed /\ Len(asked) = k) ~> (Len(lines) >= k)
=============================================================================
