----------------------------- MODULE NetAddress -----------------------------
(***************************************************************************)
(* The address of a server from a string "(HOSTNAME|IPADDR)[:PORT]", as    *)
(* base_netsock::addr_info makes it.  A string is a sequence of characters *)
(* of at least one; numbers are scaled to PortMax and IntMax.              *)
(***************************************************************************)
EXTENDS Integers, SequencesExt, FiniteSetsExt

CONSTANTS Strings,      \* those that are checked
          Numeric,      \* the strings that inet_pton() takes
          Names,        \* the host names that resolve, and to which of Numeric
          PortMax,      \* UINT16_MAX
          IntMax,       \* INT_MAX
          DefaultPort

ASSUME AddressAssumption ==
  /\ \A s \in Strings : s \in Seq(STRING) /\ s # <<>>
  /\ IntMax \in Nat /\ PortMax \in 0..IntMax /\ DefaultPort \in 0..PortMax

Digits == <<"0", "1", "2", "3", "4", "5", "6", "7", "8", "9">>
IsDigit(c) == c \in ToSet(Digits)
DigitOf(c) == (CHOOSE i \in DOMAIN Digits : Digits[i] = c) - 1

\* The characters that are no letters, digits, dashes or dots.
Forbidden == {":", "_", " "}

\* The number that a string of digits is.
Decimal(s) ==
  LET val[i \in 0..Len(s)] == IF i = 0 THEN 0 ELSE 10 * val[i - 1] + DigitOf(s[i])
  IN  val[Len(s)]

AsInt(n) == ((n + IntMax + 1) % (2 * (IntMax + 1))) - (IntMax + 1)

\* atoi(): the digits that s begins with, cut to an int; a sign may precede them.
Atoi(s) ==
  LET from == IF s # <<>> /\ s[1] = "-" THEN 2 ELSE 1
      n == Min({i \in from..(Len(s) + 1) : i > Len(s) \/ ~IsDigit(s[i])})
      value == AsInt(Decimal(SubSeq(s, from, n - 1)))
  IN  IF from = 2 THEN -value ELSE value

\* Where the loop from the end of s may find a colon.
Colons(s) == {i \in 1..(Len(s) - 1) : s[i] = ":"}

BadAddr == [host |-> <<>>, port |-> -1]   \* bad_addr_error, dns_resolve_error
Address(h, p) == [host |-> h, port |-> p]

HasPort(s) == IsDigit(Last(s)) /\ Colons(s) # {}
PortOf(s) == IF HasPort(s) THEN Atoi(SubSeq(s, Max(Colons(s)) + 1, Len(s))) ELSE DefaultPort
HostOf(s) == IF HasPort(s) THEN SubSeq(s, 1, Max(Colons(s)) - 1) ELSE s

Accepted_AnyPort(s) ==
  HostOf(s) # <<>> /\ (HostOf(s) \in Numeric \/ \A i \in DOMAIN HostOf(s) : HostOf(s)[i] \notin Forbidden)
\* Whether the string is one of a host and a port, at first sight.
Accepted(s) ==
  /\ PortOf(s) \in 0..PortMax
  /\ HostOf(s) # <<>>
  /\ HostOf(s) \in Numeric \/ \A i \in DOMAIN HostOf(s) : HostOf(s)[i] \notin Forbidden

\* gethostbyname(), where it finds the name.
Resolved(h) == IF h \in Numeric THEN h ELSE IF h \in DOMAIN Names THEN Names[h] ELSE <<>>

Parsed(s) ==
  IF Accepted(s) /\ Resolved(HostOf(s)) # <<>>
    THEN Address(Resolved(HostOf(s)), PortOf(s)) ELSE BadAddr

-----------------------------------------------------------------------------
\* The two parts that a string may be meant to have, and what it means then.
Parts(s) ==
  {<<s, <<>>>>} \union
    {<<SubSeq(s, 1, i - 1), SubSeq(s, i + 1, Len(s))>> : i \in {j \in DOMAIN s : s[j] = ":" /\ j < Len(s)}}

WellFormed(h, p) ==
  /\ h # <<>> /\ \A i \in DOMAIN h : h[i] \notin Forbidden
  /\ \A i \in DOMAIN p : IsDigit(p[i])

Meaning(h, p) ==
  LET port == IF p = <<>> THEN DefaultPort ELSE Decimal(p)
  IN  IF Resolved(h) = <<>> \/ port > PortMax THEN BadAddr ELSE Address(Resolved(h), port)

\* atoi() takes a number that no int holds for one of the range.
Aliased(p) == Decimal(p) > IntMax /\ AsInt(Decimal(p)) \in 0..PortMax

\* Of a string of another form nothing is said, nor of such a port.
Meanings(s) ==
  {Meaning(x[1], x[2]) : x \in {y \in Parts(s) : WellFormed(y[1], y[2]) /\ ~Aliased(y[2])}}

ParsesAsMeant == \A s \in Strings : \A a \in Meanings(s) : Parsed(s) = a
=============================================================================
