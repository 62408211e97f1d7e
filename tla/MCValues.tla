------------------------------ MODULE MCValues ------------------------------
(***************************************************************************)
(* An instance of Values for TLC.  With Base 8, strings of up to 6 bytes   *)
(* have a short length; 32-bit integers have two digits, 64-bit ones three. *)
(***************************************************************************)
EXTENDS Values

X(type, v) == [type |-> type, v |-> v]
Pair(k, x) == [key |-> k, val |-> x]

Letters(n) == [i \in 1..n |-> (3 * i) % 8]

Items == <<X("VOID", 0), X("CHAR", 6)>>
AList == X("LIST", Items)
AFloat == X("FLOAT", 300)
AMap == X("MAP", <<Pair(<<>>, AList), Pair(<<2>>, AFloat)>>)

MCScript ==
  <<X("INT", 77), X("STR", Letters(7)), X("BIN", <<>>), X("STR", Letters(6)), X("VAR", AMap),
    X("BIN", <<4, 0>>), X("INT32", 11)>>

MCVals == Range(MCScript) \union Range(Items) \union {AList, AFloat, AMap}
MCDepth == 3
MCNesting ==
  [x \in MCVals |-> CASE x.type = "LIST" -> 1 [] x.type = "MAP" -> 2 [] x.type = "VAR" -> 3 [] OTHER -> 0]

MCMessages == Len(Calls)
MCBound == [k \in 0..Len(Calls) |-> Len(FlattenSeq(SubSeq(Calls, 1, k)))]
=============================================================================
