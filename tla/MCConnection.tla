---------------------------- MODULE MCConnection ----------------------------
(***************************************************************************)
(* An instance of Connection for TLC: addresses of each form, good and bad *)
(* ones, of a server "h" at the port 1 of 2.2, and of a host that is none. *)
(***************************************************************************)
EXTENDS Connection

EachVersion == [t \in {"t1", "t2"} |-> IF t = "t1" THEN "stoppable" ELSE "plain"]

MCNumeric == {<<"2", ".", "2">>, <<"3", ".", "3">>}
MCNames == (<<"h">> :> <<"2", ".", "2">>) @@ (<<"g">> :> <<"3", ".", "3">>)
MCServer == [host |-> <<"2", ".", "2">>, port |-> 1]
MCMaxWaits == {-1, 2}

MCStrings ==
  UNION {[1..n -> {"h", "2", ".", ":", "_"}] : n \in 1..5}
    \union {<<"h", ":", "7">>, <<"h", ":", "0", "6">>, <<"g", ":", "1">>, <<"h", ":", "1">>, <<"x">>,
             <<"h", ":", "5", "5">>, <<"h", ":", "1", "0", "3">>, <<"h", ":", "1", "5", "0">>}

MCAddresses == {<<"h", ":", "1">>, <<"g", ":", "1">>, <<"h", ":">>}
=============================================================================
