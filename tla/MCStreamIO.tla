----------------------------- MODULE MCStreamIO -----------------------------
(***************************************************************************)
(* Instances of StreamIO for TLC: messages of 1, 3, 2 and 1 bytes.         *)
(***************************************************************************)
EXTENDS StreamIO

Ends == [k \in 0..4 |-> CASE k = 0 -> 0 [] k = 1 -> 1 [] k = 2 -> 4 [] k = 3 -> 6 [] k = 4 -> 7]
=============================================================================
