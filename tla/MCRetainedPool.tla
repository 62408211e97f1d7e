--------------------------- MODULE MCRetainedPool ---------------------------
(***************************************************************************)
(* Instances of RetainedPool for TLC: two or three threads and up to three *)
(* clients, on each kind of mutex.                                         *)
(***************************************************************************)
EXTENDS RetainedPool

CONSTANTS t1, t2, t3, c1, c2, c3
=============================================================================
