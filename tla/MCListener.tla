----------------------------- MODULE MCListener -----------------------------
(***************************************************************************)
(* Instances of Listener for TLC: two or three servers on one path.        *)
(***************************************************************************)
EXTENDS Listener

CONSTANTS s1, s2, s3, i1, i2, i3
=============================================================================
