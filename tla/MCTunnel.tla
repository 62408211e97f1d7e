------------------------------ MODULE MCTunnel ------------------------------
(***************************************************************************)
(* An instance of Tunnel for TLC: its kernel buffers are greater than the  *)
(* tunnel's, and smaller than what a side sends.                           *)
(***************************************************************************)
EXTENDS Tunnel
=============================================================================
