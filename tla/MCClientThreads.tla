-------------------------- MODULE MCClientThreads --------------------------
(***************************************************************************)
(* An instance of ClientThreads for TLC.                                   *)
(***************************************************************************)
EXTENDS ClientThreads

CONSTANTS h1, h2, h3, d1, d2
=============================================================================
