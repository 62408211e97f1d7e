--------------------------- MODULE MCFileTransfer ---------------------------
(***************************************************************************)
(* An instance of FileTransfer for TLC: a whole chunk and a shorter one.   *)
(***************************************************************************)
EXTENDS FileTransfer
=============================================================================
