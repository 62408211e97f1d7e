--------------------------- MODULE MCActivityLoop ---------------------------
(***************************************************************************)
(* Instances of ActivityLoop for TLC: one monitored descriptor and up to   *)
(* three clients.                                                          *)
(***************************************************************************)
EXTENDS ActivityLoop

OneMonitor == <<1>>
NoClients == <<>>
=============================================================================
