---------------------------- MODULE MCSslSession ----------------------------
(***************************************************************************)
(* An instance of SslSession for TLC.                                      *)
(***************************************************************************)
EXTENDS SslSession

\* Messages both ways, in the plain mode, in SSL mode, in the plain mode again, and in
\* a second session.
Twice == <<"client", "client", "client", "client", "server", "server", "on",
           "server", "server", "client", "client", "client", "off",
           "client", "client", "client", "server", "client", "on",
           "server", "server", "server", "client", "off", "client", "client", "server">>
=============================================================================
