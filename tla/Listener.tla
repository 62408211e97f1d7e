------------------------------ MODULE Listener ------------------------------
(***************************************************************************)
(* Servers that listen on one UNIX socket path: socket_server<base_unixsock>*)
(* and the socket file it deletes.  The servers are objects of one or of   *)
(* several processes; their system calls interleave.  A file is known by   *)
(* the socket it was made for, whatever is at the path when a server       *)
(* unlinks it.                                                             *)
(***************************************************************************)
EXTENDS Naturals, FiniteSets

CONSTANTS Servers,
          Inodes,        \* the socket files bind() can still make; bounds it
          NoInode

ASSUME ListenerAssumption == NoInode \notin Inodes

VARIABLES
  doing,      \* "none", "idle", or the next system call of each server
  making,     \* the servers whose constructor has called listening_start
  open,       \* the servers whose fd is not SOCKETXX_INVALID_HANDLE
  bound,      \* the file that each server's bind() made
  accepting,  \* the servers whose socket listens
  listening,  \* the servers whose listening flag is set
  autodel,    \* the servers with an autodel_path
  file,       \* what is at the path
  used,       \* the files made so far
  orphans     \* those whose server died before it could delete them

sockets == <<open, bound, accepting>>
listenVars == <<doing, making, open, bound, accepting, listening, autodel, file, used, orphans>>

ListenTypeOK ==
  /\ doing \in [Servers -> {"none", "idle", "bind", "listen", "stop_close",
                         "stop_unlink", "dtor_close", "dtor_unlink"}]
  /\ making \in SUBSET Servers
  /\ open \in SUBSET Servers
  /\ bound \in [Servers -> Inodes \cup {NoInode}]
  /\ accepting \in SUBSET open
  /\ listening \in SUBSET Servers
  /\ autodel \in SUBSET Servers
  /\ file \in used \cup {NoInode}
  /\ used \in SUBSET Inodes
  /\ orphans \in SUBSET Inodes

ListenInit ==
  /\ doing = [s \in Servers |-> "none"]
  /\ making = {} /\ open = {} /\ accepting = {} /\ listening = {} /\ autodel = {}
  /\ bound = [s \in Servers |-> NoInode]
  /\ file = NoInode /\ used = {} /\ orphans = {}

-----------------------------------------------------------------------------
Goto(s, l) == doing' = [doing EXCEPT ![s] = l]

Used_AfterBind(s) == autodel
\* _addrt::use(SERVER): the path is remembered before anything is bound to it.
Used(s) == autodel \cup {s}

\* An exception out of listening_start(): if the constructor called it, the
\* destructors of the base classes run.
AfterFailure(s) == IF s \in making THEN "dtor_close" ELSE "idle"

\* autodel_path != NULL, when the destructor looks.
Unlinks(s) == s \in autodel

ListeningStopped_FlagKept(s) == listening
\* listening = false
ListeningStopped(s) == listening \ {s}

\* bind() needs a socket, which no file was made for yet, and a free path.
CanBind(s) == s \in open /\ file = NoInode /\ bound[s] = NoInode

-----------------------------------------------------------------------------
\* socket_server(addr): a new socket, not bound.
ConstructServer(s) ==
  /\ doing[s] = "none"
  /\ open' = open \cup {s}
  /\ Goto(s, "idle")
  /\ UNCHANGED <<making, bound, accepting, listening, autodel, file, used, orphans>>

\* socket_server(addr, listen_max, reuse): and listening_start() at once.
ConstructStarted(s) ==
  /\ doing[s] = "none"
  /\ open' = open \cup {s}
  /\ making' = making \cup {s}
  /\ autodel' = Used(s)
  /\ Goto(s, "bind")
  /\ UNCHANGED <<bound, accepting, listening, file, used, orphans>>

\* listening_start(), called by the program; refused while listening.
ListeningStart(s) ==
  /\ doing[s] = "idle" /\ s \notin listening
  /\ autodel' = Used(s)
  /\ Goto(s, "bind")
  /\ UNCHANGED <<making, sockets, listening, file, used, orphans>>

\* ::bind() makes the file, and fails if there is one.
BindOk(s) ==
  /\ doing[s] = "bind" /\ CanBind(s)
  /\ \E i \in Inodes \ used :
       /\ bound' = [bound EXCEPT ![s] = i]
       /\ file' = i
       /\ used' = used \cup {i}
  /\ Goto(s, "listen")
  /\ UNCHANGED <<making, open, accepting, listening, autodel, orphans>>

BindFails(s) ==
  /\ doing[s] = "bind" /\ ~CanBind(s)
  /\ Goto(s, AfterFailure(s))
  /\ UNCHANGED <<making, sockets, listening, autodel, file, used, orphans>>

ListenOk(s) ==
  /\ doing[s] = "listen"
  /\ accepting' = accepting \cup {s}
  /\ listening' = listening \cup {s}
  /\ making' = making \ {s}
  /\ Goto(s, "idle")
  /\ UNCHANGED <<open, bound, autodel, file, used, orphans>>

ListenFails(s) ==
  /\ doing[s] = "listen"
  /\ Goto(s, AfterFailure(s))
  /\ UNCHANGED <<making, sockets, listening, autodel, file, used, orphans>>

\* listening_stop(): del_sock_file() closes, unlinks and forgets the path; the
\* fd_close() that follows finds nothing to close.
ListeningStop(s) ==
  /\ doing[s] = "idle" /\ s \in listening
  /\ Goto(s, "stop_close")
  /\ UNCHANGED <<making, sockets, listening, autodel, file, used, orphans>>

StopClose(s) ==
  /\ doing[s] = "stop_close"
  /\ open' = open \ {s}
  /\ accepting' = accepting \ {s}
  /\ Goto(s, "stop_unlink")
  /\ UNCHANGED <<making, bound, listening, autodel, file, used, orphans>>

StopUnlink(s) ==
  /\ doing[s] = "stop_unlink"
  /\ file' = NoInode
  /\ bound' = [bound EXCEPT ![s] = NoInode]
  /\ autodel' = autodel \ {s}
  /\ listening' = ListeningStopped(s)
  /\ Goto(s, "idle")
  /\ UNCHANGED <<making, open, accepting, used, orphans>>

\* The object's lifetime ends.
Destroy(s) ==
  /\ doing[s] = "idle"
  /\ Goto(s, "dtor_close")
  /\ UNCHANGED <<making, sockets, listening, autodel, file, used, orphans>>

Gone(s) ==
  /\ making' = making \ {s}
  /\ listening' = listening \ {s}
  /\ autodel' = autodel \ {s}
  /\ bound' = [bound EXCEPT ![s] = NoInode]
  /\ Goto(s, "none")

\* ~base_unixsock closes, and unlinks if there is a path to delete.
DtorClose(s) ==
  /\ doing[s] = "dtor_close"
  /\ open' = open \ {s}
  /\ accepting' = accepting \ {s}
  /\ IF Unlinks(s)
       THEN Goto(s, "dtor_unlink") /\ UNCHANGED <<making, listening, autodel, bound>>
       ELSE Gone(s)
  /\ UNCHANGED <<file, used, orphans>>

DtorUnlink(s) ==
  /\ doing[s] = "dtor_unlink"
  /\ file' = NoInode
  /\ Gone(s)
  /\ UNCHANGED <<open, accepting, used, orphans>>

\* The process dies: its sockets are closed, its files stay.
Crash(s) ==
  /\ doing[s] # "none"
  /\ open' = open \ {s}
  /\ accepting' = accepting \ {s}
  /\ orphans' = orphans \cup ({bound[s]} \ {NoInode})
  /\ Gone(s)
  /\ UNCHANGED <<file, used>>

SystemCall(s) ==
  \/ BindOk(s) \/ BindFails(s) \/ ListenOk(s) \/ ListenFails(s)
  \/ StopClose(s) \/ StopUnlink(s) \/ DtorClose(s) \/ DtorUnlink(s)

ListenNext ==
  \E s \in Servers :
    \/ ConstructServer(s) \/ ConstructStarted(s) \/ ListeningStart(s)
    \/ ListeningStop(s) \/ Destroy(s)
    \/ SystemCall(s)
    \/ Crash(s)

ListenSpec == ListenInit /\ [][ListenNext]_listenVars

-----------------------------------------------------------------------------
\* The file at the path always has a server that will delete it, through failed
\* starts, stops and destructions of several servers in any order, unless that
\* server died; so none is left when the last one is gone
\* (base_unixsock.hpp:50-55, base_unixsock.cpp:40-57).
FileHasOwner ==
  file # NoInode =>
    file \in orphans \/ \E s \in Servers : bound[s] = file /\ s \in autodel

\* When no call is under way the flag that chkl() tests is the state of the
\* socket, whatever starts and stops failed before (socket_server.hpp:181-207).
FlagIsTrue ==
  \A s \in Servers : doing[s] = "idle" => (s \in listening <=> s \in accepting)
=============================================================================
