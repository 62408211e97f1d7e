---------------------------- MODULE ActivityLoop ----------------------------
(***************************************************************************)
(* _wait_activity_loop: one thread that waits for activity on the monitored*)
(* descriptors, on the listening socket and on the retained clients, and   *)
(* calls the program back.  The fd_set is made once and made again only    *)
(* when a callback returns POOL_RESCAN; a program that retains or releases *)
(* a client in a callback returns it (socket_server.hpp:254, 258).         *)
(*                                                                         *)
(* A client is the number of its descriptor; the kernel gives the lowest   *)
(* free one to the next connection.                                        *)
(***************************************************************************)
EXTENDS Integers, SequencesExt

CONSTANTS ClientFds,   \* the descriptors that clients can have
          Listener,    \* the listening socket
          Monitors,    \* the fds argument, in order
          Returns,     \* what the callbacks return when the list is unchanged
          Program,     \* what they do to it: "retain", "release"
          Start,       \* the clients retained before the loop is entered
          MaxQueue,    \* bounds the connections to be accepted
          PoolTimeout  \* whether pool_timeout is other than TIMEOUT_INF

ASSUME LoopAssumption ==
  /\ ClientFds \subseteq Nat
  /\ Monitors \in Seq(Nat \ ClientFds)
  /\ Listener \in Nat \ (ClientFds \union ToSet(Monitors))
  /\ Returns \subseteq {"continue", "rescan", "quit"} /\ Program \subseteq {"retain", "release"}
  /\ Start \in Seq(ClientFds) /\ IsInjective(Start)
  /\ MaxQueue \in Nat /\ PoolTimeout \in BOOLEAN

VARIABLES
  retained,  \* retained_clients
  queue,     \* how many connections wait to be accepted
  readable,  \* the other descriptors with something to read
  pc,        \* "idle", "rescan", "select", "monitors", "listener", "clients", or
             \* "failed" when select() was given a closed descriptor
  set,       \* the fd_set
  cpset,     \* its copy, after select()
  pos        \* the place in Monitors, or in retained_clients

\* Whether a connection has gone with its peer since select() (for the properties
\* only).
VARIABLE gone

vars == <<retained, queue, readable, pc, set, cpset, pos, gone>>

Open == ToSet(retained) \union {Listener} \union ToSet(Monitors)
Active == readable \union (IF queue > 0 THEN {Listener} ELSE {})

TypeOK ==
  /\ retained \in Seq(ClientFds) /\ IsInjective(retained)
  /\ queue \in 0..MaxQueue
  /\ readable \subseteq Open \ {Listener}
  /\ pc \in {"idle", "rescan", "select", "monitors", "listener", "clients", "failed"}
  /\ cpset \subseteq set
  /\ pos \in Nat
  /\ gone \in BOOLEAN

Init ==
  /\ retained = Start /\ queue = 0 /\ readable = {}
  /\ pc = "idle" /\ set = {} /\ cpset = {} /\ pos = 0
  /\ gone = FALSE

-----------------------------------------------------------------------------
\* clients_fill_fdset(), the listening socket and the monitored descriptors.
Filled == ToSet(retained) \union {Listener} \union ToSet(Monitors)

SetAfter_Select == set \intersect Active
\* select() changes a copy, so that the next one still waits for all of them.
SetAfter == set

\* Where a callback's result sends the loop, which goes on at next otherwise.
After(r, next) == CASE r = "continue" -> next [] r = "rescan" -> "rescan" [] r = "quit" -> "idle"

\* The descriptor that accept() returns.
Accepted == Min(ClientFds \ ToSet(retained))

NextReady_Any(list) == {i \in DOMAIN list : i > pos}
\* The places, after this one, of the descriptors that select() left in the set.
NextReady(list) == {i \in DOMAIN list : i > pos /\ list[i] \in cpset}

\* What a callback that has retained or released a client returns.
AfterChange == "rescan"

\* A peer connects; a client or a monitored descriptor has something to read.
Connect ==
  /\ queue < MaxQueue
  /\ queue' = queue + 1
  /\ UNCHANGED <<retained, readable, pc, set, cpset, pos, gone>>

\* A connection that nobody has accepted is reset by its peer.
Drop ==
  /\ queue > 0
  /\ queue' = queue - 1
  /\ gone' = TRUE
  /\ UNCHANGED <<retained, readable, pc, set, cpset, pos>>

Arrive ==
  /\ \E f \in (Open \ {Listener}) \ readable : readable' = readable \union {f}
  /\ UNCHANGED <<retained, queue, pc, set, cpset, pos, gone>>

\* wait_activity_loop() is called.
Enter ==
  /\ pc = "idle"
  /\ pc' = "rescan"
  /\ UNCHANGED <<retained, queue, readable, set, cpset, pos, gone>>

Rescan ==
  /\ pc = "rescan"
  /\ set' = Filled
  /\ cpset' = {}
  /\ pc' = "select"
  /\ UNCHANGED <<retained, queue, readable, pos, gone>>

\* select() returns, or fails if it is given a closed descriptor.
Select ==
  /\ pc = "select"
  /\ IF set \subseteq Open
       THEN /\ set \intersect Active # {}
            /\ cpset' = set \intersect Active
            /\ set' = SetAfter
            /\ pc' = "monitors"
       ELSE pc' = "failed" /\ UNCHANGED <<set, cpset>>
  /\ pos' = 0
  /\ gone' = FALSE
  /\ UNCHANGED <<retained, queue, readable>>

\* The timeout_event goes through the loop; the program may call it again.
Timeout ==
  /\ pc = "select" /\ PoolTimeout /\ set \subseteq Open /\ set \intersect Active = {}
  /\ pc' = "idle"
  /\ UNCHANGED <<retained, queue, readable, set, cpset, pos, gone>>

\* fd_activity_f reads what there is.
MonitorActivity ==
  /\ pc = "monitors" /\ NextReady(Monitors) # {}
  /\ LET i == Min(NextReady(Monitors))
     IN  /\ readable' = readable \ {Monitors[i]}
         /\ pos' = i
         /\ \E r \in Returns : pc' = After(r, "monitors")
  /\ UNCHANGED <<retained, queue, set, cpset, gone>>

MonitorsDone ==
  /\ pc = "monitors" /\ NextReady(Monitors) = {}
  /\ pc' = IF Listener \in cpset THEN "listener" ELSE "clients"
  /\ pos' = 0
  /\ UNCHANGED <<retained, queue, readable, set, cpset, gone>>

\* wait_new_client(), which blocks while the queue is empty, and new_client_f, which
\* drops the client or retains it.
NewClient ==
  /\ pc = "listener" /\ queue > 0 /\ ClientFds \ ToSet(retained) # {}
  /\ queue' = queue - 1
  /\ \/ /\ UNCHANGED retained
        /\ \E r \in Returns : pc' = After(r, "clients")
     \/ /\ "retain" \in Program
        /\ retained' = Append(retained, Accepted)
        /\ pc' = After(AfterChange, "clients")
  /\ UNCHANGED <<readable, set, cpset, pos, gone>>

\* accept() fails, by a signal, a connection that was reset, or because no descriptor
\* is left: its exception goes through the loop.
AcceptFails ==
  /\ pc = "listener"
  /\ pc' = "idle"
  /\ UNCHANGED <<retained, queue, readable, set, cpset, pos, gone>>

\* client_activity_f reads what there is, and may release the client.
ClientActivity ==
  /\ pc = "clients" /\ NextReady(retained) # {}
  /\ LET i == Min(NextReady(retained))
     IN  /\ readable' = readable \ {retained[i]}
         /\ pos' = i
         /\ \/ UNCHANGED retained /\ \E r \in Returns : pc' = After(r, "clients")
            \/ /\ "release" \in Program
               /\ retained' = RemoveAt(retained, i)
               /\ pc' = After(AfterChange, "clients")
  /\ UNCHANGED <<queue, set, cpset, gone>>

ClientsDone ==
  /\ pc = "clients" /\ NextReady(retained) = {}
  /\ pc' = "select"
  /\ UNCHANGED <<retained, queue, readable, set, cpset, pos, gone>>

Loop ==
  \/ Enter \/ Rescan \/ Select \/ Timeout \/ MonitorActivity \/ MonitorsDone
  \/ NewClient \/ ClientActivity \/ ClientsDone

Next == Connect \/ Drop \/ Arrive \/ AcceptFails \/ Loop

\* The loop's thread runs whenever it is not waiting; no accept() has to fail.
Spec == Init /\ [][Next]_vars /\ WF_vars(Loop)

-----------------------------------------------------------------------------
\* Whoever is retained is waited for, and nobody else: no client is forgotten,
\* no closed descriptor is given to select(), no number means another client
\* than the one it meant when the set was made (socket_server.hpp:254).
SetIsCurrent == pc \in {"select", "monitors", "listener", "clients"} => set = Open

\* The invariant of the loop; the list holds no client twice, and only open
\* descriptors are readable.
LoopInv == TypeOK /\ SetIsCurrent

\* Each descriptor that is given to a callback still has something to read, though it
\* was seen before the callbacks in between, so none of them blocks the loop
\* (socket_server.hpp:252, 257).  So is the connection to accept there, unless one
\* has gone since select(): accept() then blocks the loop (socket_server.hpp:339).
NothingBlocks ==
  [][/\ pc = "monitors" /\ pos' > pos => Monitors[pos'] \in readable
     /\ pc = "listener" => queue > 0 \/ gone
     /\ pc = "clients" /\ pos' > pos => retained[pos'] \in readable]_vars

\* A callback's POOL_RESCAN or POOL_QUIT, or the exception of accept(), ends a scan
\* before it has come to the clients that follow.
Abandons == pc \in {"monitors", "listener", "clients"} /\ pc' \in {"rescan", "idle"}
ScansEnd == <>[][~Abandons]_vars

\* Each accept() returns, as it does unless its connection was reset and no other
\* peer stays.
AcceptsReturn == []<>(pc # "listener")

\* "If activity occurs, cli_activity() is called" (socket_server.hpp:252), whatever
\* the other clients and descriptors send, if scans are not abandoned for ever and
\* no accept() blocks for ever.
AllServed ==
  \A f \in ClientFds :
    ScansEnd /\ AcceptsReturn =>
      ((f \in ToSet(retained) \intersect readable)
         ~> (f \notin ToSet(retained) \intersect readable))
=============================================================================
