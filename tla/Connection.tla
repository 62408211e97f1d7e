----------------------------- MODULE Connection -----------------------------
(***************************************************************************)
(* Both ends of connections: programs that construct a socket_client, with *)
(* or without a timeout, and the threads of Acceptor that wait for them.   *)
(* The kernel between them completes connections while its queue has room, *)
(* and refuses them or stays silent where nobody listens.                  *)
(***************************************************************************)
EXTENDS Acceptor, NetAddress

CONSTANTS Addresses,   \* the strings that the programs give
          Server,      \* where the server listens
          MaxWaits,    \* the values of max_wait; -1 is TIMEOUT_INF
          Backlog,     \* listen_max
          PeersGiveUp  \* whether a connection may go before it is accepted

ASSUME ConnectionAssumption ==
  /\ Addresses \subseteq Strings
  /\ MaxWaits \subseteq -1..(MaxTime - 1)
  /\ Backlog \in Nat \ {0}
  /\ PeersGiveUp \in BOOLEAN

VARIABLES
  at,       \* where the constructor is: "none", "resolve", "socket", "connect",
            \* "select", or how it ended: "done", "address", "refused",
            \* "timeout", "signal"
  to,       \* the address it has made
  maxWait,  \* max_wait
  cleft,    \* what is left of select()'s timeout
  cwaited,  \* for how long it has waited
  link,     \* its socket: "none", "trying", "up", "refused", "closed"
  blocking, \* whether O_NONBLOCK is clear
  hostent,  \* the one result of gethostbyname()
  overtaken \* history: who has not copied it yet since another called gethostbyname()

locals == <<to, maxWait, cleft, cwaited>>
resolver == <<hostent, overtaken>>
clientVars == <<at, to, maxWait, cleft, cwaited, link, blocking, hostent, overtaken>>
connVars == <<came, pending, stop, signals, pc, left, waited, client, at, to,
              maxWait, cleft, cwaited, link, blocking, hostent, overtaken>>

Trying == {"connect", "select"}
Thrown == {"address", "refused", "timeout", "signal"}

ConnTypeOK ==
  /\ TypeOK
  /\ at \in [Clients -> {"none", "resolve", "socket", "done"} \union Trying \union Thrown]
  /\ link \in [Clients -> {"none", "trying", "up", "refused", "closed"}]
  /\ maxWait \in [Clients -> MaxWaits \union {-1}]
  /\ cleft \in [Clients -> -1..MaxTime] /\ cwaited \in [Clients -> 0..MaxTime]
  /\ blocking \in [Clients -> BOOLEAN]

ConnInit ==
  /\ Init
  /\ at = [c \in Clients |-> "none"]
  /\ to = [c \in Clients |-> BadAddr]
  /\ maxWait = [c \in Clients |-> -1]
  /\ cleft = [c \in Clients |-> -1] /\ cwaited = [c \in Clients |-> 0]
  /\ link = [c \in Clients |-> "none"]
  /\ blocking = [c \in Clients |-> TRUE]
  /\ hostent = <<>> /\ overtaken = {}

-----------------------------------------------------------------------------
Put(f, c, x) == [f EXCEPT ![c] = x]

Answered(c) == link[c] \in {"up", "refused"}
HasRoom == Cardinality(pending) < Backlog
Reaches(c) == to[c] = Server

\* The constructor returns or throws; if it throws, ~base_socket closes the socket.
Ends(c, how) ==
  /\ at' = Put(at, c, how)
  /\ to' = Put(to, c, BadAddr)
  /\ maxWait' = Put(maxWait, c, -1)
  /\ cleft' = Put(cleft, c, -1) /\ cwaited' = Put(cwaited, c, 0)
  /\ link' = Put(link, c, IF how = "done" THEN link[c] ELSE "closed")

\* base_netsock::addr_info(default_port, addr_str): a name is still to be resolved.
Construct(c) ==
  /\ at[c] = "none"
  /\ \E s \in Addresses :
       IF Parsed(s) = BadAddr
         THEN Ends(c, "address") /\ UNCHANGED resolver
         ELSE /\ to' = Put(to, c, Address(HostOf(s), PortOf(s)))
              /\ IF HostOf(s) \in Numeric
                   THEN at' = Put(at, c, "socket") /\ UNCHANGED resolver
                   ELSE /\ hostent' = Resolved(HostOf(s)) /\ at' = Put(at, c, "resolve")
                        /\ overtaken' = overtaken \union {d \in Clients : at[d] = "resolve"}
              /\ maxWait' \in {Put(maxWait, c, w) : w \in MaxWaits}
              /\ UNCHANGED <<cleft, cwaited, link>>
  /\ UNCHANGED <<vars, blocking>>

\* _resolve_hostname() copies the address out of gethostbyname()'s result.
ReadHost(c) ==
  /\ at[c] = "resolve"
  /\ to' = Put(to, c, Address(hostent, to[c].port))
  /\ at' = Put(at, c, "socket")
  /\ overtaken' = overtaken \ {c}
  /\ UNCHANGED <<vars, maxWait, cleft, cwaited, link, blocking, hostent>>

\* connect() without a timeout.
Connecting(c) ==
  /\ at[c] = "socket" /\ maxWait[c] = -1
  /\ at' = Put(at, c, "connect")
  /\ link' = Put(link, c, "trying")
  /\ UNCHANGED <<vars, locals, blocking, resolver>>

\* fnctl_flags &= ~O_NONBLOCK
FlagsAfter == TRUE

\* connect_timeout(): connect() with O_NONBLOCK, which may be refused at once.
ConnectingTimed(c) ==
  /\ at[c] = "socket" /\ maxWait[c] # -1
  /\ blocking' = Put(blocking, c, FlagsAfter)
  /\ \/ /\ at' = Put(at, c, "select") /\ link' = Put(link, c, "trying")
        /\ cleft' = Put(cleft, c, maxWait[c])
        /\ UNCHANGED <<to, maxWait, cwaited>>
     \/ ~Reaches(c) /\ Ends(c, "refused")
  /\ UNCHANGED <<vars, resolver>>

\* The kernel completes the connection, or its refusal comes back.
Queued(c) ==
  /\ Reaches(c) /\ HasRoom
  /\ came' = came \union {c} /\ pending' = pending \union {c}

Establish(c) ==
  /\ link[c] = "trying" /\ Queued(c)
  /\ link' = Put(link, c, "up")
  /\ UNCHANGED <<stop, signals, threads, at, locals, blocking, resolver>>

Refuse(c) ==
  /\ link[c] = "trying" /\ ~Reaches(c)
  /\ link' = Put(link, c, "refused")
  /\ UNCHANGED <<vars, at, locals, blocking, resolver>>

SoError_Ignored(c) == at[c] = "connect" /\ link[c] = "refused"
\* The result of connect(), or SO_ERROR, without which select() tells no failure.
SoError(c) == link[c] = "refused"

\* connect() or select() returns.
Connected(c) ==
  /\ at[c] \in Trying /\ Answered(c)
  /\ Ends(c, IF SoError(c) THEN "refused" ELSE "done")
  /\ UNCHANGED <<vars, blocking, resolver>>

\* select() returns 0: the connection may be on its way by then, and the server
\* gets it though the client has closed it.
ConnectTimesOut(c) ==
  /\ at[c] = "select" /\ cleft[c] = 0 /\ ~Answered(c)
  /\ Ends(c, "timeout")
  /\ UNCHANGED peers \/ Queued(c)
  /\ UNCHANGED <<stop, signals, threads, blocking, resolver>>

LeftOnRedo_Restarted(c) == maxWait[c]
\* The same timeval is used again, of which select() has left what it left.
LeftOnRedo(c) == IF SelectUpdates THEN cleft[c] ELSE maxWait[c]

\* A signal interrupts connect(), which throws, or select(), which is redone.
ConnectSignal(c) ==
  /\ signals < MaxSignals /\ ~Answered(c)
  /\ signals' = signals + 1
  /\ \/ at[c] = "connect" /\ Ends(c, "signal")
     \/ /\ at[c] = "select" /\ cleft[c] # 0
        /\ cleft' = Put(cleft, c, LeftOnRedo(c))
        /\ UNCHANGED <<at, to, maxWait, cwaited, link>>
  /\ UNCHANGED <<peers, stop, threads, blocking, resolver>>

\* The program destroys its socket.
Leave(c) ==
  /\ at[c] = "done" /\ link[c] = "up"
  /\ link' = Put(link, c, "closed")
  /\ UNCHANGED <<vars, at, locals, blocking, resolver>>

\* The kernel drops from the queue a connection that its client has reset.
Drop(c) ==
  /\ PeersGiveUp /\ c \in pending /\ link[c] = "closed"
  /\ pending' = pending \ {c}
  /\ UNCHANGED <<came, stop, signals, threads, clientVars>>

-----------------------------------------------------------------------------
ConnectStep(c) ==
  ReadHost(c) \/ Connecting(c) \/ ConnectingTimed(c) \/ Connected(c) \/ ConnectTimesOut(c)

\* The constructor has something to do at once.
Busy(c) ==
  \/ at[c] \in {"resolve", "socket"}
  \/ at[c] \in Trying /\ Answered(c)
  \/ at[c] = "select" /\ cleft[c] = 0

BothTick ==
  /\ Tick
  /\ \A c \in Clients : ~Busy(c)
  /\ cleft' = [c \in Clients |-> IF at[c] = "select" THEN cleft[c] - 1 ELSE cleft[c]]
  /\ cwaited' = [c \in Clients |-> IF at[c] = "select" /\ cwaited[c] < MaxTime THEN cwaited[c] + 1 ELSE cwaited[c]]
  /\ UNCHANGED <<at, to, maxWait, link, blocking, resolver>>

ThreadStep(t) == (Call(t) \/ Step(t)) /\ UNCHANGED clientVars

ConnNext ==
  \/ \E c \in Clients :
       \/ Construct(c) \/ ConnectStep(c) \/ ConnectSignal(c) \/ Leave(c)
       \/ Establish(c) \/ Refuse(c) \/ Drop(c)
  \/ \E t \in Threads : ThreadStep(t) \/ ((Signal(t) \/ AcceptFails(t)) /\ UNCHANGED clientVars)
  \/ Stop /\ UNCHANGED clientVars
  \/ BothTick

ConnSpec ==
  /\ ConnInit /\ [][ConnNext]_connVars
  /\ WF_connVars(BothTick)
  /\ \A t \in Threads : WF_connVars(ThreadStep(t))
  /\ \A c \in Clients : WF_connVars(ConnectStep(c))

-----------------------------------------------------------------------------
\* A string of the documented form gives the host and the port that it means, or
\* an exception (base_inet.cpp:42-69, base_inet.hpp:84); the address is that of the
\* name that was given (base_inet.cpp:20-26), though others resolve theirs at the
\* same time: unless one of them called gethostbyname() before it was copied.  Then
\* it may be the other's, and nothing is said.
AddressIsMeant ==
  [][/\ ParsesAsMeant
     /\ \A c \in Clients :
          at[c] = "resolve" /\ at'[c] # "resolve" /\ c \notin overtaken =>
            to'[c].host = Resolved(to[c].host)]_connVars

\* What the constructor tells is so: if it returns, the server has the connection
\* and the socket blocks as others do; if it throws, it was refused, interrupted,
\* or has waited as long as it was told to (socket_client.cpp:15-50).
ConstructorTells ==
  [][\A c \in Clients : at'[c] # at[c] =>
       /\ at'[c] = "done" => c \in came /\ Reaches(c) /\ blocking'[c]
       /\ at'[c] = "refused" => ~Reaches(c)
       /\ at'[c] = "signal" => maxWait[c] = -1 /\ signals' > 0
       /\ at'[c] = "timeout" => maxWait[c] # -1 /\ cwaited[c] >= maxWait[c]]_connVars

\* No end waits for longer than its timeout, however many signals interrupt it
\* (socket_server.hpp:225, 231, socket_client.hpp:102).  The accept() after the
\* server's wait has none.
BothWaitAtMost ==
  /\ \A t \in Threads : pc[t] = "select" /\ PoolTimeout # -1 => waited[t] <= PoolTimeout
  /\ \A c \in Clients : at[c] = "select" => cwaited[c] <= maxWait[c]

\* Nor does any wait for ever that has a timeout: the call ends, its accept()
\* included, unless the connection has gone by then (socket_server.cpp:61,
\* socket_server.hpp:231-235, socket_client.cpp:33-36).
TimesOut ==
  /\ \A t \in {u \in Threads : Version[u] # "plain" /\ PoolTimeout # -1} :
       pc[t] = "select" ~> pc[t] \notin Waiting \/ Lost(t)
  /\ \A c \in Clients : at[c] = "select" ~> at[c] # "select"
=============================================================================
