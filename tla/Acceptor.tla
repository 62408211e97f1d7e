------------------------------ MODULE Acceptor ------------------------------
(***************************************************************************)
(* Threads that wait for new clients on one listening socket: with         *)
(* wait_new_client(), which calls accept(), or with its versions with a    *)
(* timeout or a descriptor that interrupts them, which call select() and   *)
(* then wait_new_client().  Time is counted in ticks, and passes only when *)
(* no thread has anything to do.  Connection adds the peers.               *)
(***************************************************************************)
EXTENDS Integers, SequencesExt

CONSTANTS Threads,
          Clients,        \* the peers, that connect once each
          NoClient,
          Version,        \* each thread's: "plain", "timeout" or "stoppable"
          PoolTimeout,    \* pool_timeout; -1 is TIMEOUT_INF
          IgnoreSignals,  \* the values of ignsig, for the stoppable version
          MaxSignals,     \* bounds the signals, and the failures of accept()
          SelectUpdates,  \* whether select() takes the time it waited off its timeout
          MaxTime         \* the waiting time is counted up to this

ASSUME AcceptorAssumption ==
  /\ NoClient \notin Clients
  /\ Version \in [Threads -> {"plain", "timeout", "stoppable"}]
  /\ PoolTimeout \in Nat \union {-1}
  /\ MaxSignals \in Nat /\ MaxTime \in Nat
  /\ IgnoreSignals \subseteq BOOLEAN /\ SelectUpdates \in BOOLEAN

VARIABLES
  came,     \* the peers that have connected
  pending,  \* the connections to be accepted
  stop,     \* whether the monitored descriptor can be read
  signals,  \* how many signals were caught, and calls of accept() have failed
  pc,       \* "idle", "select", "accept", or how the call ended: "client",
            \* "timeout", "stop" or "error"
  left,     \* what is left of each select()'s timeout
  waited,   \* for how long each has waited in select()
  client    \* what it returns

peers == <<came, pending>>
threads == <<pc, left, waited, client>>
vars == <<came, pending, stop, signals, pc, left, waited, client>>

Waiting == {"select", "accept"}
Over == {"client", "timeout", "stop", "error"}

TypeOK ==
  /\ pending \subseteq came /\ came \subseteq Clients
  /\ stop \in BOOLEAN
  /\ signals \in 0..MaxSignals
  /\ pc \in [Threads -> {"idle"} \union Waiting \union Over]
  /\ left \in [Threads -> -1..PoolTimeout]
  /\ waited \in [Threads -> 0..MaxTime]
  /\ client \in [Threads -> Clients \union {NoClient}]
  /\ \A t \in Threads : pc[t] = "client" <=> client[t] # NoClient

Init ==
  /\ came = {} /\ pending = {} /\ stop = FALSE /\ signals = 0
  /\ pc = [t \in Threads |-> "idle"]
  /\ left = [t \in Threads |-> -1]
  /\ waited = [t \in Threads |-> 0]
  /\ client = [t \in Threads |-> NoClient]

-----------------------------------------------------------------------------
Stopped_NotInSet(t) == FALSE
\* What makes select() return early, and what makes it return at all.
Stopped(t) == Version[t] = "stoppable" /\ stop
Ready(t) == pending # {} \/ Stopped(t)

\* The plain version does not call select().
First(t) == IF Version[t] = "plain" THEN "accept" ELSE "select"

\* The monitored descriptor has priority.
AfterSelect(t) == IF Stopped(t) THEN "stop" ELSE "accept"

\* A call may have any ignsig until it meets a signal.
Ignores(t) == IF Version[t] = "timeout" THEN {TRUE} ELSE IgnoreSignals

\* The timeout that select() is called with again is what it left of it.
LeftAfterSignal(t) == IF SelectUpdates THEN left[t] ELSE PoolTimeout

TimedOut_Never(t) == FALSE
TimedOut(t) == left[t] = 0 /\ ~Ready(t)

\* accept() takes the connection from the queue.
Taken(c) == pending \ {c}

\* What is left of the client's object when the caller is done with it.
Released(t) == NoClient

-----------------------------------------------------------------------------
Stop == ~stop /\ stop' = TRUE /\ UNCHANGED <<peers, signals, threads>>

Call(t) ==
  /\ pc[t] = "idle"
  /\ pc' = [pc EXCEPT ![t] = First(t)]
  /\ left' = [left EXCEPT ![t] = IF First(t) = "select" THEN PoolTimeout ELSE -1]
  /\ UNCHANGED <<peers, stop, signals, waited, client>>

\* select() is over, and with it its timeout.
Waited(t, next) ==
  /\ pc' = [pc EXCEPT ![t] = next]
  /\ left' = [left EXCEPT ![t] = -1] /\ waited' = [waited EXCEPT ![t] = 0]

Select(t) ==
  /\ pc[t] = "select" /\ Ready(t)
  /\ Waited(t, AfterSelect(t))
  /\ UNCHANGED <<peers, stop, signals, client>>

SelectTimesOut(t) ==
  /\ pc[t] = "select" /\ TimedOut(t)
  /\ Waited(t, "timeout")
  /\ UNCHANGED <<peers, stop, signals, client>>

\* select() is interrupted by a signal: it is called again, or throws.
Signal(t) ==
  /\ pc[t] = "select" /\ ~Ready(t) /\ left[t] # 0 /\ signals < MaxSignals
  /\ signals' = signals + 1
  /\ \/ /\ TRUE \in Ignores(t)
        /\ left' = [left EXCEPT ![t] = LeftAfterSignal(t)] /\ UNCHANGED <<pc, waited>>
     \/ FALSE \in Ignores(t) /\ Waited(t, "error")
  /\ UNCHANGED <<peers, stop, client>>

\* wait_new_client(): accept() blocks until there is a connection.
Accept(t) ==
  /\ pc[t] = "accept"
  /\ \E c \in pending : pending' = Taken(c) /\ client' = [client EXCEPT ![t] = c]
  /\ pc' = [pc EXCEPT ![t] = "client"]
  /\ UNCHANGED <<came, stop, signals, left, waited>>

\* accept() fails: a signal, a connection that was aborted, no descriptor left.
AcceptFails(t) ==
  /\ pc[t] = "accept" /\ signals < MaxSignals
  /\ signals' = signals + 1
  /\ pc' = [pc EXCEPT ![t] = "error"]
  /\ UNCHANGED <<peers, stop, left, waited, client>>

\* The call is over, and its caller done with the client it was given; a thread
\* that was interrupted does not call again.
Return(t) ==
  /\ pc[t] \in Over \ {"stop"}
  /\ pc' = [pc EXCEPT ![t] = "idle"]
  /\ client' = [client EXCEPT ![t] = Released(t)]
  /\ UNCHANGED <<peers, stop, signals, left, waited>>

Step(t) == Select(t) \/ SelectTimesOut(t) \/ Accept(t) \/ Return(t)

\* Time passes for the threads that wait.
Tick ==
  /\ \A t \in Threads :
       /\ pc[t] \notin Over \ {"stop"}
       /\ pc[t] = "select" => ~Ready(t) /\ ~TimedOut(t)
       /\ pc[t] = "accept" => pending = {}
  /\ left' = [t \in Threads |-> IF pc[t] = "select" /\ left[t] > 0 THEN left[t] - 1 ELSE left[t]]
  /\ waited' = [t \in Threads |-> IF pc[t] = "select" /\ waited[t] < MaxTime THEN waited[t] + 1 ELSE waited[t]]
  /\ UNCHANGED <<peers, stop, signals, pc, client>>

-----------------------------------------------------------------------------
\* The connection that select() saw has gone, to another thread or with its peer.
Lost(t) == pc[t] = "accept" /\ pending = {}

\* The monitored descriptor interrupts the call, or the next one
\* (socket_server.hpp:233), though connections go on coming, unless accept()
\* blocks because the one that select() saw has gone.
StopIsHeard ==
  \A t \in {u \in Threads : Version[u] = "stoppable"} :
    (pc[t] \in Waiting /\ stop) ~> (pc[t] = "stop" \/ Lost(t))

\* No two calls return the same connection, and none is returned that is still
\* in the queue (socket_server.hpp:229-235).
OneOwner ==
  /\ \A t \in Threads : client[t] \notin pending
  /\ \A t, u \in Threads : client[t] = client[u] /\ client[t] # NoClient => t = u
=============================================================================
