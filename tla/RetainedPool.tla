---------------------------- MODULE RetainedPool ----------------------------
(***************************************************************************)
(* The retained clients of a socket_server and the threads that use them:  *)
(* retain_client, release_client, wait_new_client, wait_client_activity    *)
(* and its fair version, wait_new_client_retained, and clients_foreach,    *)
(* which takes no lock.                                                    *)
(*                                                                         *)
(* The list is protected by a pthread mutex initialised with               *)
(* PTHREAD_MUTEX_INITIALIZER, which three of the methods lock twice: once  *)
(* themselves and once in the method they call.  What the second lock does *)
(* depends on the kind of mutex the platform makes by default, hence the   *)
(* constant MutexKind.  The mutex is held during select() and accept().    *)
(*                                                                         *)
(* A client stands for its connection, its object and the iterator to it.  *)
(***************************************************************************)
EXTENDS Naturals, SequencesExt

CONSTANTS Threads,
          Clients,      \* each connects at most once
          NoThread,
          NoClient,
          MutexKind,    \* "normal", "errorcheck" or "recursive"
          Pollers,      \* the threads that wait for client activity
          Ops,          \* the public methods that the program calls
          PoolTimeout   \* whether pool_timeout is other than TIMEOUT_INF

\* The methods that lock the mutex.
Methods == {"retain", "release", "accept", "activity", "fair"}

ASSUME PoolAssumption ==
  /\ NoThread \notin Threads
  /\ NoClient \notin Clients
  /\ MutexKind \in {"normal", "errorcheck", "recursive"}
  /\ Pollers \subseteq Threads
  /\ Ops \subseteq Methods \cup {"foreach"}
  /\ PoolTimeout \in BOOLEAN

VARIABLES
  owner,     \* the thread that holds the mutex
  depth,     \* how many times it does
  retained,  \* retained_clients
  pending,   \* connections to be accepted
  known,     \* the clients that have connected so far
  readable,  \* the connections with something to read
  pc,        \* the next step of each thread
  op,        \* the method each thread is in
  it,        \* the client each thread is about
  set        \* the fd_set of each thread

mutex == <<owner, depth>>
network == <<pending, known, readable>>
vars == <<owner, depth, retained, pending, known, readable, pc, op, it, set>>

Outer == {"lock", "insert", "erase", "accept", "splice", "unlock"}
Inner == {"relock", "fill", "select", "scan", "reinsert", "reunlock"}

TypeOK ==
  /\ owner \in Threads \cup {NoThread}
  /\ depth \in Nat
  /\ retained \in Seq(Clients)
  /\ pending \in SUBSET Clients
  /\ known \in SUBSET Clients
  /\ readable \in SUBSET Clients
  /\ pc \in [Threads -> {"idle", "holding", "using", "each", "no_return", "undefined"} \cup Outer \cup Inner]
  /\ op \in [Threads -> Methods]
  /\ it \in [Threads -> Clients \cup {NoClient}]
  /\ set \in [Threads -> SUBSET Clients]

Init ==
  /\ owner = NoThread /\ depth = 0
  /\ retained = <<>>
  /\ pending = {} /\ known = {} /\ readable = {}
  /\ pc = [t \in Threads |-> "idle"]
  /\ op = [t \in Threads |-> "retain"]
  /\ it = [t \in Threads |-> NoClient]
  /\ set = [t \in Threads |-> {}]

-----------------------------------------------------------------------------
Goto(t, l) == pc' = [pc EXCEPT ![t] = l]

Lock_Missing(t) == UNCHANGED mutex
\* ::pthread_mutex_lock(), its result ignored.  Locking its own mutex again
\* stops a thread for good, or fails, or is counted.
Lock(t) ==
  \/ owner = NoThread /\ owner' = t /\ depth' = 1
  \/ owner = t /\ MutexKind = "errorcheck" /\ UNCHANGED mutex
  \/ owner = t /\ MutexKind = "recursive" /\ depth' = depth + 1 /\ UNCHANGED owner

Unlock_Once(t) ==
  \/ owner # t /\ UNCHANGED mutex
  \/ owner = t /\ owner' = NoThread /\ depth' = 0
\* ::pthread_mutex_unlock(), its result ignored: it fails if t does not own it.
Unlock(t) ==
  \/ owner # t /\ UNCHANGED mutex
  \/ owner = t /\ depth' = depth - 1
     /\ owner' = IF depth = 1 THEN NoThread ELSE owner

\* What a method does with the mutex held.
AfterLock(t) ==
  CASE op[t] = "retain" -> "insert"
    [] op[t] = "release" -> "erase"
    [] op[t] = "accept" -> "accept"
    [] op[t] \in {"activity", "fair"} -> "relock"

AfterRelock_NoFill(t) == IF op[t] = "accept" THEN "reinsert" ELSE "select"
\* What the method it calls does once it has locked the mutex again.
AfterRelock(t) == IF op[t] = "accept" THEN "reinsert" ELSE "fill"

AfterReunlock_Unfair(t) == "unlock"
\* Only the fair version, if no exception is on its way, has more to do.
AfterReunlock(t) == IF op[t] = "fair" /\ it[t] # NoClient THEN "splice" ELSE "unlock"

\* The first client of the list that select() left in the set.
FirstAwake(t) ==
  LET awake == {i \in DOMAIN retained : retained[i] \in set[t]}
  IN  IF awake = {} THEN NoClient ELSE retained[Min(awake)]

\* Where an iterator to c points.
PlaceOf(c) == CHOOSE i \in DOMAIN retained : retained[i] = c

\* retained_clients.erase(it)
Erased(c) == RemoveAt(retained, PlaceOf(c))

\* retained_clients.splice(retained_clients.end(), retained_clients, it)
Moved(c) == Append(Erased(c), c)

\* A poller is given an iterator, unless it timed out; what the other methods
\* return is not kept.
Returned(t) == op[t] \in {"activity", "fair"} /\ it[t] # NoClient

-----------------------------------------------------------------------------
\* A peer connects; the kernel queues the connection.
Connect(c) ==
  /\ c \notin known
  /\ known' = known \cup {c}
  /\ pending' = pending \cup {c}
  /\ UNCHANGED <<mutex, retained, readable, pc, op, it, set>>

\* A peer sends something, or closes.
Arrive(c) ==
  /\ c \in known \ readable
  /\ readable' = readable \cup {c}
  /\ UNCHANGED <<mutex, retained, pending, known, pc, op, it, set>>

\* wait_new_client() takes no lock.
WaitNewClient(t) ==
  /\ pc[t] = "idle" /\ "retain" \in Ops
  /\ \E c \in pending :
       /\ pending' = pending \ {c}
       /\ it' = [it EXCEPT ![t] = c]
  /\ Goto(t, "holding")
  /\ UNCHANGED <<mutex, retained, known, readable, op, set>>

\* A thread calls a method that starts with _mutex_lock _m(mutex).  The server listens:
\* where it does not, chkl() throws and nothing has happened.
Call(t, o) ==
  /\ o \in Ops
  /\ \/ o = "retain" /\ pc[t] = "holding"
     \/ o = "release" /\ pc[t] = "using"
     \/ o = "accept" /\ pc[t] = "idle"
     \/ o \in {"activity", "fair"} /\ pc[t] = "idle" /\ t \in Pollers
  /\ op' = [op EXCEPT ![t] = o]
  /\ Goto(t, "lock")
  /\ UNCHANGED <<mutex, retained, network, it, set>>

\* The first lock of the method.
LockList(t) ==
  /\ pc[t] = "lock"
  /\ Lock(t)
  /\ Goto(t, AfterLock(t))
  /\ UNCHANGED <<retained, network, op, it, set>>

\* The second lock, in _wait_client_activity() or retain_client().
RelockList(t) ==
  /\ pc[t] = "relock"
  /\ Lock(t)
  /\ Goto(t, AfterRelock(t))
  /\ UNCHANGED <<retained, network, op, it, set>>

\* retain_client(), called by the program or by wait_new_client_retained().
Retain(t) ==
  /\ pc[t] \in {"insert", "reinsert"}
  /\ retained' = Append(retained, it[t])
  /\ Goto(t, IF pc[t] = "insert" THEN "unlock" ELSE "reunlock")
  /\ UNCHANGED <<mutex, network, op, it, set>>

\* What a thread does to the list with an iterator: not defined if the client is
\* no longer there, and not followed further.
WithIterator(t, list) ==
  IF it[t] \in ToSet(retained)
    THEN retained' = list /\ Goto(t, "unlock")
    ELSE UNCHANGED retained /\ Goto(t, "undefined")

\* clients_foreach(): the callback is called with the first client ...
Foreach(t) ==
  /\ "foreach" \in Ops
  /\ pc[t] = "idle" /\ retained # <<>>
  /\ it' = [it EXCEPT ![t] = Head(retained)]
  /\ Goto(t, "each")
  /\ UNCHANGED <<mutex, retained, network, op, set>>

\* The client after it[t] in the list, if there is one.
NextOf(t) ==
  LET i == PlaceOf(it[t])
  IN  IF i = Len(retained) THEN NoClient ELSE retained[i + 1]

\* ... and returns; POOL_QUIT ends the iteration, and so does the end of the list,
\* as other threads have left it.
ForeachNext(t) ==
  /\ pc[t] = "each"
  /\ \/ it[t] \notin ToSet(retained) /\ Goto(t, "undefined") /\ UNCHANGED it
     \/ /\ it[t] \in ToSet(retained)
        /\ it' \in {[it EXCEPT ![t] = c] : c \in {NextOf(t), NoClient}}
        /\ Goto(t, IF it'[t] = NoClient THEN "idle" ELSE "each")
  /\ UNCHANGED <<mutex, retained, network, op, set>>

\* release_client(): the list's copy of the client is destroyed.
Release(t) ==
  /\ pc[t] = "erase"
  /\ WithIterator(t, Erased(it[t]))
  /\ UNCHANGED <<mutex, network, op, it, set>>

\* wait_new_client_retained() accepts with the mutex held, for as long as no
\* peer connects.  (As it is written it gives a temporary to retain_client(client&),
\* which no compiler takes: this is the method with a name for the client.)
AcceptLocked(t) ==
  /\ pc[t] = "accept"
  /\ \E c \in pending :
       /\ pending' = pending \ {c}
       /\ it' = [it EXCEPT ![t] = c]
  /\ Goto(t, "relock")
  /\ UNCHANGED <<mutex, retained, known, readable, op, set>>

\* accept() throws, and the lock is undone on the way of the exception.
AcceptLockedFails(t) ==
  /\ pc[t] = "accept"
  /\ Goto(t, "unlock")
  /\ UNCHANGED <<mutex, retained, network, op, it, set>>

\* clients_fill_fdset()
FillFdSet(t) ==
  /\ pc[t] = "fill"
  /\ set' = [set EXCEPT ![t] = ToSet(retained)]
  /\ Goto(t, "select")
  /\ UNCHANGED <<mutex, retained, network, op, it>>

\* _select() returns when a client of the set can be read ...
SelectReady(t) ==
  /\ pc[t] = "select"
  /\ set[t] \cap readable # {}
  /\ set' = [set EXCEPT ![t] = @ \cap readable]
  /\ Goto(t, "scan")
  /\ UNCHANGED <<mutex, retained, network, op, it>>

\* ... or throws a timeout_event, and the two locks are undone on its way.
SelectTimeout(t) ==
  /\ pc[t] = "select"
  /\ PoolTimeout
  /\ set[t] \cap readable = {}
  /\ set' = [set EXCEPT ![t] = {}]
  /\ it' = [it EXCEPT ![t] = NoClient]
  /\ Goto(t, "reunlock")
  /\ UNCHANGED <<mutex, retained, network, op>>

\* The loop that returns the first client of the list that is in the set.  If
\* there is none it runs off the end of a function that returns an iterator.
Scan(t) ==
  /\ pc[t] = "scan"
  /\ it' = [it EXCEPT ![t] = FirstAwake(t)]
  /\ set' = [set EXCEPT ![t] = {}]
  /\ Goto(t, IF it'[t] = NoClient THEN "no_return" ELSE "reunlock")
  /\ UNCHANGED <<mutex, retained, network, op>>

\* The end of the method that was called.
ReunlockList(t) ==
  /\ pc[t] = "reunlock"
  /\ Unlock(t)
  /\ Goto(t, AfterReunlock(t))
  /\ UNCHANGED <<retained, network, op, it, set>>

\* wait_client_activity_fair() moves the client to the end of the list.
Splice(t) ==
  /\ pc[t] = "splice"
  /\ WithIterator(t, Moved(it[t]))
  /\ UNCHANGED <<mutex, network, op, it, set>>

\* The end of the method.
UnlockList(t) ==
  /\ pc[t] = "unlock"
  /\ Unlock(t)
  /\ Goto(t, IF Returned(t) THEN "using" ELSE "idle")
  /\ it' = IF Returned(t) THEN it ELSE [it EXCEPT ![t] = NoClient]
  /\ UNCHANGED <<retained, network, op, set>>

\* The program reads what made the client awake, and waits for the next one.
Handle(t) ==
  /\ pc[t] = "using"
  /\ readable' = readable \ {it[t]}
  /\ it' = [it EXCEPT ![t] = NoClient]
  /\ Goto(t, "idle")
  /\ UNCHANGED <<mutex, retained, pending, known, op, set>>

Step(t) ==
  \/ LockList(t) \/ RelockList(t) \/ Retain(t) \/ Release(t) \/ AcceptLocked(t)
  \/ FillFdSet(t) \/ SelectReady(t) \/ SelectTimeout(t) \/ Scan(t)
  \/ ReunlockList(t) \/ Splice(t) \/ UnlockList(t) \/ Handle(t) \/ ForeachNext(t)

Next ==
  \/ \E c \in Clients : Connect(c) \/ Arrive(c)
  \/ \E t \in Threads : \/ WaitNewClient(t) \/ Foreach(t) \/ AcceptLockedFails(t) \/ Step(t)
                       \/ \E o \in Methods : Call(t, o)

\* A thread inside a method, or done with it, runs as soon as nothing blocks it; no
\* accept() has to fail.
Spec == Init /\ [][Next]_vars /\ \A t \in Threads : WF_vars(Step(t))

-----------------------------------------------------------------------------
\* The list is only changed by the thread that holds the mutex: no splice or
\* erase meets another one, whatever the nested locks did
\* (socket_server.hpp:156, 221-223, 250).
ListProtected ==
  [][retained' # retained => owner \in Threads /\ pc'[owner] # pc[owner]]_vars

\* While a thread waits in select() or scans what it returned, the list is the
\* one its set was made from: the scan finds a client, and never a copied or a
\* released one (socket_server.hpp:304-307).
ScanSeesItsList ==
  \A t \in Threads :
    /\ pc[t] \in {"select", "scan"} => set[t] \subseteq ToSet(retained)
    /\ pc[t] = "scan" => set[t] # {}
    /\ pc[t] # "no_return"

\* Where a thread counts on the mutex: from the first lock of a method to its end.
Inside == (Outer \ {"lock"}) \cup Inner \cup {"no_return"}

\* The first unlock of a method that has locked an error-checking mutex twice gives it
\* up: the second lock had failed.
GivenUp(t) ==
  /\ MutexKind = "errorcheck"
  /\ op[t] \in {"accept", "activity", "fair"} /\ pc[t] \in {"splice", "unlock"}

\* A thread that counts on the mutex holds it, through the nested locks and unlocks
\* (socket_server.hpp:230, 248, 250, 302); and nobody is left waiting for it by a thread
\* that has returned.
MutexIsHeldInside ==
  /\ \A t \in Threads : pc[t] \in Inside /\ ~GivenUp(t) => owner = t
  /\ owner # NoThread => pc[owner] \in Inside \cup {"undefined"}

\* The invariant of the list and its pollers.
PoolInv == TypeOK /\ ScanSeesItsList /\ MutexIsHeldInside

\* From the scan to the end of the method the client found stays in the list: the
\* fair version never moves an element that was erased, though the method it
\* called has already unlocked the mutex once (socket_server.hpp:250, 302-307).
\* After that two pollers may have been given the same client.
IteratorsValid ==
  \A t \in Threads :
    (op[t] \in {"activity", "fair"} /\ pc[t] \in {"reunlock", "splice", "unlock"}
       /\ it[t] # NoClient)
      => it[t] \in ToSet(retained)

\* "The first awaked client in the list is returned" (socket_server.hpp:247): a
\* poller that holds the mutex and has something to read returns, unless
\* another one reads it first.
ActivityReturned ==
  \A t \in Pollers :
    (/\ owner = t /\ op[t] \in {"activity", "fair"}
     /\ pc[t] \in {"relock", "fill", "select"}
     /\ ToSet(retained) \cap readable # {})
      ~> (pc[t] = "using" \/ ToSet(retained) \cap readable = {})

\* The fair version gives every client its turn, however much the ones before
\* it in the list send and whatever else is called (socket_server.hpp:249): if
\* it returns again and again, no client stays unread in the list.
FairReturns == \E t \in Pollers : op[t] = "fair" /\ pc[t] = "using"

FairTurn ==
  \A c \in Clients :
    []<>FairReturns =>
      ((c \in ToSet(retained) /\ c \in readable)
         ~> (c \notin ToSet(retained) \/ c \notin readable))

=============================================================================
