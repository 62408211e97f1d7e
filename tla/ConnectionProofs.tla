-------------------------- MODULE ConnectionProofs --------------------------
(***************************************************************************)
(* Connections for every set of clients and threads, every timeout and     *)
(* queue: whose a connection is, what a constructor tells, how long the    *)
(* two ends wait, and which address a string gives.                        *)
(***************************************************************************)
EXTENDS Connection, Listener, TLAPS, SequenceTheorems, WellFoundedInduction

\* The part of ConnTypeOK that is about the constructors, and what `to` is.
ClientTypes ==
  /\ at \in [Clients -> {"none", "resolve", "socket", "done"} \union Trying \union Thrown]
  /\ link \in [Clients -> {"none", "trying", "up", "refused", "closed"}]
  /\ maxWait \in [Clients -> MaxWaits \union {-1}]
  /\ cleft \in [Clients -> -1..MaxTime] /\ cwaited \in [Clients -> 0..MaxTime]
  /\ DOMAIN to = Clients /\ blocking \in [Clients -> BOOLEAN]

\* What a thread has waited and what it still may wait are its timeout.
ThreadWait ==
  \A t \in Threads :
    /\ pc[t] # "select" => waited[t] = 0
    /\ pc[t] = "select" /\ PoolTimeout # -1 =>
         left[t] >= 0 /\ (SelectUpdates => waited[t] + left[t] <= PoolTimeout)

\* A thread returns clients that have connected.
ThreadClient == \A t \in Threads : client[t] # NoClient => client[t] \in came

\* A connection is made once, and its socket knows how that went.
LinkState(c) ==
  /\ at[c] \in {"none", "resolve", "socket"} => link[c] = "none"
  /\ at[c] \in Trying => link[c] \in {"trying", "up", "refused"}
  /\ link[c] \in {"none", "trying"} => c \notin came
  /\ at[c] \in Trying /\ link[c] = "up" => c \in came /\ Reaches(c)
  /\ at[c] \in Trying /\ link[c] = "refused" => ~Reaches(c)
  /\ blocking[c]

\* The timeout of a constructor, as that of a thread; it has waited for all of it
\* when nothing is left.
ConnectWait(c) ==
  /\ at[c] # "select" => cwaited[c] = 0
  /\ at[c] = "connect" => maxWait[c] = -1
  /\ at[c] = "select" =>
       /\ maxWait[c] >= 0 /\ cleft[c] >= 0
       /\ SelectUpdates => cwaited[c] + cleft[c] <= maxWait[c]
       /\ cwaited[c] + cleft[c] >= maxWait[c] \/ cwaited[c] = MaxTime

\* The step is one of c's.
OthersSame(c) ==
  \A d \in Clients \ {c} :
    /\ at'[d] = at[d] /\ to'[d] = to[d] /\ maxWait'[d] = maxWait[d]
    /\ cleft'[d] = cleft[d] /\ cwaited'[d] = cwaited[d]
    /\ link'[d] = link[d] /\ blocking'[d] = blocking[d]

ClientsOK == \A c \in Clients : LinkState(c) /\ ConnectWait(c)

IInv ==
  /\ TypeOK /\ ClientTypes
  /\ OneOwner
  /\ ThreadWait
  /\ ThreadClient
  /\ ClientsOK

-----------------------------------------------------------------------------
\* Before anybody connects IInv holds.
LEMMA InitIInv == ConnInit => IInv
<1> SUFFICES ASSUME ConnInit PROVE IInv
  OBVIOUS
<1> USE DEF ConnInit, Init
<1>1. TypeOK
  <2>1. /\ pc \in [Threads -> {"idle"} \union Waiting \union Over]
        /\ left \in [Threads -> -1..PoolTimeout]
        /\ waited \in [Threads -> 0..MaxTime]
    BY AcceptorAssumption
  <2>2. \A t \in Threads : pc[t] = "client" <=> client[t] # NoClient
    OBVIOUS
  <2>3. signals \in 0..MaxSignals
    BY AcceptorAssumption
  <2> QED
    BY <2>1, <2>2, <2>3 DEF TypeOK
<1>2. ClientTypes
  BY AcceptorAssumption, ConnectionAssumption DEF ClientTypes
<1>3. OneOwner /\ ThreadWait /\ ThreadClient
  BY DEF OneOwner, ThreadWait, ThreadClient
<1>4. ClientsOK
  BY DEF ClientsOK, LinkState, ConnectWait, Trying
<1> QED
  BY <1>1, <1>2, <1>3, <1>4 DEF IInv

\* What holds of the threads, as long as clients only connect that have not yet.
LEMMA ThreadsKeep ==
  ASSUME IInv, UNCHANGED threads, pending' \subseteq came',
         \/ UNCHANGED peers
         \/ came' = came /\ pending' \subseteq pending
         \/ \E c \in Clients : c \notin came /\ came' = came \union {c} /\ pending' = pending \union {c},
         stop' \in BOOLEAN, signals' \in 0..MaxSignals
  PROVE  TypeOK' /\ OneOwner' /\ ThreadWait' /\ ThreadClient'
<1> USE DEF threads, peers
<1>1. TypeOK'
  BY DEF IInv, TypeOK
<1>2. OneOwner'
  <2>1. \A t \in Threads : client[t] \notin pending'
    BY AcceptorAssumption DEF IInv, OneOwner, ThreadClient
  <2> QED
    BY <2>1 DEF IInv, OneOwner
<1>3. ThreadWait' /\ ThreadClient'
  BY DEF IInv, ThreadWait, ThreadClient
<1> QED
  BY <1>1, <1>2, <1>3

\* The clients of which a step tells nothing are as they were.
LEMMA OthersKeep ==
  ASSUME IInv, NEW c \in Clients, came' \subseteq came \union {c},
         came \subseteq came',
         OthersSame(c)
  PROVE  \A d \in Clients \ {c} : LinkState(d)' /\ ConnectWait(d)'
BY DEF IInv, ClientsOK, LinkState, ConnectWait, Reaches, OthersSame

-----------------------------------------------------------------------------
\* A step of one constructor, or of the kernel for it, that leaves the threads.
LEMMA ClientIInv ==
  ASSUME IInv, NEW c \in Clients, UNCHANGED <<stop, threads>>, signals' \in 0..MaxSignals,
         pending' \subseteq came',
         \/ UNCHANGED peers
         \/ came' = came /\ pending' \subseteq pending
         \/ c \notin came /\ came' = came \union {c} /\ pending' = pending \union {c},
         ClientTypes',
         LinkState(c)' /\ ConnectWait(c)',
         OthersSame(c)
  PROVE  IInv'
<1>1. stop' \in BOOLEAN
  BY DEF IInv, TypeOK
<1>2. TypeOK' /\ OneOwner' /\ ThreadWait' /\ ThreadClient'
  BY <1>1, ThreadsKeep
<1>3. came' \subseteq came \union {c} /\ came \subseteq came'
  BY DEF peers
<1>4. \A d \in Clients \ {c} : LinkState(d)' /\ ConnectWait(d)'
  BY <1>3, OthersKeep
<1> QED
  BY <1>2, <1>4 DEF IInv, ClientsOK

\* The constructor ends, and the kernel may still complete its connection.
LEMMA EndsOK ==
  ASSUME IInv, NEW c \in Clients, at[c] \in {"none", "socket"} \union Trying,
         NEW how \in {"done"} \union Thrown, Ends(c, how),
         how = "done" => link[c] = "up", UNCHANGED blocking
  PROVE  ClientTypes' /\ LinkState(c)' /\ ConnectWait(c)' /\ OthersSame(c)
<1> USE DEF Ends, Put, Trying, Thrown
<1>1. ClientTypes'
  BY AcceptorAssumption, ConnectionAssumption DEF IInv, ClientTypes
<1>2. at'[c] = how /\ link'[c] \in {"up", "closed"} /\ cwaited'[c] = 0 /\ blocking'[c]
  BY DEF IInv, ClientTypes, ClientsOK, LinkState
<1>3. LinkState(c)'
  BY <1>2 DEF LinkState
<1>4. ConnectWait(c)'
  BY <1>2 DEF ConnectWait
<1>5. OthersSame(c)
  BY DEF IInv, ClientTypes, OthersSame
<1> QED
  BY <1>1, <1>3, <1>4, <1>5

\* A step of a constructor of which the server sees nothing.
LEMMA QuietIInv ==
  ASSUME IInv, NEW c \in Clients, UNCHANGED vars,
         ClientTypes', LinkState(c)', ConnectWait(c)', OthersSame(c)
  PROVE  IInv'
<1>1. UNCHANGED <<peers, stop, signals, threads>> /\ pending' \subseteq came'
  BY DEF IInv, TypeOK, vars, peers, threads
<1>2. signals' \in 0..MaxSignals
  BY <1>1 DEF IInv, TypeOK
<1> QED
  BY <1>1, <1>2, ClientIInv

-----------------------------------------------------------------------------

\* The address is parsed, or it is thrown.
LEMMA ConstructIInv ==
  ASSUME IInv, NEW c \in Clients, Construct(c)
  PROVE  IInv'
<1> PICK s \in Addresses :
      IF Parsed(s) = BadAddr
        THEN Ends(c, "address")
        ELSE /\ to' = Put(to, c, Address(HostOf(s), PortOf(s)))
             /\ at' \in {Put(at, c, "socket"), Put(at, c, "resolve")}
             /\ maxWait' \in {Put(maxWait, c, w) : w \in MaxWaits}
             /\ UNCHANGED <<cleft, cwaited, link>>
  BY Zenon DEF Construct
<1>1. at[c] = "none" /\ UNCHANGED vars /\ UNCHANGED blocking
  BY DEF Construct
<1>2. CASE Parsed(s) = BadAddr
  <2>1. Ends(c, "address")
    BY <1>2
  <2> QED
    BY <2>1, <1>1, EndsOK, QuietIInv DEF Thrown
<1>3. CASE Parsed(s) # BadAddr
  <2>1. at' = Put(at, c, "socket") \/ at' = Put(at, c, "resolve")
    BY <1>3
  <2>2. PICK w \in MaxWaits : maxWait' = Put(maxWait, c, w)
    BY <1>3
  <2>3. DOMAIN to' = Clients /\ \A d \in Clients \ {c} : to'[d] = to[d]
    BY <1>3 DEF Put, IInv, ClientTypes
  <2>4. UNCHANGED <<cleft, cwaited, link>>
    BY <1>3
  <2>5. ClientTypes'
    BY <1>1, <2>1, <2>2, <2>3, <2>4 DEF IInv, ClientTypes, Put
  <2>6. OthersSame(c)
    BY <1>1, <2>1, <2>2, <2>3, <2>4 DEF IInv, ClientTypes, OthersSame, Put
  <2>7. at'[c] \in {"socket", "resolve"} /\ UNCHANGED came
    BY <1>1, <2>1 DEF IInv, ClientTypes, Put, vars
  <2>8. LinkState(c)' /\ ConnectWait(c)'
    BY <1>1, <2>4, <2>7 DEF IInv, ClientsOK, LinkState, ConnectWait, Trying
  <2> QED
    BY <1>1, <2>5, <2>6, <2>8, QuietIInv
<1> QED
  BY <1>2, <1>3

\* The name is resolved.
LEMMA ReadHostIInv ==
  ASSUME IInv, NEW c \in Clients, ReadHost(c)
  PROVE  IInv'
<1> USE DEF ReadHost, Put, Trying
<1>1. ClientTypes'
  BY AcceptorAssumption, ConnectionAssumption DEF IInv, ClientTypes, Thrown, locals
<1>2. OthersSame(c)
  BY DEF IInv, ClientTypes, OthersSame, locals
<1>3. LinkState(c)'
  BY DEF IInv, ClientTypes, ClientsOK, LinkState, Reaches, locals, vars
<1>4. ConnectWait(c)'
  BY DEF IInv, ClientTypes, ClientsOK, ConnectWait, locals
<1>5. UNCHANGED vars
  BY DEF vars
<1> QED
  BY <1>1, <1>2, <1>3, <1>4, <1>5, QuietIInv

\* connect() is called.
LEMMA ConnectingIInv ==
  ASSUME IInv, NEW c \in Clients, Connecting(c)
  PROVE  IInv'
<1> USE DEF Connecting, Put, Trying
<1>1. ClientTypes'
  BY AcceptorAssumption, ConnectionAssumption DEF IInv, ClientTypes, Thrown, locals
<1>2. OthersSame(c)
  BY DEF IInv, ClientTypes, OthersSame, locals
<1>3. LinkState(c)'
  BY DEF IInv, ClientTypes, ClientsOK, LinkState, Reaches, locals, vars
<1>4. ConnectWait(c)'
  BY DEF IInv, ClientTypes, ClientsOK, ConnectWait, locals
<1>5. UNCHANGED vars
  BY DEF vars
<1> QED
  BY <1>1, <1>2, <1>3, <1>4, <1>5, QuietIInv

\* A timeout is over before the waiting time is no longer counted.
LEMMA WaitRange ==
  ASSUME NEW w \in MaxWaits \union {-1}, w # -1
  PROVE  w \in 0..(MaxTime - 1)
<1>1. w \in -1..(MaxTime - 1)
  BY ConnectionAssumption
<1> QED
  BY <1>1, AcceptorAssumption

\* connect() is called with O_NONBLOCK, and the flag is reset after it.
LEMMA ConnectingTimedIInv ==
  ASSUME IInv, NEW c \in Clients, ConnectingTimed(c)
  PROVE  IInv'
<1>1. /\ at[c] = "socket" /\ maxWait[c] # -1
      /\ blocking' = Put(blocking, c, TRUE) /\ UNCHANGED vars
  BY DEF ConnectingTimed, FlagsAfter
<1>2. UNCHANGED blocking
  BY <1>1 DEF IInv, ClientTypes, ClientsOK, LinkState, Put
<1>3. CASE Ends(c, "refused")
  BY <1>1, <1>2, <1>3, EndsOK, QuietIInv DEF Thrown
<1>4. CASE /\ at' = Put(at, c, "select") /\ link' = Put(link, c, "trying")
           /\ cleft' = Put(cleft, c, maxWait[c])
           /\ UNCHANGED <<to, maxWait, cwaited>>
  <2> USE <1>1, <1>2, <1>4 DEF Put, Trying
  <2>1. maxWait[c] \in 0..(MaxTime - 1)
    BY WaitRange DEF IInv, ClientTypes
  <2>2. ClientTypes'
    BY <2>1, AcceptorAssumption DEF IInv, ClientTypes
  <2>3. OthersSame(c)
    BY DEF IInv, ClientTypes, OthersSame
  <2>4. LinkState(c)'
    BY DEF IInv, ClientTypes, ClientsOK, LinkState, Reaches, vars
  <2>5. ConnectWait(c)'
    BY <2>1 DEF IInv, ClientTypes, ClientsOK, ConnectWait
  <2> QED
    BY <2>2, <2>3, <2>4, <2>5, QuietIInv
<1> QED
  BY <1>3, <1>4 DEF ConnectingTimed

\* The connection is made.
LEMMA EstablishIInv ==
  ASSUME IInv, NEW c \in Clients, Establish(c)
  PROVE  IInv'
<1> USE DEF Establish, Queued, Put
<1>1. ClientTypes' /\ OthersSame(c)
  BY DEF IInv, ClientTypes, OthersSame, locals
<1>2. c \notin came
  BY DEF IInv, ClientsOK, LinkState
<1>3. LinkState(c)'
  BY DEF IInv, ClientTypes, ClientsOK, LinkState, Reaches, locals, Trying
<1>4. ConnectWait(c)'
  BY DEF IInv, ClientsOK, ConnectWait, locals
<1>5. pending' \subseteq came' /\ signals' \in 0..MaxSignals
  BY DEF IInv, TypeOK
<1> QED
  BY <1>1, <1>2, <1>3, <1>4, <1>5, ClientIInv

\* The refusal comes back.
LEMMA RefuseIInv ==
  ASSUME IInv, NEW c \in Clients, Refuse(c)
  PROVE  IInv'
<1> USE DEF Refuse, Put, Trying
<1>1. ClientTypes'
  BY AcceptorAssumption, ConnectionAssumption DEF IInv, ClientTypes, Thrown, locals
<1>2. OthersSame(c)
  BY DEF IInv, ClientTypes, OthersSame, locals
<1>3. LinkState(c)'
  BY DEF IInv, ClientTypes, ClientsOK, LinkState, Reaches, locals, vars
<1>4. ConnectWait(c)'
  BY DEF IInv, ClientTypes, ClientsOK, ConnectWait, locals
<1>5. UNCHANGED vars
  BY DEF vars
<1> QED
  BY <1>1, <1>2, <1>3, <1>4, <1>5, QuietIInv

\* The program destroys its socket.
LEMMA LeaveIInv ==
  ASSUME IInv, NEW c \in Clients, Leave(c)
  PROVE  IInv'
<1> USE DEF Leave, Put, Trying
<1>1. ClientTypes'
  BY AcceptorAssumption, ConnectionAssumption DEF IInv, ClientTypes, Thrown, locals
<1>2. OthersSame(c)
  BY DEF IInv, ClientTypes, OthersSame, locals
<1>3. LinkState(c)'
  BY DEF IInv, ClientTypes, ClientsOK, LinkState, Reaches, locals, vars
<1>4. ConnectWait(c)'
  BY DEF IInv, ClientTypes, ClientsOK, ConnectWait, locals
<1>5. UNCHANGED vars
  BY DEF vars
<1> QED
  BY <1>1, <1>2, <1>3, <1>4, <1>5, QuietIInv

\* connect() or select() returns.
LEMMA ConnectedIInv ==
  ASSUME IInv, NEW c \in Clients, Connected(c)
  PROVE  IInv'
<1>1. at[c] \in Trying /\ UNCHANGED <<vars, blocking>>
  BY DEF Connected
<1>2. /\ Ends(c, IF SoError(c) THEN "refused" ELSE "done")
      /\ ~SoError(c) => link[c] = "up"
  BY DEF Connected, Answered, SoError
<1>3. ClientTypes' /\ LinkState(c)' /\ ConnectWait(c)' /\ OthersSame(c)
  BY <1>1, <1>2, EndsOK DEF Thrown
<1> QED
  BY <1>1, <1>3, QuietIInv

\* select() returns 0.
LEMMA ConnectTimesOutIInv ==
  ASSUME IInv, NEW c \in Clients, ConnectTimesOut(c)
  PROVE  IInv'
<1>1. /\ at[c] = "select" /\ ~Answered(c) /\ Ends(c, "timeout")
      /\ UNCHANGED <<stop, signals, threads, blocking>>
      /\ UNCHANGED peers \/ Queued(c)
  BY DEF ConnectTimesOut
<1>2. ClientTypes' /\ LinkState(c)' /\ ConnectWait(c)' /\ OthersSame(c)
  BY <1>1, EndsOK DEF Trying, Thrown
<1>3. c \notin came
  BY <1>1 DEF IInv, ClientsOK, LinkState, Trying, Answered
<1>4. pending' \subseteq came' /\ signals' \in 0..MaxSignals
  BY <1>1 DEF IInv, TypeOK, peers, Queued
<1> QED
  BY <1>1, <1>2, <1>3, <1>4, ClientIInv DEF Queued

\* A signal ends connect(), or select() is redone with what is left.
LEMMA ConnectSignalIInv ==
  ASSUME IInv, NEW c \in Clients, ConnectSignal(c)
  PROVE  IInv'
<1>1. /\ signals < MaxSignals /\ signals' = signals + 1
      /\ UNCHANGED <<peers, stop, threads, blocking>>
  BY DEF ConnectSignal
<1>2. signals' \in 0..MaxSignals /\ pending' \subseteq came'
  BY <1>1, AcceptorAssumption DEF IInv, TypeOK, peers
<1>3. CASE at[c] = "connect" /\ Ends(c, "signal")
  <2>1. ClientTypes' /\ LinkState(c)' /\ ConnectWait(c)' /\ OthersSame(c)
    BY <1>1, <1>3, EndsOK DEF Trying, Thrown
  <2> QED
    BY <1>1, <1>2, <2>1, ClientIInv
<1>4. CASE /\ at[c] = "select" /\ cleft[c] # 0
           /\ cleft' = Put(cleft, c, LeftOnRedo(c))
           /\ UNCHANGED <<at, to, maxWait, cwaited, link>>
  <2> USE <1>1, <1>4 DEF Put
  <2>1. maxWait[c] \in 0..(MaxTime - 1)
    BY WaitRange DEF IInv, ClientTypes, ClientsOK, ConnectWait
  <2>2. LeftOnRedo(c) = IF SelectUpdates THEN cleft[c] ELSE maxWait[c]
    BY DEF LeftOnRedo
  <2>3. ClientTypes' /\ OthersSame(c)
    BY <2>1, <2>2, AcceptorAssumption DEF IInv, ClientTypes, OthersSame
  <2>4. LinkState(c)'
    BY DEF IInv, ClientsOK, LinkState, Reaches, peers
  <2>5. cleft'[c] = LeftOnRedo(c)
    BY DEF IInv, ClientTypes
  <2>6. ConnectWait(c)'
    BY <2>1, <2>2, <2>5 DEF IInv, ClientTypes, ClientsOK, ConnectWait
  <2> QED
    BY <1>2, <2>3, <2>4, <2>6, ClientIInv
<1> QED
  BY <1>3, <1>4 DEF ConnectSignal

\* The kernel drops a connection that its client has closed.
LEMMA DropIInv ==
  ASSUME IInv, NEW c \in Clients, Drop(c)
  PROVE  IInv'
<1> USE DEF Drop
<1>1. ClientTypes' /\ OthersSame(c)
  BY DEF IInv, ClientTypes, OthersSame, clientVars
<1>2. LinkState(c)' /\ ConnectWait(c)'
  BY DEF IInv, ClientsOK, LinkState, ConnectWait, Reaches, clientVars
<1>3. pending' \subseteq came' /\ signals' \in 0..MaxSignals
  BY DEF IInv, TypeOK
<1> QED
  BY <1>1, <1>2, <1>3, ClientIInv

-----------------------------------------------------------------------------
\* A step of a thread leaves the constructors.
LEMMA ConstructorsKeep ==
  ASSUME IInv, UNCHANGED clientVars, came' = came,
         TypeOK', OneOwner', ThreadWait', ThreadClient'
  PROVE  IInv'
BY DEF IInv, ClientTypes, ClientsOK, LinkState, ConnectWait, Reaches, clientVars

\* A wait begins.
LEMMA CallIInv ==
  ASSUME IInv, NEW t \in Threads, Call(t), UNCHANGED clientVars
  PROVE  IInv'
<1> USE DEF Call, peers, First
<1>1. TypeOK'
  BY AcceptorAssumption DEF IInv, TypeOK, Waiting, Over, ThreadWait
<1>2. OneOwner'
  BY AcceptorAssumption DEF IInv, TypeOK, OneOwner
<1>3. ThreadWait'
  BY AcceptorAssumption DEF IInv, TypeOK, ThreadWait, Waiting, Over
<1>4. ThreadClient'
  BY DEF IInv, TypeOK, ThreadClient
<1> QED
  BY <1>1, <1>2, <1>3, <1>4, ConstructorsKeep

\* select() returns early.
LEMMA SelectIInv ==
  ASSUME IInv, NEW t \in Threads, Select(t), UNCHANGED clientVars
  PROVE  IInv'
<1> USE DEF Select, peers, Waited, AfterSelect, Stopped
<1>1. TypeOK'
  BY AcceptorAssumption DEF IInv, TypeOK, Waiting, Over, ThreadWait
<1>2. OneOwner'
  BY AcceptorAssumption DEF IInv, TypeOK, OneOwner
<1>3. ThreadWait'
  BY AcceptorAssumption DEF IInv, TypeOK, ThreadWait, Waiting, Over
<1>4. ThreadClient'
  BY DEF IInv, TypeOK, ThreadClient
<1> QED
  BY <1>1, <1>2, <1>3, <1>4, ConstructorsKeep

\* select() of a thread returns 0.
LEMMA SelectTimesOutIInv ==
  ASSUME IInv, NEW t \in Threads, SelectTimesOut(t), UNCHANGED clientVars
  PROVE  IInv'
<1> USE DEF SelectTimesOut, peers, Waited
<1>1. TypeOK'
  BY AcceptorAssumption DEF IInv, TypeOK, Waiting, Over, ThreadWait
<1>2. OneOwner'
  BY AcceptorAssumption DEF IInv, TypeOK, OneOwner
<1>3. ThreadWait'
  BY AcceptorAssumption DEF IInv, TypeOK, ThreadWait, Waiting, Over
<1>4. ThreadClient'
  BY DEF IInv, TypeOK, ThreadClient
<1> QED
  BY <1>1, <1>2, <1>3, <1>4, ConstructorsKeep

\* A signal interrupts a thread's select(), which is called again or throws.
LEMMA SignalIInv ==
  ASSUME IInv, NEW t \in Threads, Signal(t), UNCHANGED clientVars
  PROVE  IInv'
<1>1. /\ pc[t] = "select" /\ signals' \in 0..MaxSignals
      /\ UNCHANGED <<peers, stop, client>>
  BY AcceptorAssumption DEF IInv, TypeOK, Signal
<1>2. OneOwner' /\ ThreadClient'
  BY <1>1 DEF IInv, OneOwner, ThreadClient, peers
<1>3. CASE left' = [left EXCEPT ![t] = LeftAfterSignal(t)] /\ UNCHANGED <<pc, waited>>
  <2>1. LeftAfterSignal(t) \in -1..PoolTimeout
    BY AcceptorAssumption DEF IInv, TypeOK, LeftAfterSignal
  <2>2. TypeOK'
    BY <1>1, <1>3, <2>1 DEF IInv, TypeOK, peers
  <2>3. PoolTimeout # -1 =>
          /\ LeftAfterSignal(t) >= 0
          /\ SelectUpdates => LeftAfterSignal(t) = left[t]
    BY <1>1, AcceptorAssumption DEF IInv, ThreadWait, LeftAfterSignal
  <2>4. ThreadWait'
    BY <1>1, <1>3, <2>3 DEF IInv, TypeOK, ThreadWait
  <2> QED
    BY <1>1, <1>2, <2>2, <2>4, ConstructorsKeep DEF peers
<1>4. CASE Waited(t, "error")
  <2> USE DEF Waited
  <2>1. TypeOK'
    BY <1>1, <1>4, AcceptorAssumption DEF IInv, TypeOK, Over, peers
  <2>2. ThreadWait'
    BY <1>1, <1>4 DEF IInv, TypeOK, ThreadWait
  <2> QED
    BY <1>1, <1>2, <2>1, <2>2, ConstructorsKeep DEF peers
<1> QED
  BY <1>3, <1>4 DEF Signal

\* A connection is taken.
LEMMA AcceptIInv ==
  ASSUME IInv, NEW t \in Threads, Accept(t), UNCHANGED clientVars
  PROVE  IInv'
<1> USE DEF Accept, peers, Taken
<1>1. TypeOK'
  BY AcceptorAssumption DEF IInv, TypeOK, Waiting, Over, ThreadWait
<1>2. OneOwner'
  BY AcceptorAssumption DEF IInv, TypeOK, OneOwner
<1>3. ThreadWait'
  BY AcceptorAssumption DEF IInv, TypeOK, ThreadWait, Waiting, Over
<1>4. ThreadClient'
  BY DEF IInv, TypeOK, ThreadClient
<1> QED
  BY <1>1, <1>2, <1>3, <1>4, ConstructorsKeep

\* accept() fails.
LEMMA AcceptFailsIInv ==
  ASSUME IInv, NEW t \in Threads, AcceptFails(t), UNCHANGED clientVars
  PROVE  IInv'
<1> USE DEF AcceptFails, peers
<1>1. TypeOK'
  <2>1. signals' \in 0..MaxSignals
    BY AcceptorAssumption DEF IInv, TypeOK
  <2>2. pc' \in [Threads -> {"idle"} \union Waiting \union Over]
    BY DEF IInv, TypeOK, Over
  <2>3. \A u \in Threads : pc'[u] = "client" <=> client[u] # NoClient
    BY DEF IInv, TypeOK
  <2> QED
    BY <2>1, <2>2, <2>3 DEF IInv, TypeOK
<1>2. OneOwner'
  BY DEF IInv, OneOwner
<1>3. ThreadWait'
  BY DEF IInv, TypeOK, ThreadWait
<1>4. ThreadClient'
  BY DEF IInv, ThreadClient
<1> QED
  BY <1>1, <1>2, <1>3, <1>4, ConstructorsKeep

\* A call is over.
LEMMA ReturnIInv ==
  ASSUME IInv, NEW t \in Threads, Return(t), UNCHANGED clientVars
  PROVE  IInv'
<1> USE DEF Return, peers, Released
<1>1. TypeOK'
  BY AcceptorAssumption DEF IInv, TypeOK, Waiting, Over, ThreadWait
<1>2. OneOwner'
  BY AcceptorAssumption DEF IInv, TypeOK, OneOwner
<1>3. ThreadWait'
  BY AcceptorAssumption DEF IInv, TypeOK, ThreadWait, Waiting, Over
<1>4. ThreadClient'
  BY DEF IInv, TypeOK, ThreadClient
<1> QED
  BY <1>1, <1>2, <1>3, <1>4, ConstructorsKeep

\* The monitored descriptor can be read.
LEMMA StopIInv ==
  ASSUME IInv, Stop, UNCHANGED clientVars
  PROVE  IInv'
<1> USE DEF Stop, peers, threads
<1>1. TypeOK' /\ OneOwner' /\ ThreadWait' /\ ThreadClient'
  BY DEF IInv, TypeOK, OneOwner, ThreadWait, ThreadClient
<1> QED
  BY <1>1, ConstructorsKeep

\* Time passes for whoever has not waited for all of its timeout.
LEMMA BothTickIInv ==
  ASSUME IInv, BothTick
  PROVE  IInv'
<1> USE DEF BothTick, Tick, peers
<1>1. TypeOK'
  BY AcceptorAssumption DEF IInv, TypeOK
<1>2. OneOwner' /\ ThreadClient'
  BY DEF IInv, OneOwner, ThreadClient
<1>3. ThreadWait'
  <2> SUFFICES ASSUME NEW t \in Threads
               PROVE  /\ pc[t] # "select" => waited'[t] = 0
                      /\ pc[t] = "select" /\ PoolTimeout # -1 =>
                           left'[t] >= 0 /\ (SelectUpdates => waited'[t] + left'[t] <= PoolTimeout)
    BY DEF ThreadWait
  <2>1. CASE pc[t] # "select"
    BY <2>1 DEF IInv, ThreadWait
  <2>2. CASE pc[t] = "select" /\ PoolTimeout # -1
    <3>1. left[t] > 0 /\ left[t] \in Int /\ waited[t] \in Int
      BY <2>2, AcceptorAssumption DEF IInv, TypeOK, ThreadWait, TimedOut
    <3> QED
      BY <2>2, <3>1, AcceptorAssumption DEF IInv, ThreadWait
  <2> QED
    BY <2>1, <2>2
<1>4. ClientTypes'
  BY AcceptorAssumption DEF IInv, ClientTypes, ClientsOK, ConnectWait
<1>5. ClientsOK'
  <2> SUFFICES ASSUME NEW c \in Clients
               PROVE  LinkState(c)' /\ ConnectWait(c)'
    BY DEF ClientsOK
  <2>1. LinkState(c)'
    BY DEF IInv, ClientsOK, LinkState, Reaches
  <2>2. CASE at[c] # "select"
    BY <2>1, <2>2 DEF IInv, ClientsOK, ConnectWait
  <2>3. CASE at[c] = "select"
    <3>1. cleft[c] > 0 /\ cleft[c] \in Int /\ cwaited[c] \in Int /\ maxWait[c] \in Int
      BY <2>3, AcceptorAssumption, WaitRange DEF IInv, ClientTypes, ClientsOK, ConnectWait, Busy
    <3>2. /\ cleft'[c] = cleft[c] - 1
          /\ cwaited'[c] = IF cwaited[c] < MaxTime THEN cwaited[c] + 1 ELSE cwaited[c]
      BY <2>3
    <3>3. cwaited[c] <= MaxTime /\ MaxTime \in Int
      BY AcceptorAssumption DEF IInv, ClientTypes
    <3> QED
      BY <2>1, <2>3, <3>1, <3>2, <3>3 DEF IInv, ClientsOK, ConnectWait
  <2> QED
    BY <2>1, <2>2, <2>3
<1> QED
  BY <1>1, <1>2, <1>3, <1>4, <1>5 DEF IInv

-----------------------------------------------------------------------------
\* IInv is inductive.
LEMMA StepIInv ==
  ASSUME IInv, [ConnNext]_connVars
  PROVE  IInv'
<1>1. CASE UNCHANGED connVars
  BY <1>1 DEF connVars, IInv, TypeOK, OneOwner, ThreadWait, ThreadClient, ClientTypes,
              ClientsOK, LinkState, ConnectWait, Reaches
<1>2. ASSUME NEW c \in Clients,
             \/ Construct(c) \/ ConnectStep(c) \/ ConnectSignal(c) \/ Leave(c)
             \/ Establish(c) \/ Refuse(c) \/ Drop(c)
      PROVE  IInv'
  BY <1>2, ConstructIInv, ReadHostIInv, ConnectingIInv, ConnectingTimedIInv,
     ConnectedIInv, ConnectTimesOutIInv, ConnectSignalIInv, LeaveIInv,
     EstablishIInv, RefuseIInv, DropIInv DEF ConnectStep
<1>3. ASSUME NEW t \in Threads,
             ThreadStep(t) \/ ((Signal(t) \/ AcceptFails(t)) /\ UNCHANGED clientVars)
      PROVE  IInv'
  BY <1>3, CallIInv, SelectIInv, SelectTimesOutIInv, AcceptIInv, AcceptFailsIInv, ReturnIInv, SignalIInv
  DEF ThreadStep, Step
<1>4. CASE Stop /\ UNCHANGED clientVars
  BY <1>4, StopIInv
<1>5. CASE BothTick
  BY <1>5, BothTickIInv
<1> QED
  BY <1>1, <1>2, <1>3, <1>4, <1>5 DEF ConnNext

\* The type invariant, and what the other theorems rest on, always hold.
THEOREM ConnectionInductive == ConnSpec => []IInv
<1>1. ConnInit => IInv
  BY InitIInv
<1>2. IInv /\ [ConnNext]_connVars => IInv'
  BY StepIInv
<1> QED
  BY <1>1, <1>2, PTL DEF ConnSpec

\* One connection is one client: no two threads return the same, and none returns
\* one that is still in the queue, whatever the peers give up meanwhile
\* (socket_server.cpp:29-33).
THEOREM ConnectionSafe == ConnSpec => [](ConnTypeOK /\ OneOwner)
<1>1. IInv => ConnTypeOK /\ OneOwner
  BY DEF IInv, ClientTypes, ConnTypeOK
<1> QED
  BY <1>1, ConnectionInductive, PTL

\* Where select() takes off its timeout what it has waited, as Linux's does,
\* neither end waits for longer than it was told to, however often it is
\* interrupted (socket_server.cpp:61, socket_client.cpp:33-36).
THEOREM WaitsAreBounded ==
  ASSUME SelectUpdates
  PROVE  ConnSpec => []BothWaitAtMost
<1>1. IInv => BothWaitAtMost
  <2> SUFFICES ASSUME IInv PROVE BothWaitAtMost
    OBVIOUS
  <2>1. ASSUME NEW t \in Threads, pc[t] = "select", PoolTimeout # -1
        PROVE  waited[t] <= PoolTimeout
    <3>1. left[t] >= 0 /\ waited[t] + left[t] <= PoolTimeout
      BY <2>1 DEF IInv, ThreadWait
    <3>2. left[t] \in Int /\ waited[t] \in Int /\ PoolTimeout \in Int
      BY AcceptorAssumption DEF IInv, TypeOK
    <3> QED
      BY <3>1, <3>2
  <2>2. ASSUME NEW c \in Clients, at[c] = "select"
        PROVE  cwaited[c] <= maxWait[c]
    <3>1. cleft[c] >= 0 /\ cwaited[c] + cleft[c] <= maxWait[c] /\ maxWait[c] >= 0
      BY <2>2 DEF IInv, ClientsOK, ConnectWait
    <3>2. cleft[c] \in Int /\ cwaited[c] \in Int
      BY DEF IInv, ClientTypes
    <3>3. maxWait[c] \in Int
      BY <3>1, WaitRange, AcceptorAssumption DEF IInv, ClientTypes
    <3> QED
      BY <3>1, <3>2, <3>3
  <2> QED
    BY <2>1, <2>2 DEF BothWaitAtMost
<1> QED
  BY <1>1, ConnectionInductive, PTL

\* What one constructor's step tells of it.
Tells(c) ==
  at'[c] # at[c] =>
    /\ at'[c] = "done" => c \in came /\ Reaches(c) /\ blocking'[c]
    /\ at'[c] = "refused" => ~Reaches(c)
    /\ at'[c] = "signal" => maxWait[c] = -1 /\ signals' > 0
    /\ at'[c] = "timeout" => maxWait[c] # -1 /\ cwaited[c] >= maxWait[c]

\* The step in which a constructor ends tells what ConstructorTells says.
LEMMA StepTells ==
  ASSUME IInv, ConnNext, NEW c \in Clients, at'[c] # at[c]
  PROVE  Tells(c)
<1>1. \/ Construct(c) \/ ReadHost(c) \/ Connecting(c) \/ ConnectingTimed(c)
      \/ Connected(c) \/ ConnectTimesOut(c) \/ ConnectSignal(c)
  <2>1. ASSUME NEW d \in Clients \ {c}, Construct(d) \/ ConnectStep(d) \/ ConnectSignal(d)
        PROVE  FALSE
    <3>1. PICK x : at' = Put(at, d, x) \/ UNCHANGED at
      BY <2>1, Zenon DEF Construct, ConnectStep, ReadHost, Connecting, ConnectingTimed,
         Connected, ConnectTimesOut, ConnectSignal, Ends, locals
    <3> QED
      BY <3>1 DEF IInv, ClientTypes, Put
  <2>2. UNCHANGED at => FALSE
    OBVIOUS
  <2>3. \A d \in Clients : Leave(d) \/ Establish(d) \/ Refuse(d) \/ Drop(d) => UNCHANGED at
    BY DEF Leave, Establish, Refuse, Drop, clientVars
  <2>4. \A t \in Threads : ThreadStep(t) => UNCHANGED at
    BY DEF ThreadStep, clientVars
  <2>5. (UNCHANGED clientVars \/ BothTick) => UNCHANGED at
    BY DEF clientVars, BothTick
  <2> QED
    BY <2>1, <2>2, <2>3, <2>4, <2>5 DEF ConnNext, ConnectStep
<1>2. blocking'[c]
  <2>1. IInv'
    BY StepIInv
  <2> QED
    BY <2>1 DEF IInv, ClientsOK, LinkState
<1> USE DEF IInv, ClientTypes, Put, Tells
<1>3. CASE Construct(c)
  <2>1. at'[c] \in {"address", "socket", "resolve"}
    BY <1>3, Zenon DEF Construct, Ends
  <2> QED
    BY <2>1
<1>4. CASE ReadHost(c) \/ Connecting(c)
  BY <1>4 DEF ReadHost, Connecting
<1>5. CASE ConnectingTimed(c)
  BY <1>5 DEF ConnectingTimed, Ends
<1>6. CASE Connected(c)
  BY <1>2, <1>6 DEF Connected, Ends, Answered, SoError, ClientsOK, LinkState
<1>7. CASE ConnectTimesOut(c)
  <2>1. /\ at[c] = "select" /\ cleft[c] = 0 /\ at'[c] = "timeout"
    BY <1>7 DEF ConnectTimesOut, Ends
  <2>2. /\ maxWait[c] >= 0
        /\ cwaited[c] >= maxWait[c] \/ cwaited[c] = MaxTime
    BY <2>1 DEF ClientsOK, ConnectWait
  <2>3. maxWait[c] \in 0..(MaxTime - 1) /\ cwaited[c] \in Int
    BY <2>2, WaitRange
  <2>4. maxWait[c] # -1 /\ cwaited[c] >= maxWait[c]
    BY <2>2, <2>3, AcceptorAssumption
  <2> QED
    BY <2>1, <2>4
<1>8. CASE ConnectSignal(c)
  <2>1. at[c] = "connect" /\ at'[c] = "signal" /\ signals' = signals + 1
    BY <1>8 DEF ConnectSignal, Ends
  <2>2. maxWait[c] = -1
    BY <2>1 DEF ClientsOK, ConnectWait
  <2>3. signals' > 0
    BY <2>1, AcceptorAssumption DEF TypeOK
  <2> QED
    BY <2>1, <2>2, <2>3
<1> QED
  BY <1>1, <1>3, <1>4, <1>5, <1>6, <1>7, <1>8

\* What a constructor tells is so: a socket it returns is in the server's queue or
\* was, and blocks as others do; one that throws was refused, interrupted without
\* a timeout, or waited for all of it (socket_client.cpp:15-50).
THEOREM ConstructorsTell == ConnSpec => ConstructorTells
<1>1. IInv /\ [ConnNext]_connVars => [\A c \in Clients : Tells(c)]_connVars
  BY StepTells DEF Tells
<1> QED
  BY <1>1, ConnectionInductive, PTL DEF ConnSpec, ConstructorTells, Tells

-----------------------------------------------------------------------------
\* What an induction over the natural numbers rests on: there is no bad number if
\* there is no least one.
LEMMA LeastNumber ==
  ASSUME NEW S, S \subseteq Nat, S # {}
  PROVE  \E n \in S : \A m \in S : ~(m < n)
<1>1. PICK n \in S : \A m \in S : <<m, n>> \notin OpToRel(<, Nat)
  BY NatLessThanWellFounded, WFMin
<1> QED
  BY <1>1 DEF OpToRel

Digit == {"0", "1", "2", "3", "4", "5", "6", "7", "8", "9"}

\* A digit is one of the ten, and has its value.
LEMMA DigitRange ==
  /\ \A c : IsDigit(c) => DigitOf(c) \in 0..9
  /\ ~IsDigit(":") /\ ~IsDigit("-")
<1>1. DOMAIN Digits = 1..10 /\ ToSet(Digits) = Digit
  BY DEF Digits, ToSet, Digit
<1>2. ASSUME NEW c, IsDigit(c)
      PROVE  DigitOf(c) \in 0..9
  <2>1. \E i \in DOMAIN Digits : Digits[i] = c
    BY <1>2 DEF IsDigit, ToSet
  <2>2. PICK i \in DOMAIN Digits : i = CHOOSE j \in DOMAIN Digits : Digits[j] = c
    BY <2>1
  <2> QED
    BY <1>1, <2>2 DEF DigitOf
<1>3. ~IsDigit(":") /\ ~IsDigit("-")
  BY <1>1 DEF IsDigit, Digit
<1> QED
  BY <1>2, <1>3

\* The numbers of the first n characters of s, each from the one before it.
Numbers(s, n) ==
  {f \in [0..n -> Nat] :
     \A i \in 0..n : f[i] = IF i = 0 THEN 0 ELSE 10 * f[i - 1] + DigitOf(s[i])}

\* There are such numbers, of as many characters as one likes: the least n for
\* which there were none would be one more than one for which there are.
LEMMA NumbersExist ==
  ASSUME NEW s \in Seq(STRING), \A i \in DOMAIN s : IsDigit(s[i])
  PROVE  \A n \in 0..Len(s) : Numbers(s, n) # {}
<1> DEFINE bad == {n \in 0..Len(s) : Numbers(s, n) = {}}
<1> SUFFICES ASSUME bad # {} PROVE FALSE
  OBVIOUS
<1>1. Len(s) \in Nat /\ DOMAIN s = 1..Len(s)
  BY LenProperties
<1>2. PICK n \in bad : \A m \in bad : ~(m < n)
  <2>1. bad \subseteq Nat
    BY <1>1
  <2> HIDE DEF bad
  <2> QED
    BY <2>1, LeastNumber
<1>3. n \in 0..Len(s) /\ Numbers(s, n) = {}
  OBVIOUS
<1>4. CASE n = 0
  <2>1. [i \in 0..0 |-> 0] \in Numbers(s, 0)
    BY DEF Numbers
  <2> QED
    BY <1>3, <1>4, <2>1
<1>5. CASE n # 0
  <2>1. n - 1 \in 0..Len(s) /\ n - 1 < n
    BY <1>1, <1>3, <1>5
  <2>2. PICK f : f \in Numbers(s, n - 1)
    <3>1. n - 1 \notin bad
      BY <1>1, <1>2, <1>3, <2>1
    <3> QED
      BY <2>1, <3>1
  <2>3. DigitOf(s[n]) \in 0..9
    <3>1. n \in DOMAIN s
      BY <1>1, <1>3, <1>5
    <3> QED
      BY <3>1, DigitRange
  <2> DEFINE g == [i \in 0..n |-> IF i = n THEN 10 * f[n - 1] + DigitOf(s[n]) ELSE f[i]]
  <2>4. \A i \in 0..(n - 1) : f[i] \in Nat /\ (f[i] = IF i = 0 THEN 0 ELSE 10 * f[i - 1] + DigitOf(s[i]))
    BY <2>1, <2>2 DEF Numbers
  <2>5. g \in [0..n -> Nat]
    <3>1. f[n - 1] \in Nat /\ 10 * f[n - 1] + DigitOf(s[n]) \in Nat
      <4>1. n - 1 \in 0..(n - 1)
        BY <1>1, <2>1
      <4>2. f[n - 1] \in Nat
        BY <2>4, <4>1
      <4> HIDE DEF bad
      <4> QED
        BY <2>3, <4>2
    <3>2. ASSUME NEW i \in 0..n
          PROVE  (IF i = n THEN 10 * f[n - 1] + DigitOf(s[n]) ELSE f[i]) \in Nat
      <4>1. CASE i = n
        BY <3>1, <4>1
      <4>2. CASE i # n
        <5>1. i \in 0..(n - 1)
          BY <1>1, <1>3, <4>2
        <5> QED
          BY <2>4, <4>2, <5>1
      <4> QED
        BY <4>1, <4>2
    <3> QED
      BY <3>2
  <2>6. ASSUME NEW i \in 0..n
        PROVE  g[i] = IF i = 0 THEN 0 ELSE 10 * g[i - 1] + DigitOf(s[i])
    BY <1>3, <1>5, <2>1, <2>4
  <2>7. g \in Numbers(s, n)
    BY <2>5, <2>6 DEF Numbers
  <2> QED
    BY <1>3, <2>7
<1> QED
  BY <1>4, <1>5

\* A string of digits is a natural number.
LEMMA DecimalIsNat ==
  ASSUME NEW s \in Seq(STRING), \A i \in DOMAIN s : IsDigit(s[i])
  PROVE  Decimal(s) \in Nat
<1> DEFINE Counts(f) == f = [i \in 0..Len(s) |-> IF i = 0 THEN 0 ELSE 10 * f[i - 1] + DigitOf(s[i])]
           val == CHOOSE f : Counts(f)
<1>1. Len(s) \in Nat
  OBVIOUS
<1>2. PICK f : f \in Numbers(s, Len(s))
  BY <1>1, NumbersExist
<1>3. Counts(f)
  BY <1>2 DEF Numbers
<1>4. Counts(val)
  BY <1>3
<1>5. Decimal(s) = val[Len(s)]
  BY DEF Decimal
<1>7. \A n \in 0..Len(s) : val[n] = IF n = 0 THEN 0 ELSE 10 * val[n - 1] + DigitOf(s[n])
  BY <1>4
<1> HIDE DEF val, Counts
<1> DEFINE bad == {n \in 0..Len(s) : val[n] \notin Nat}
<1>6. bad = {}
  <2> SUFFICES ASSUME bad # {} PROVE FALSE
    OBVIOUS
  <2>1. PICK n \in bad : \A m \in bad : ~(m < n)
    <3>1. bad \subseteq Nat
      BY <1>1
    <3> HIDE DEF bad
    <3> QED
      BY <3>1, LeastNumber
  <2>2. n \in 0..Len(s) /\ val[n] \notin Nat
    OBVIOUS
  <2>3. val[n] = IF n = 0 THEN 0 ELSE 10 * val[n - 1] + DigitOf(s[n])
    BY <1>7, <2>2
  <2>4. n # 0
    BY <2>2, <2>3
  <2>5. n \in DOMAIN s /\ n - 1 \in 0..Len(s) /\ n - 1 < n
    BY <1>1, <2>2, <2>4, LenProperties
  <2>6. val[n - 1] \in Nat
    BY <1>1, <2>1, <2>2, <2>5
  <2>7. DigitOf(s[n]) \in 0..9
    BY <2>5, DigitRange
  <2>8. 10 * val[n - 1] + DigitOf(s[n]) \in Nat
    <3> DEFINE v == val[n - 1]
               d == DigitOf(s[n])
    <3>1. v \in Nat /\ d \in 0..9
      BY <2>6, <2>7
    <3> HIDE DEF v, d
    <3>2. 10 * v + d \in Nat
      BY <3>1
    <3> QED
      BY <3>2 DEF v, d
  <2> QED
    BY <2>2, <2>3, <2>4, <2>8
<1> QED
  BY <1>1, <1>5, <1>6

\* A number that an int holds stays what it is.
LEMMA IntStays ==
  ASSUME IntMax \in Nat, NEW n \in 0..IntMax
  PROVE  AsInt(n) = n
<1> DEFINE a == n + IntMax + 1
           b == 2 * (IntMax + 1)
<1>1. a \in Nat /\ b \in Nat /\ a < b
  OBVIOUS
<1> HIDE DEF a, b
<1>2. a % b = a
  BY <1>1
<1> QED
  BY <1>2 DEF AsInt, a, b

\* A sequence of digits is what atoi() takes whole, and cuts to an int.
LEMMA AtoiOfDigits ==
  ASSUME NEW p \in Seq(STRING), p # <<>>, \A i \in DOMAIN p : IsDigit(p[i])
  PROVE  Atoi(p) = AsInt(Decimal(p))
<1> DEFINE ends == {i \in 1..(Len(p) + 1) : i > Len(p) \/ ~IsDigit(p[i])}
<1>1. Len(p) \in Nat \ {0} /\ DOMAIN p = 1..Len(p)
  BY LenProperties, EmptySeq
<1>2. p[1] # "-"
  <2>1. IsDigit(p[1])
    BY <1>1
  <2> QED
    BY <2>1, DigitRange
<1>3. ends = {Len(p) + 1}
  BY <1>1
<1>4. Min(ends) = Len(p) + 1
  BY <1>1, <1>3 DEF Min
<1>5. SubSeq(p, 1, (Len(p) + 1) - 1) = p
  BY <1>1
<1> HIDE DEF ends
<1>7. Atoi(p) = AsInt(Decimal(SubSeq(p, 1, Min(ends) - 1)))
  BY <1>2 DEF Atoi, ends
<1> QED
  BY <1>4, <1>5, <1>7

\* A host name alone has no colon.
LEMMA HostAlone ==
  ASSUME NEW s \in Seq(STRING), \A i \in DOMAIN s : s[i] \notin Forbidden
  PROVE  HostOf(s) = s /\ PortOf(s) = DefaultPort
<1>1. Len(s) \in Nat /\ DOMAIN s = 1..Len(s)
  BY LenProperties
<1>2. Colons(s) = {}
  <2>1. ":" \in Forbidden
    BY DEF Forbidden
  <2>2. \A i \in 1..(Len(s) - 1) : s[i] # ":"
    BY <1>1, <2>1
  <2> QED
    BY <2>2 DEF Colons
<1> QED
  BY <1>2 DEF HasPort, HostOf, PortOf

\* Nor has the port: the colon that the loop finds is the one between them.
LEMMA HostAndPort ==
  ASSUME NEW s \in Seq(STRING), NEW i \in DOMAIN s, s[i] = ":", i < Len(s),
         NEW h, h = SubSeq(s, 1, i - 1), NEW p, p = SubSeq(s, i + 1, Len(s)),
         WellFormed(h, p)
  PROVE  HostOf(s) = h /\ PortOf(s) = AsInt(Decimal(p)) /\ Decimal(p) \in Nat
<1>1. Len(s) \in Nat /\ DOMAIN s = 1..Len(s) /\ i \in 1..(Len(s) - 1)
  BY LenProperties
<1>2. /\ h \in Seq(STRING) /\ DOMAIN h = 1..(i - 1)
      /\ \A j \in 1..(i - 1) : h[j] = s[j]
  BY <1>1, SubSeqProperties, ElementOfSeq
<1>3. /\ p \in Seq(STRING) /\ DOMAIN p = 1..(Len(s) - i) /\ Len(p) = Len(s) - i
      /\ \A j \in 1..(Len(s) - i) : p[j] = s[i + j]
  BY <1>1, SubSeqProperties, ElementOfSeq
<1>4. \A j \in DOMAIN p : IsDigit(p[j])
  BY DEF WellFormed
<1>5. \A j \in (i + 1)..Len(s) : IsDigit(s[j])
  <2> SUFFICES ASSUME NEW j \in (i + 1)..Len(s) PROVE IsDigit(s[j])
    OBVIOUS
  <2>1. j - i \in 1..(Len(s) - i) /\ i + (j - i) = j
    BY <1>1
  <2> QED
    BY <1>3, <1>4, <2>1
<1>6. Colons(s) = {i}
  <2>1. \A j \in 1..(i - 1) : s[j] # ":"
    BY <1>2 DEF WellFormed, Forbidden
  <2>2. \A j \in (i + 1)..Len(s) : s[j] # ":"
    BY <1>5, DigitRange
  <2> QED
    BY <1>1, <2>1, <2>2 DEF Colons
<1>7. HasPort(s) /\ Max(Colons(s)) = i
  <2>1. Max(Colons(s)) = i
    BY <1>1, <1>6 DEF Max
  <2>2. IsDigit(Last(s))
    <3>1. Len(s) \in (i + 1)..Len(s) /\ Last(s) = s[Len(s)]
      BY <1>1 DEF Last
    <3> QED
      BY <1>5, <3>1
  <2> QED
    BY <1>6, <2>1, <2>2 DEF HasPort
<1>8. Atoi(p) = AsInt(Decimal(p))
  <2>1. p # <<>>
    <3>1. Len(p) # 0
      BY <1>1, <1>3
    <3> QED
      BY <3>1
  <2> QED
    BY <1>3, <1>4, <2>1, AtoiOfDigits
<1>9. Decimal(p) \in Nat
  BY <1>3, <1>4, DecimalIsNat
<1> QED
  BY <1>7, <1>8, <1>9 DEF HostOf, PortOf

\* The parser and the documented form agree on every string, but on a port that atoi()
\* takes for another one: a number that no int holds and that is not in the range
\* when it is cut to an int is refused as one that an int holds.
THEOREM AddressesAgree == ParsesAsMeant
<1> SUFFICES ASSUME NEW s \in Strings, NEW a \in Meanings(s)
             PROVE  Parsed(s) = a
  BY DEF ParsesAsMeant
<1>1. s \in Seq(STRING) /\ s # <<>>
  BY AddressAssumption
<1>2. PICK x \in Parts(s) : /\ WellFormed(x[1], x[2]) /\ ~Aliased(x[2])
                            /\ a = Meaning(x[1], x[2])
  BY DEF Meanings
<1>3. CASE x = <<s, <<>>>>
  <2>1. x[1] = s /\ x[2] = <<>>
    BY <1>3
  <2>2. HostOf(s) = s /\ PortOf(s) = DefaultPort
    BY <1>1, <1>2, <2>1, HostAlone DEF WellFormed
  <2>3. Accepted(s)
    BY <1>1, <1>2, <2>1, <2>2, AddressAssumption DEF Accepted, WellFormed
  <2>4. Parsed(s) = IF Resolved(s) # <<>> THEN Address(Resolved(s), DefaultPort) ELSE BadAddr
    BY <2>2, <2>3 DEF Parsed
  <2>5. a = IF Resolved(s) = <<>> \/ DefaultPort > PortMax
              THEN BadAddr ELSE Address(Resolved(s), DefaultPort)
    BY <1>2, <2>1 DEF Meaning
  <2> QED
    BY <2>4, <2>5, AddressAssumption
<1>4. ASSUME NEW i \in DOMAIN s, s[i] = ":", i < Len(s),
             x = <<SubSeq(s, 1, i - 1), SubSeq(s, i + 1, Len(s))>>
      PROVE  Parsed(s) = a
  <2> DEFINE h == x[1]
             p == x[2]
  <2>1. h = SubSeq(s, 1, i - 1) /\ p = SubSeq(s, i + 1, Len(s))
    BY <1>4
  <2>2. HostOf(s) = h /\ PortOf(s) = AsInt(Decimal(p)) /\ Decimal(p) \in Nat
    BY <1>1, <1>2, <1>4, <2>1, HostAndPort
  <2>3. p # <<>>
    <3>1. Len(SubSeq(s, i + 1, Len(s))) = Len(s) - i /\ Len(s) \in Nat /\ i \in 1..Len(s)
      BY <1>1, <1>4, SubSeqProperties, LenProperties
    <3>2. Len(p) # 0
      BY <1>4, <2>1, <3>1
    <3> QED
      BY <3>2
  <2>4. /\ Accepted(s) <=> Decimal(p) <= PortMax
        /\ Accepted(s) => PortOf(s) = Decimal(p)
    <3>1. Accepted(s) <=> AsInt(Decimal(p)) \in 0..PortMax
      BY <1>2, <2>2 DEF Accepted, WellFormed
    <3>2. CASE Decimal(p) <= IntMax
      <4>1. AsInt(Decimal(p)) = Decimal(p)
        BY <2>2, <3>2, IntStays, AddressAssumption
      <4> QED
        BY <2>2, <3>1, <4>1, AddressAssumption
    <3>3. CASE ~(Decimal(p) <= IntMax)
      <4>1. AsInt(Decimal(p)) \notin 0..PortMax
        BY <1>2, <2>2, <3>3, AddressAssumption DEF Aliased
      <4> QED
        BY <2>2, <3>1, <3>3, <4>1, AddressAssumption
    <3> QED
      BY <3>2, <3>3
  <2>5. a = IF Resolved(h) = <<>> \/ Decimal(p) > PortMax
              THEN BadAddr ELSE Address(Resolved(h), Decimal(p))
    BY <1>2, <2>3 DEF Meaning
  <2>6. Parsed(s) = IF Accepted(s) /\ Resolved(h) # <<>>
                      THEN Address(Resolved(h), PortOf(s)) ELSE BadAddr
    BY <2>2 DEF Parsed
  <2> HIDE DEF h, p
  <2> QED
    BY <2>2, <2>4, <2>5, <2>6, AddressAssumption
<1> QED
  BY <1>3, <1>4 DEF Parts

-----------------------------------------------------------------------------
\* The result is of the name of whoever has not copied it and was not overtaken.
ResolverState ==
  \A c \in Clients : at[c] = "resolve" /\ c \notin overtaken => hostent = Resolved(to[c].host)

\* A step that does not resolve.
Untouched ==
  /\ UNCHANGED resolver
  /\ \A c \in Clients :
       /\ at'[c] = "resolve" <=> at[c] = "resolve"
       /\ at[c] = "resolve" => to'[c] = to[c]

ReadsItsName(c) ==
  at[c] = "resolve" /\ at'[c] # "resolve" /\ c \notin overtaken =>
    to'[c].host = Resolved(to[c].host)

\* Only two steps touch what is resolved.
LEMMA OthersDoNotResolve ==
  ASSUME IInv, [ConnNext]_connVars,
         \A c \in Clients : ~Construct(c) /\ ~ReadHost(c)
  PROVE  Untouched
<1> USE DEF Untouched
<1>1. CASE UNCHANGED <<at, to, resolver>>
  BY <1>1
<1>2. ASSUME NEW c \in Clients, at[c] # "resolve", UNCHANGED resolver,
             NEW x, x # "resolve", at' = Put(at, c, x),
             \A d \in Clients \ {c} : to'[d] = to[d]
      PROVE  Untouched
  BY <1>2 DEF IInv, ClientTypes, Put
<1>3. ASSUME NEW c \in Clients, at[c] # "resolve", UNCHANGED resolver,
             NEW how \in {"done"} \union Thrown, Ends(c, how)
      PROVE  Untouched
  <2>1. at' = Put(at, c, how) /\ how # "resolve"
    BY <1>3 DEF Ends, Thrown
  <2>2. \A d \in Clients \ {c} : to'[d] = to[d]
    BY <1>3 DEF Ends, Put, IInv, ClientTypes
  <2> QED
    BY <1>2, <1>3, <2>1, <2>2
<1>4. ASSUME NEW c \in Clients, Connecting(c)
      PROVE  Untouched
  BY <1>2, <1>4 DEF Connecting, locals
<1>5. ASSUME NEW c \in Clients, ConnectingTimed(c)
      PROVE  Untouched
  <2>1. at[c] = "socket" /\ UNCHANGED resolver
    BY <1>5 DEF ConnectingTimed
  <2>2. CASE at' = Put(at, c, "select") /\ UNCHANGED to
    BY <1>2, <2>1, <2>2
  <2>3. CASE Ends(c, "refused")
    BY <1>3, <2>1, <2>3 DEF Thrown
  <2> QED
    BY <1>5, <2>2, <2>3 DEF ConnectingTimed
<1>6. ASSUME NEW c \in Clients, Connected(c) \/ ConnectTimesOut(c)
      PROVE  Untouched
  <2>1. at[c] # "resolve" /\ UNCHANGED resolver
    BY <1>6 DEF Connected, ConnectTimesOut, Trying
  <2>2. \E how \in {"done"} \union Thrown : Ends(c, how)
    BY <1>6 DEF Connected, ConnectTimesOut, Thrown
  <2> QED
    BY <1>3, <2>1, <2>2
<1>7. ASSUME NEW c \in Clients, ConnectSignal(c)
      PROVE  Untouched
  <2>1. UNCHANGED resolver
    BY <1>7 DEF ConnectSignal
  <2>2. CASE at[c] = "connect" /\ Ends(c, "signal")
    BY <1>3, <2>1, <2>2 DEF Thrown
  <2>3. CASE UNCHANGED <<at, to>>
    BY <1>1, <2>1, <2>3
  <2> QED
    BY <1>7, <2>2, <2>3 DEF ConnectSignal
<1>8. ASSUME NEW c \in Clients, Leave(c) \/ Establish(c) \/ Refuse(c) \/ Drop(c)
      PROVE  Untouched
  BY <1>1, <1>8 DEF Leave, Establish, Refuse, Drop, locals, clientVars, resolver
<1>9. ASSUME NEW t \in Threads, ThreadStep(t)
      PROVE  Untouched
  BY <1>1, <1>9 DEF ThreadStep, clientVars, resolver
<1>10. UNCHANGED clientVars \/ BothTick \/ UNCHANGED connVars => Untouched
  BY <1>1 DEF clientVars, BothTick, connVars, resolver
<1> QED
  BY <1>4, <1>5, <1>6, <1>7, <1>8, <1>9, <1>10 DEF ConnNext, ConnectStep

\* Whoever copies the result before another calls gethostbyname() gets its own.
LEMMA StepResolves ==
  ASSUME IInv, ResolverState, [ConnNext]_connVars
  PROVE  ResolverState' /\ \A c \in Clients : ReadsItsName(c)
<1> USE DEF ResolverState, ReadsItsName
<1>1. CASE Untouched
  BY <1>1 DEF Untouched, resolver
<1>2. ASSUME NEW c \in Clients, ReadHost(c)
      PROVE  ResolverState' /\ \A d \in Clients : ReadsItsName(d)
  <2>1. /\ at[c] = "resolve" /\ at' = Put(at, c, "socket")
        /\ to' = Put(to, c, Address(hostent, to[c].port))
        /\ overtaken' = overtaken \ {c} /\ hostent' = hostent
    BY <1>2 DEF ReadHost
  <2>2. /\ at'[c] = "socket" /\ to'[c].host = hostent
        /\ \A d \in Clients \ {c} : at'[d] = at[d] /\ to'[d] = to[d]
    BY <2>1 DEF Put, Address, IInv, ClientTypes
  <2> QED
    BY <2>1, <2>2
<1>3. ASSUME NEW c \in Clients, Construct(c)
      PROVE  ResolverState' /\ \A d \in Clients : ReadsItsName(d)
  <2>1. at[c] = "none"
    BY <1>3 DEF Construct
  <2>2. CASE Ends(c, "address") /\ UNCHANGED <<hostent, overtaken>>
    <3>1. /\ at'[c] = "address"
          /\ \A d \in Clients \ {c} : at'[d] = at[d] /\ to'[d] = to[d]
      BY <2>2 DEF Ends, Put, IInv, ClientTypes
    <3> QED
      BY <2>1, <2>2, <3>1
  <2>3. ASSUME NEW s \in Addresses, to' = Put(to, c, Address(HostOf(s), PortOf(s))),
               at' = Put(at, c, "socket"), UNCHANGED <<hostent, overtaken>>
        PROVE  ResolverState' /\ \A d \in Clients : ReadsItsName(d)
    <3>1. /\ at'[c] = "socket"
          /\ \A d \in Clients \ {c} : at'[d] = at[d] /\ to'[d] = to[d]
      BY <2>3 DEF Put, IInv, ClientTypes
    <3> QED
      BY <2>1, <2>3, <3>1
  <2>4. ASSUME NEW s \in Addresses, to' = Put(to, c, Address(HostOf(s), PortOf(s))),
               at' = Put(at, c, "resolve"), hostent' = Resolved(HostOf(s)),
               overtaken' = overtaken \union {d \in Clients : at[d] = "resolve"}
        PROVE  ResolverState' /\ \A d \in Clients : ReadsItsName(d)
    <3>1. /\ at'[c] = "resolve" /\ to'[c].host = HostOf(s)
          /\ \A d \in Clients \ {c} : at'[d] = at[d]
      BY <2>4 DEF Put, Address, IInv, ClientTypes
    <3> QED
      BY <2>4, <3>1
  <2> QED
    BY <1>3, <2>2, <2>3, <2>4, Zenon DEF Construct, resolver
<1> QED
  BY <1>1, <1>2, <1>3, OthersDoNotResolve

\* A string of the documented form gives the host and the port that it means
\* (base_inet.cpp:42-69), and whoever resolves at the same time, the address is that
\* of the name that was given, unless another's gethostbyname() came between
\* (base_inet.cpp:20-26).
THEOREM AddressMeant == ConnSpec => AddressIsMeant
<1>1. ConnInit => ResolverState
  BY DEF ConnInit, ResolverState
<1>2. IInv /\ ResolverState /\ [ConnNext]_connVars => ResolverState'
  BY StepResolves
<1>3. IInv /\ ResolverState /\ [ConnNext]_connVars =>
        [ParsesAsMeant /\ \A c \in Clients : ReadsItsName(c)]_connVars
  BY StepResolves, AddressesAgree
<1> QED
  BY <1>1, <1>2, <1>3, ConnectionInductive, PTL DEF ConnSpec, AddressIsMeant, ReadsItsName

-----------------------------------------------------------------------------
\* A server has a path to delete from before its bind() until it unlinks, and a
\* file only while it has.
OwnerState ==
  \A s \in Servers :
    /\ doing[s] \in {"bind", "listen", "stop_close", "stop_unlink"} => s \in autodel
    /\ bound[s] # NoInode => s \in autodel
    /\ s \in listening => s \in autodel

\* What holds of a server's socket and flag at each point of its life.
ServerState ==
  \A s \in Servers :
    /\ doing[s] = "none" =>
         s \notin open /\ s \notin making /\ s \notin listening /\ bound[s] = NoInode
    /\ doing[s] \in {"stop_close", "stop_unlink"} => s \in listening /\ s \notin making
    /\ doing[s] \in {"stop_unlink", "dtor_unlink"} => s \notin open
    /\ doing[s] = "stop_close" => s \in accepting
    /\ doing[s] \in {"bind", "listen"} => s \notin listening /\ s \notin accepting
    /\ doing[s] = "idle" => s \notin making /\ (s \in listening <=> s \in accepting)
    /\ doing[s] = "listen" => s \in open

ListenIInv == ListenTypeOK /\ OwnerState /\ ServerState
IFile == ListenIInv /\ FileHasOwner

\* With no server there is nothing to own or to listen.
LEMMA ListenInitIInv == ListenInit => ListenIInv /\ FileHasOwner
BY ListenerAssumption DEF ListenInit, ListenIInv, ListenTypeOK, OwnerState, ServerState, FileHasOwner

\* No step of any server disturbs ListenIInv.
LEMMA ListenNextIInv ==
  ASSUME ListenIInv, [ListenNext]_listenVars
  PROVE  ListenIInv'
<1> USE ListenerAssumption DEF ListenIInv, ListenTypeOK, OwnerState, ServerState, Goto, sockets
<1>1. ASSUME NEW s \in Servers, ConstructServer(s) PROVE ListenIInv'
  BY <1>1 DEF ConstructServer
<1>2. ASSUME NEW s \in Servers, ConstructStarted(s) PROVE ListenIInv'
  BY <1>2 DEF ConstructStarted, Used
<1>3. ASSUME NEW s \in Servers, ListeningStart(s) PROVE ListenIInv'
  BY <1>3 DEF ListeningStart, Used
<1>4. ASSUME NEW s \in Servers, BindOk(s) PROVE ListenIInv'
  <2>1. s \in open
    BY <1>4 DEF BindOk, CanBind
  <2> QED
    BY <1>4, <2>1 DEF BindOk
<1>5. ASSUME NEW s \in Servers, BindFails(s) PROVE ListenIInv'
  BY <1>5 DEF BindFails, CanBind, AfterFailure
<1>6. ASSUME NEW s \in Servers, ListenOk(s) PROVE ListenIInv'
  BY <1>6 DEF ListenOk
<1>7. ASSUME NEW s \in Servers, ListenFails(s) PROVE ListenIInv'
  BY <1>7 DEF ListenFails, AfterFailure
<1>8. ASSUME NEW s \in Servers, ListeningStop(s) PROVE ListenIInv'
  BY <1>8 DEF ListeningStop
<1>9. ASSUME NEW s \in Servers, StopClose(s) PROVE ListenIInv'
  BY <1>9 DEF StopClose
<1>10. ASSUME NEW s \in Servers, StopUnlink(s) PROVE ListenIInv'
  BY <1>10 DEF StopUnlink, ListeningStopped
<1>11. ASSUME NEW s \in Servers, Destroy(s) PROVE ListenIInv'
  BY <1>11 DEF Destroy
<1>12. ASSUME NEW s \in Servers, DtorClose(s) PROVE ListenIInv'
  <2>1. CASE Unlinks(s)
    BY <1>12, <2>1 DEF DtorClose, Unlinks
  <2>2. CASE ~Unlinks(s)
    <3>1. s \notin autodel /\ s \notin listening /\ bound[s] = NoInode
      BY <2>2 DEF Unlinks
    <3>2. Gone(s) /\ open' = open \ {s} /\ accepting' = accepting \ {s}
          /\ UNCHANGED <<file, used, orphans>>
      BY <1>12, <2>2 DEF DtorClose
    <3>3. ListenTypeOK'
      BY <3>2 DEF Gone
    <3>4. OwnerState'
      BY <3>1, <3>2 DEF Gone
    <3>5. ServerState'
      BY <3>1, <3>2 DEF Gone
    <3> QED
      BY <3>3, <3>4, <3>5
  <2> QED
    BY <2>1, <2>2
<1>13. ASSUME NEW s \in Servers, DtorUnlink(s) PROVE ListenIInv'
  BY <1>13 DEF DtorUnlink, Gone
<1>14. ASSUME NEW s \in Servers, Crash(s) PROVE ListenIInv'
  BY <1>14 DEF Crash, Gone
<1>15. CASE UNCHANGED listenVars
  BY <1>15 DEF listenVars
<1> HIDE DEF ListenIInv
<1> QED
  BY <1>1, <1>2, <1>3, <1>4, <1>5, <1>6, <1>7, <1>8, <1>9, <1>10, <1>11, <1>12,
     <1>13, <1>14, <1>15 DEF ListenNext, SystemCall

\* A file loses its owner only by being deleted, or when a process dies.
LEMMA ListenNextFile ==
  ASSUME ListenIInv, FileHasOwner, [ListenNext]_listenVars
  PROVE  FileHasOwner'
<1> USE ListenerAssumption DEF FileHasOwner, Goto, sockets
<1>1. ASSUME NEW s \in Servers,
             \/ ConstructServer(s) \/ ConstructStarted(s) \/ ListeningStart(s) \/ BindFails(s)
             \/ ListenOk(s) \/ ListenFails(s) \/ ListeningStop(s) \/ StopClose(s)
             \/ Destroy(s)
      PROVE  FileHasOwner'
  BY <1>1 DEF ConstructServer, ConstructStarted, ListeningStart, BindFails, ListenOk,
     ListenFails, ListeningStop, StopClose, Destroy, Used
<1>2. ASSUME NEW s \in Servers, BindOk(s) PROVE FileHasOwner'
  BY <1>2 DEF BindOk, ListenIInv, ListenTypeOK, OwnerState
<1>3. ASSUME NEW s \in Servers, StopUnlink(s) \/ DtorUnlink(s) PROVE FileHasOwner'
  BY <1>3 DEF StopUnlink, DtorUnlink
<1>4. ASSUME NEW s \in Servers, DtorClose(s) PROVE FileHasOwner'
  <2>1. CASE Unlinks(s)
    BY <1>4, <2>1 DEF DtorClose
  <2>2. CASE ~Unlinks(s)
    BY <1>4, <2>2 DEF DtorClose, Unlinks, Gone, ListenIInv, ListenTypeOK, OwnerState
  <2> QED
    BY <2>1, <2>2
<1>5. ASSUME NEW s \in Servers, Crash(s) PROVE FileHasOwner'
  BY <1>5 DEF Crash, Gone, ListenIInv, ListenTypeOK
<1>6. CASE UNCHANGED listenVars
  BY <1>6 DEF listenVars
<1> HIDE DEF FileHasOwner
<1> QED
  BY <1>1, <1>2, <1>3, <1>4, <1>5, <1>6 DEF ListenNext, SystemCall

\* What is known of the socket, the flag and the path between two system calls always holds.
THEOREM ListenerInductive == ListenSpec => []ListenIInv
<1>1. ListenInit => ListenIInv
  BY ListenInitIInv
<1>2. ListenIInv /\ [ListenNext]_listenVars => ListenIInv'
  BY ListenNextIInv
<1> QED
  BY <1>1, <1>2, PTL DEF ListenSpec

\* The state is well-typed; in particular only open sockets listen.
THEOREM ListenerTypeCorrect == ListenSpec => []ListenTypeOK
<1>1. ListenIInv => ListenTypeOK
  BY DEF ListenIInv
<1> QED
  BY <1>1, ListenerInductive, PTL

\* The listening flag always tells the state of the socket between two calls.
THEOREM FlagCorrect == ListenSpec => []FlagIsTrue
<1>1. ListenIInv => FlagIsTrue
  BY DEF ListenIInv, ServerState, FlagIsTrue
<1> QED
  BY <1>1, ListenerInductive, PTL

\* The file at the path always has a server that will delete it, unless that
\* server died, for any number of servers and any failures.
THEOREM FileIsOwned == ListenSpec => []FileHasOwner
<1>1. ListenInit => IFile
  BY ListenInitIInv DEF IFile
<1>2. IFile /\ [ListenNext]_listenVars => IFile'
  BY ListenNextIInv, ListenNextFile DEF IFile
<1>3. IFile => FileHasOwner
  BY DEF IFile
<1> QED
  BY <1>1, <1>2, <1>3, PTL DEF ListenSpec
=============================================================================
