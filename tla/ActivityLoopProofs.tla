------------------------- MODULE ActivityLoopProofs -------------------------
(***************************************************************************)
(* ActivityLoop for every set of descriptors and every program: the set    *)
(* that select() is given is always the list's, and what it found is still *)
(* to be read when its turn comes.                                         *)
(***************************************************************************)
EXTENDS ActivityLoop, TLAPS, SequenceTheorems, WellFoundedInduction

\* The clients that select() found are still to be served, but for those that
\* have been.
FoundClients ==
  /\ pc \in {"monitors", "listener"} => ToSet(retained) \intersect cpset \subseteq readable
  /\ pc = "clients" =>
       \A i \in DOMAIN retained : i > pos /\ retained[i] \in cpset => retained[i] \in readable

\* Nobody else accepts the connection that select() has seen; it may go.
FoundConnection ==
  /\ pc \in {"monitors", "listener"} /\ Listener \in cpset => queue > 0 \/ gone
  /\ pc = "listener" => Listener \in cpset

\* The monitored descriptors that select() found are still to be served, but for
\* those that have been.
FoundMonitors ==
  pc = "monitors" =>
    \A i \in DOMAIN Monitors : i > pos /\ Monitors[i] \in cpset => Monitors[i] \in readable

IInv ==
  /\ TypeOK
  /\ SetIsCurrent
  /\ FoundClients
  /\ FoundConnection
-----------------------------------------------------------------------------
\* What Min of the community modules gives for natural numbers.
LEMMA MinIsLeast ==
  ASSUME NEW S \in SUBSET Nat, S # {}
  PROVE  Min(S) \in S /\ \A y \in S : Min(S) <= y
<1> DEFINE R == OpToRel(<, Nat)
<1>1. PICK x \in S : \A y \in S : <<y, x>> \notin R
  BY NatLessThanWellFounded, WFMin
<1>2. \A y \in S : ~ (y < x)
  BY <1>1 DEF OpToRel
<1>3. \A y \in S : x <= y
  BY <1>2
<1> QED
  BY <1>3 DEF Min

\* A sequence without its ith element.
LEMMA RemoveAtProperties ==
  ASSUME NEW S, NEW s \in Seq(S), NEW i \in 1..Len(s)
  PROVE  /\ RemoveAt(s, i) \in Seq(S)
         /\ Len(RemoveAt(s, i)) = Len(s) - 1
         /\ \A j \in 1..(Len(s) - 1) : RemoveAt(s, i)[j] = IF j < i THEN s[j] ELSE s[j + 1]
<1> DEFINE a == SubSeq(s, 1, i - 1)
           b == SubSeq(s, i + 1, Len(s))
<1>1. Len(s) \in Nat /\ \A j \in 1..Len(s) : s[j] \in S
  BY LenProperties, ElementOfSeq
<1>2. /\ a \in Seq(S) /\ Len(a) = i - 1
      /\ \A j \in 1..(i - 1) : a[j] = s[j]
  BY <1>1, SubSeqProperties
<1>3. /\ b \in Seq(S) /\ Len(b) = Len(s) - i
      /\ \A j \in 1..(Len(s) - i) : b[j] = s[i + j]
  BY <1>1, SubSeqProperties
<1> HIDE DEF a, b
<1>4. /\ a \o b \in Seq(S) /\ Len(a \o b) = Len(s) - 1
      /\ \A j \in 1..(Len(s) - 1) : (a \o b)[j] = IF j < i THEN s[j] ELSE s[j + 1]
  <2>1. /\ a \o b \in Seq(S) /\ Len(a \o b) = Len(a) + Len(b)
        /\ \A j \in 1..(Len(a) + Len(b)) :
             (a \o b)[j] = IF j <= Len(a) THEN a[j] ELSE b[j - Len(a)]
    BY <1>2, <1>3, ConcatProperties
  <2>2. Len(a) + Len(b) = Len(s) - 1
    BY <1>1, <1>2, <1>3
  <2>3. ASSUME NEW j \in 1..(Len(s) - 1)
        PROVE  (a \o b)[j] = IF j < i THEN s[j] ELSE s[j + 1]
    <3>1. CASE j < i
      BY <1>1, <1>2, <2>1, <2>2, <3>1
    <3>2. CASE ~(j < i)
      <4>1. j - (i - 1) \in 1..(Len(s) - i) /\ i + (j - (i - 1)) = j + 1
        BY <1>1, <3>2
      <4> QED
        BY <1>1, <1>2, <1>3, <2>1, <2>2, <3>2, <4>1
    <3> QED
      BY <3>1, <3>2
  <2> QED
    BY <2>1, <2>2, <2>3
<1> QED
  BY <1>4 DEF RemoveAt, a, b

\* Who is left in the list without its ith client, and that it holds nobody twice.
LEMMA WithoutOne ==
  ASSUME retained \in Seq(ClientFds), IsInjective(retained), NEW i \in DOMAIN retained
  PROVE  /\ RemoveAt(retained, i) \in Seq(ClientFds)
         /\ IsInjective(RemoveAt(retained, i))
         /\ ToSet(retained) \ {retained[i]} \subseteq ToSet(RemoveAt(retained, i))
<1> DEFINE r == RemoveAt(retained, i)
<1>1. i \in 1..Len(retained) /\ Len(retained) \in Nat /\ DOMAIN retained = 1..Len(retained)
  BY LenProperties
<1>2. /\ r \in Seq(ClientFds) /\ Len(r) = Len(retained) - 1
      /\ \A j \in 1..(Len(retained) - 1) : r[j] = IF j < i THEN retained[j] ELSE retained[j + 1]
  BY <1>1, RemoveAtProperties
<1> HIDE DEF r
<1>3. DOMAIN r = 1..(Len(retained) - 1)
  BY <1>2, LenProperties
<1>4. IsInjective(r)
  <2> SUFFICES ASSUME NEW a \in DOMAIN r, NEW b \in DOMAIN r, r[a] = r[b] PROVE a = b
    BY DEF IsInjective
  <2> DEFINE at(j) == IF j < i THEN j ELSE j + 1
  <2>1. at(a) \in DOMAIN retained /\ at(b) \in DOMAIN retained
    BY <1>1, <1>3
  <2>2. r[a] = retained[at(a)] /\ r[b] = retained[at(b)]
    BY <1>2, <1>3
  <2>3. at(a) = at(b)
    BY <2>1, <2>2 DEF IsInjective
  <2> QED
    BY <1>1, <1>3, <2>3
<1>5. ASSUME NEW f \in ToSet(retained) \ {retained[i]} PROVE f \in ToSet(r)
  <2>1. PICK j \in DOMAIN retained : retained[j] = f
    BY DEF ToSet
  <2>2. CASE j < i
    <3>1. j \in DOMAIN r /\ r[j] = f
      BY <1>1, <1>2, <1>3, <2>1, <2>2
    <3> QED
      BY <3>1 DEF ToSet
  <2>3. CASE j > i
    <3>1. j - 1 \in DOMAIN r /\ r[j - 1] = f
      BY <1>1, <1>2, <1>3, <2>1, <2>3
    <3> QED
      BY <3>1 DEF ToSet
  <2> QED
    BY <1>1, <2>1, <2>2, <2>3
<1> QED
  BY <1>2, <1>4, <1>5 DEF r

\* Who is in the list with one more client, who was not in it.
LEMMA WithOneMore ==
  ASSUME retained \in Seq(ClientFds), IsInjective(retained), NEW f \in ClientFds \ ToSet(retained)
  PROVE  /\ Append(retained, f) \in Seq(ClientFds)
         /\ IsInjective(Append(retained, f))
         /\ ToSet(retained) \subseteq ToSet(Append(retained, f))
<1> DEFINE r == Append(retained, f)
<1>1. Len(retained) \in Nat /\ DOMAIN retained = 1..Len(retained)
  BY LenProperties
<1>2. /\ r \in Seq(ClientFds) /\ Len(r) = Len(retained) + 1
      /\ \A j \in 1..Len(retained) : r[j] = retained[j]
      /\ r[Len(retained) + 1] = f
  BY AppendProperties
<1> HIDE DEF r
<1>3. DOMAIN r = 1..(Len(retained) + 1)
  BY <1>2, LenProperties
<1>4. \A j \in DOMAIN retained : retained[j] # f
  BY DEF ToSet
<1>5. IsInjective(r)
  <2> SUFFICES ASSUME NEW a \in DOMAIN r, NEW b \in DOMAIN r, r[a] = r[b] PROVE a = b
    BY DEF IsInjective
  <2> QED
    BY <1>1, <1>2, <1>3, <1>4 DEF IsInjective
<1>6. ToSet(retained) \subseteq ToSet(r)
  BY <1>1, <1>2, <1>3 DEF ToSet
<1> QED
  BY <1>2, <1>5, <1>6 DEF r

\* The next descriptor of a list to be served is one of those that select() left.
LEMMA NextIsReady ==
  ASSUME NEW S, NEW list \in Seq(S), NextReady(list) # {}
  PROVE  /\ Min(NextReady(list)) \in DOMAIN list
         /\ Min(NextReady(list)) > pos
         /\ list[Min(NextReady(list))] \in cpset
<1>1. DOMAIN list \subseteq Nat
  BY LenProperties
<1>2. NextReady(list) \in SUBSET Nat
  BY <1>1 DEF NextReady
<1>3. Min(NextReady(list)) \in NextReady(list)
  BY <1>2, MinIsLeast
<1> QED
  BY <1>3 DEF NextReady

-----------------------------------------------------------------------------
\* The list is injective and nothing is waited for before the loop is entered.
LEMMA InitIInv == Init => IInv
<1> SUFFICES ASSUME Init PROVE IInv
  OBVIOUS
<1>1. gone \in BOOLEAN
  BY DEF Init
<1>2. /\ retained \in Seq(ClientFds) /\ IsInjective(retained)
      /\ queue \in 0..MaxQueue
      /\ readable \subseteq Open \ {Listener}
      /\ pc = "idle" /\ cpset \subseteq set /\ pos \in Nat
  BY LoopAssumption DEF Init, Open
<1> QED
  BY <1>1, <1>2 DEF IInv, TypeOK, SetIsCurrent, FoundClients, FoundConnection

\* The monitored descriptors are not the clients'.
LEMMA Apart ==
  ASSUME TypeOK
  PROVE  /\ ToSet(retained) \subseteq ClientFds
         /\ Listener \notin ToSet(retained) \cup ToSet(Monitors)
         /\ \A i \in DOMAIN Monitors : Monitors[i] \notin ToSet(retained)
<1>1. ToSet(retained) \subseteq ClientFds
  <2>1. \A i \in DOMAIN retained : retained[i] \in ClientFds
    BY LenProperties, ElementOfSeq DEF TypeOK
  <2> QED
    BY <2>1 DEF ToSet
<1>2. \A i \in DOMAIN Monitors : Monitors[i] \notin ClientFds
  BY LoopAssumption, LenProperties, ElementOfSeq
<1> QED
  BY <1>1, <1>2, LoopAssumption

\* select() reports what is open and has something to read.
LEMMA SelectIInv ==
  ASSUME IInv, Select
  PROVE  IInv'
<1> USE DEF Select, SetAfter, Open, Active
<1>1. TypeOK'
  BY DEF IInv, TypeOK
<1>2. SetIsCurrent'
  BY DEF IInv, SetIsCurrent
<1>3. FoundClients'
  BY Apart DEF IInv, FoundClients, TypeOK
<1>4. FoundConnection'
  BY Apart DEF IInv, FoundConnection, TypeOK
<1> QED
  BY <1>1, <1>2, <1>3, <1>4 DEF IInv

\* A monitored descriptor is read: no client's.
LEMMA MonitorActivityIInv ==
  ASSUME IInv, MonitorActivity
  PROVE  IInv'
<1> USE DEF MonitorActivity, Open, After
<1> DEFINE i == Min(NextReady(Monitors))
<1>1. i \in DOMAIN Monitors /\ i \in Nat /\ readable' = readable \ {Monitors[i]} /\ pos' = i
  <2>1. Monitors \in Seq(Nat \ ClientFds)
    BY LoopAssumption
  <2> QED
    BY <2>1, NextIsReady, LenProperties
<1> HIDE DEF i
<1>2. pc = "monitors" /\ pc' \in {"monitors", "rescan", "idle"} /\ UNCHANGED <<retained, queue, set, cpset, gone>>
  BY LoopAssumption
<1> HIDE DEF MonitorActivity, After
<1>3. TypeOK'
  BY <1>1, <1>2 DEF IInv, TypeOK
<1>4. SetIsCurrent'
  BY <1>1, <1>2 DEF IInv, SetIsCurrent
<1>5. FoundClients'
  BY <1>1, <1>2, Apart DEF IInv, FoundClients
<1>6. FoundConnection'
  BY <1>1, <1>2 DEF IInv, FoundConnection
<1> QED
  BY <1>3, <1>4, <1>5, <1>6 DEF IInv

\* A connection is accepted: its descriptor is nobody else's in the list.
LEMMA NewClientIInv ==
  ASSUME IInv, NewClient
  PROVE  IInv'
<1> USE DEF NewClient, Open
<1>1. /\ pc = "listener" /\ queue > 0 /\ queue' = queue - 1
      /\ UNCHANGED <<readable, set, cpset, pos, gone>>
  OBVIOUS
<1>2. CASE retained' = retained /\ \E r \in Returns : pc' = After(r, "clients")
  <2>1. pc' \in {"clients", "rescan", "idle"}
    BY <1>2, LoopAssumption DEF After
  <2> HIDE DEF NewClient
  <2>2. TypeOK'
    BY <1>1, <1>2, <2>1, LoopAssumption DEF IInv, TypeOK
  <2>3. SetIsCurrent' /\ FoundConnection'
    BY <1>1, <1>2, <2>1 DEF IInv, SetIsCurrent, FoundConnection
  <2>4. FoundClients'
    BY <1>1, <1>2, <2>1 DEF IInv, FoundClients, ToSet
  <2> QED
    BY <2>2, <2>3, <2>4 DEF IInv
<1>3. CASE retained' = Append(retained, Accepted) /\ pc' = After(AfterChange, "clients")
  <2>1. pc' = "rescan"
    BY <1>3 DEF After, AfterChange
  <2>2. ClientFds \ ToSet(retained) \in SUBSET Nat
    BY LoopAssumption
  <2>3. Accepted \in ClientFds \ ToSet(retained)
    BY <2>2, MinIsLeast DEF Accepted
  <2> HIDE DEF NewClient
  <2>4. /\ retained' \in Seq(ClientFds) /\ IsInjective(retained')
        /\ ToSet(retained) \subseteq ToSet(retained')
    BY <1>3, <2>3, WithOneMore DEF IInv, TypeOK
  <2>5. TypeOK'
    BY <1>1, <2>1, <2>4, LoopAssumption DEF IInv, TypeOK
  <2> QED
    BY <2>1, <2>5 DEF IInv, SetIsCurrent, FoundClients, FoundConnection
<1> QED
  BY <1>2, <1>3

\* A client is served, and may be released.
LEMMA ClientActivityIInv ==
  ASSUME IInv, ClientActivity
  PROVE  IInv'
<1> USE DEF ClientActivity, Open
<1> DEFINE i == Min(NextReady(retained))
<1>1. retained \in Seq(ClientFds) /\ IsInjective(retained)
  BY DEF IInv, TypeOK
<1>2. /\ i \in DOMAIN retained /\ i > pos /\ i \in Nat
      /\ readable' = readable \ {retained[i]} /\ pos' = i
      /\ pc = "clients" /\ UNCHANGED <<queue, set, cpset, gone>>
  BY <1>1, NextIsReady, LenProperties
<1>3. CASE retained' = retained /\ \E r \in Returns : pc' = After(r, "clients")
  <2>1. pc' \in {"clients", "rescan", "idle"}
    BY <1>3, LoopAssumption DEF After
  <2> HIDE DEF ClientActivity, i
  <2>2. TypeOK'
    BY <1>2, <1>3, <2>1 DEF IInv, TypeOK
  <2>3. SetIsCurrent' /\ FoundConnection'
    BY <1>2, <1>3, <2>1 DEF IInv, SetIsCurrent, FoundConnection
  <2>4. FoundClients'
    <3> SUFFICES ASSUME NEW k \in DOMAIN retained, k > i, retained[k] \in cpset
                 PROVE  retained[k] \in readable'
      BY <1>2, <1>3, <2>1 DEF FoundClients
    <3>1. k \in Nat /\ pos \in Nat
      BY <1>1, LenProperties DEF IInv, TypeOK
    <3>2. retained[k] \in readable
      BY <1>2, <3>1 DEF IInv, FoundClients
    <3>3. retained[k] # retained[i]
      BY <1>1, <1>2, <3>1 DEF IsInjective
    <3> QED
      BY <1>2, <3>2, <3>3
  <2> QED
    BY <2>2, <2>3, <2>4 DEF IInv
<1>4. CASE retained' = RemoveAt(retained, i) /\ pc' = After(AfterChange, "clients")
  <2>1. pc' = "rescan"
    BY <1>4 DEF After, AfterChange
  <2> HIDE DEF ClientActivity, i
  <2>2. /\ retained' \in Seq(ClientFds) /\ IsInjective(retained')
        /\ ToSet(retained) \ {retained[i]} \subseteq ToSet(retained')
    BY <1>1, <1>2, <1>4, WithoutOne
  <2>3. TypeOK'
    BY <1>2, <2>1, <2>2 DEF IInv, TypeOK
  <2> QED
    BY <2>1, <2>3 DEF IInv, SetIsCurrent, FoundClients, FoundConnection
<1> QED
  BY <1>3, <1>4

\* The scan has served its clients and its descriptors in turn.
LEMMA MonitorsDoneIInv ==
  ASSUME IInv, MonitorsDone
  PROVE  IInv'
<1> USE DEF MonitorsDone, Open
<1>1. TypeOK' /\ SetIsCurrent' /\ FoundConnection'
  BY DEF IInv, TypeOK, SetIsCurrent, FoundConnection
<1>2. FoundClients'
  BY DEF IInv, FoundClients, ToSet
<1> QED
  BY <1>1, <1>2 DEF IInv

-----------------------------------------------------------------------------
\* Whatever its callbacks do, the loop waits for what is in the list, and what
\* select() has found is there until it is served.
LEMMA LoopInductive == Spec => []IInv
<1>1. IInv /\ [Next]_vars => IInv'
  <2> SUFFICES ASSUME IInv, [Next]_vars PROVE IInv'
    OBVIOUS
  <2> USE DEF Open, SetIsCurrent, FoundClients, FoundConnection
  <2>1. CASE Connect
    BY <2>1, LoopAssumption DEF Connect, IInv, TypeOK
  <2>2. CASE Arrive
    BY <2>2 DEF Arrive, IInv, TypeOK
  <2>3. CASE Enter
    BY <2>3 DEF Enter, IInv, TypeOK
  <2>4. CASE Rescan
    BY <2>4 DEF Rescan, Filled, IInv, TypeOK
  <2>5. CASE Timeout
    BY <2>5 DEF Timeout, IInv, TypeOK
  <2>6. CASE AcceptFails
    BY <2>6 DEF AcceptFails, IInv, TypeOK
  <2>7. CASE ClientsDone
    BY <2>7 DEF ClientsDone, IInv, TypeOK
  <2>8. CASE UNCHANGED vars
    BY <2>8 DEF vars, IInv, TypeOK
  <2>9. CASE Drop
    <3>1. gone' \in BOOLEAN
      BY <2>9 DEF Drop
    <3>2. queue' \in 0..MaxQueue
      BY <2>9, LoopAssumption DEF Drop, IInv, TypeOK
    <3>3. TypeOK'
      BY <2>9, <3>1, <3>2 DEF Drop, IInv, TypeOK
    <3> QED
      BY <2>9, <3>3 DEF Drop, IInv
  <2> HIDE DEF Open, SetIsCurrent, FoundClients, FoundConnection
  <2> QED
    BY <2>1, <2>2, <2>3, <2>4, <2>5, <2>6, <2>7, <2>8, <2>9, SelectIInv, MonitorActivityIInv,
       MonitorsDoneIInv, NewClientIInv, ClientActivityIInv DEF Next, Loop
<1> QED
  BY <1>1, InitIInv, PTL DEF Spec

\* While it is scanned or waited for, the set holds the retained clients, the
\* listening socket and the monitored descriptors, and no closed descriptor: the
\* rescans that the callbacks ask for are enough.
THEOREM LoopCorrect == Spec => []LoopInv
<1>1. IInv => LoopInv
  BY DEF IInv, LoopInv
<1> QED
  BY <1>1, LoopInductive, PTL

\* The monitored descriptors are served once each, if each is given once.
LEMMA MonitorsStay ==
  ASSUME IsInjective(Monitors)
  PROVE  Spec => []FoundMonitors
<1>1. Init => FoundMonitors
  BY DEF Init, FoundMonitors
<1>2. IInv /\ FoundMonitors /\ [Next]_vars => FoundMonitors'
  <2> SUFFICES ASSUME IInv, FoundMonitors, [Next]_vars, pc' = "monitors",
                      NEW k \in DOMAIN Monitors, k > pos', Monitors[k] \in cpset'
               PROVE  Monitors[k] \in readable'
    BY DEF FoundMonitors
  <2>1. Monitors \in Seq(Nat \ ClientFds) /\ k \in Nat
    BY LoopAssumption, LenProperties
  <2>2. CASE Select
    BY <2>2, Apart DEF Select, Active, IInv, ToSet
  <2>3. CASE MonitorActivity
    <3> DEFINE i == Min(NextReady(Monitors))
    <3>1. /\ i \in DOMAIN Monitors /\ i > pos /\ readable' = readable \ {Monitors[i]}
          /\ pos' = i /\ pc = "monitors" /\ cpset' = cpset
      BY <2>1, <2>3, NextIsReady DEF MonitorActivity
    <3> HIDE DEF i
    <3>2. i \in Nat /\ pos \in Nat
      BY <2>1, <3>1, LenProperties DEF IInv, TypeOK
    <3>3. Monitors[k] \in readable
      BY <3>1, <3>2, <2>1 DEF FoundMonitors
    <3>4. Monitors[k] # Monitors[i]
      BY <3>1, <3>2, <2>1 DEF IsInjective
    <3> QED
      BY <3>1, <3>3, <3>4
  <2>4. CASE Connect \/ Drop \/ Arrive \/ UNCHANGED vars
    BY <2>4 DEF Connect, Drop, Arrive, vars, FoundMonitors
  <2>5. CASE Enter \/ Rescan \/ Timeout \/ MonitorsDone \/ AcceptFails \/ ClientsDone
    BY <2>5 DEF Enter, Rescan, Timeout, MonitorsDone, AcceptFails, ClientsDone
  <2>6. CASE NewClient \/ ClientActivity
    <3>1. pc' \in {"clients", "rescan", "idle"}
      BY <2>6, LoopAssumption DEF NewClient, ClientActivity, After, AfterChange
    <3> QED
      BY <3>1
  <2> QED
    BY <2>2, <2>3, <2>4, <2>5, <2>6 DEF Next, Loop
<1> QED
  BY <1>1, <1>2, LoopInductive, PTL DEF Spec

\* What the loop reads is still there to be read, though callbacks have run since
\* select() saw it, if each monitored descriptor is given once; and what it accepts,
\* unless a connection has gone with its peer in between: nothing else blocks it.
THEOREM NothingBlocksAlways ==
  ASSUME IsInjective(Monitors)
  PROVE  Spec => NothingBlocks
<1>1. IInv /\ FoundMonitors /\ [Next]_vars =>
        [/\ pc = "monitors" /\ pos' > pos => Monitors[pos'] \in readable
         /\ pc = "listener" => queue > 0 \/ gone
         /\ pc = "clients" /\ pos' > pos => retained[pos'] \in readable]_vars
  <2> SUFFICES ASSUME IInv, FoundMonitors, Next
               PROVE  /\ pc = "monitors" /\ pos' > pos => Monitors[pos'] \in readable
                      /\ pc = "listener" => queue > 0 \/ gone
                      /\ pc = "clients" /\ pos' > pos => retained[pos'] \in readable
    OBVIOUS
  <2>1. pc = "listener" => queue > 0 \/ gone
    BY DEF IInv, FoundConnection
  <2>2. ASSUME pc = "monitors", pos' > pos PROVE Monitors[pos'] \in readable
    <3>1. MonitorActivity
      BY <2>2 DEF Next, Loop, IInv, TypeOK, Connect, Drop, Arrive, Enter, Rescan, Select, Timeout,
         MonitorsDone, NewClient, AcceptFails, ClientActivity, ClientsDone
    <3>2. Monitors \in Seq(Nat \ ClientFds)
      BY LoopAssumption
    <3>3. pos' \in DOMAIN Monitors /\ Monitors[pos'] \in cpset
      BY <3>1, <3>2, NextIsReady DEF MonitorActivity
    <3> QED
      BY <2>2, <3>3 DEF FoundMonitors
  <2>3. ASSUME pc = "clients", pos' > pos PROVE retained[pos'] \in readable
    <3>1. ClientActivity
      BY <2>3 DEF Next, Loop, IInv, TypeOK, Connect, Drop, Arrive, Enter, Rescan, Select, Timeout,
         MonitorActivity, MonitorsDone, NewClient, AcceptFails, ClientsDone
    <3>2. pos' \in DOMAIN retained /\ retained[pos'] \in cpset
      BY <3>1, NextIsReady DEF ClientActivity, IInv, TypeOK
    <3> QED
      BY <2>3, <3>2 DEF IInv, FoundClients
  <2> QED
    BY <2>1, <2>2, <2>3
<1> QED
  BY <1>1, LoopInductive, MonitorsStay, PTL DEF Spec, NothingBlocks
=============================================================================
