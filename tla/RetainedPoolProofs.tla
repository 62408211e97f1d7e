------------------------- MODULE RetainedPoolProofs -------------------------
(***************************************************************************)
(* RetainedPool for every set of threads and clients and every program:    *)
(* who holds the mutex, and how often, at each point of each method; then  *)
(* what that means for the list and for who goes through it.               *)
(***************************************************************************)
EXTENDS RetainedPool, TLAPS, SequenceTheorems, WellFoundedInduction

\* The points of the methods by how often their thread has locked the mutex.
LockedOnce == {"insert", "erase", "accept", "relock"}
LockedTwice == {"reinsert", "fill", "select", "scan", "reunlock"}
Leaving == {"splice", "unlock", "no_return", "undefined"}

PoolTypeOK ==
  /\ owner \in Threads \cup {NoThread}
  /\ depth \in Nat
  /\ pc \in [Threads -> {"idle", "holding", "using", "each", "no_return", "undefined"}
                         \cup Outer \cup Inner]
  /\ op \in [Threads -> Methods]

\* Only the methods the program calls are under way.
CalledState ==
  \A t \in Threads : pc[t] \in Outer \cup Inner => op[t] \in Ops

\* A second lock counts, on a recursive mutex; on an error-checking one it has
\* failed; on a normal one nobody gets past it.
HeldState ==
  \A t \in Threads :
    /\ pc[t] \in LockedOnce => owner = t /\ depth = 1
    /\ pc[t] \in LockedTwice =>
         /\ owner = t
         /\ MutexKind # "normal"
         /\ depth = IF MutexKind = "recursive" THEN 2 ELSE 1
    /\ pc[t] = "splice" => op[t] = "fair"
    /\ pc[t] = "no_return" => owner = t
    /\ pc[t] = "accept" => op[t] = "accept"
    /\ pc[t] \in {"relock"} \cup LockedTwice => op[t] \in {"accept", "activity", "fair"}
    /\ pc[t] = "unlock" /\ op[t] \in {"retain", "release"} => owner = t
    /\ pc[t] \in {"splice", "unlock"} /\ MutexKind # "errorcheck" => owner = t

\* Whoever holds the mutex is inside a method.
OwnerState ==
  owner # NoThread =>
    /\ pc[owner] \in LockedOnce \cup LockedTwice \cup Leaving
    /\ pc[owner] \in {"splice", "unlock"} => depth = 1

IInv ==
  /\ PoolTypeOK
  /\ CalledState
  /\ HeldState
  /\ OwnerState

-----------------------------------------------------------------------------
\* Nobody has locked the mutex at first.
LEMMA InitIInv == Init => IInv
BY PoolAssumption DEF Init, IInv, PoolTypeOK, CalledState, HeldState, OwnerState,
   Methods, Outer, Inner, LockedOnce, LockedTwice

\* A thread that moves between two points where the mutex is held alike, or not
\* at all, and leaves the mutex alone.
LEMMA MoveIInv ==
  ASSUME IInv, NEW t \in Threads, NEW l, Goto(t, l), UNCHANGED <<owner, depth, op>>,
         \/ pc[t] \in {"idle", "holding", "using"} /\ l \in {"idle", "holding", "using", "each"}
         \/ pc[t] = "each" /\ l \in {"idle", "each", "undefined"}
         \/ pc[t] \in LockedTwice /\ l \in LockedTwice
         \/ pc[t] \in LockedOnce /\ l \in {"unlock", "undefined"}
         \/ pc[t] = "accept" /\ l = "relock"
         \/ pc[t] = "reinsert" /\ l = "reunlock"
         \/ pc[t] = "scan" /\ l = "no_return"
         \/ pc[t] = "splice" /\ l \in {"unlock", "undefined"}
  PROVE  IInv'
<1> USE DEF Goto, Outer, Inner, LockedOnce, LockedTwice
<1>1. l \in {"idle", "holding", "using", "each", "no_return", "undefined"} \cup Outer \cup Inner
  OBVIOUS
<1>2. PoolTypeOK'
  BY <1>1 DEF IInv, PoolTypeOK
<1>3. CalledState'
  BY DEF IInv, PoolTypeOK, CalledState
<1>4. HeldState'
  BY DEF IInv, PoolTypeOK, HeldState
<1>5. OwnerState'
  BY PoolAssumption DEF IInv, PoolTypeOK, HeldState, OwnerState, Leaving
<1> QED
  BY <1>2, <1>3, <1>4, <1>5 DEF IInv

\* A method is called.
LEMMA CallIInv ==
  ASSUME IInv, NEW t \in Threads, NEW o \in Methods, Call(t, o)
  PROVE  IInv'
<1> USE DEF Call, Goto, mutex, Outer, Inner, LockedOnce, LockedTwice
<1>1. pc[t] \in {"idle", "holding", "using"}
  OBVIOUS
<1>2. PoolTypeOK'
  BY DEF IInv, PoolTypeOK
<1>3. CalledState'
  BY DEF IInv, PoolTypeOK, CalledState
<1>4. HeldState'
  BY <1>1 DEF IInv, PoolTypeOK, HeldState
<1>5. OwnerState'
  BY <1>1, PoolAssumption DEF IInv, PoolTypeOK, OwnerState, Leaving
<1> QED
  BY <1>2, <1>3, <1>4, <1>5 DEF IInv

\* The first lock succeeds when nobody holds the mutex.
LEMMA LockListIInv ==
  ASSUME IInv, NEW t \in Threads, LockList(t)
  PROVE  IInv'
<1> USE DEF LockList, Goto, mutex, Outer, Inner, LockedOnce, LockedTwice
<1>1. owner = NoThread /\ owner' = t /\ depth' = 1
  <2>1. owner # t
    BY PoolAssumption DEF IInv, OwnerState, Leaving
  <2> QED
    BY <2>1 DEF Lock
<1>2. /\ AfterLock(t) \in LockedOnce
      /\ AfterLock(t) = "accept" => op[t] = "accept"
      /\ AfterLock(t) = "relock" => op[t] \in {"activity", "fair"}
  BY DEF AfterLock, IInv, PoolTypeOK, Methods
<1>3. PoolTypeOK'
  BY <1>1, <1>2 DEF IInv, PoolTypeOK
<1>4. CalledState'
  BY DEF IInv, PoolTypeOK, CalledState
<1>5. HeldState'
  BY <1>1, <1>2, PoolAssumption DEF IInv, PoolTypeOK, HeldState
<1>6. OwnerState'
  BY <1>1, <1>2 DEF IInv, PoolTypeOK, OwnerState
<1> QED
  BY <1>3, <1>4, <1>5, <1>6 DEF IInv

\* The second lock, in _wait_client_activity() or retain_client().
LEMMA RelockListIInv ==
  ASSUME IInv, NEW t \in Threads, RelockList(t)
  PROVE  IInv'
<1> USE DEF RelockList, Goto, mutex, Outer, Inner, LockedOnce, LockedTwice
<1>1. owner = t /\ depth = 1 /\ owner # NoThread
  BY PoolAssumption DEF IInv, HeldState
<1>2. /\ owner' = t /\ MutexKind # "normal"
      /\ depth' = IF MutexKind = "recursive" THEN 2 ELSE 1
  BY <1>1, PoolAssumption DEF Lock
<1>3. AfterRelock(t) \in {"reinsert", "fill"}
  BY DEF AfterRelock
<1>4. PoolTypeOK'
  BY <1>2, <1>3 DEF IInv, PoolTypeOK
<1>5. CalledState'
  BY DEF IInv, PoolTypeOK, CalledState
<1>6. HeldState'
  BY <1>1, <1>2, <1>3 DEF IInv, PoolTypeOK, HeldState
<1>7. OwnerState'
  BY <1>2, <1>3 DEF IInv, PoolTypeOK, OwnerState
<1> QED
  BY <1>4, <1>5, <1>6, <1>7 DEF IInv

\* The end of the nested method: the mutex is held once, or no longer.
LEMMA ReunlockListIInv ==
  ASSUME IInv, NEW t \in Threads, ReunlockList(t)
  PROVE  IInv'
<1> USE DEF ReunlockList, Goto, mutex, Outer, Inner, LockedOnce, LockedTwice
<1>1. /\ owner = t /\ MutexKind # "normal"
      /\ depth = IF MutexKind = "recursive" THEN 2 ELSE 1
  BY DEF IInv, HeldState
<1>2. IF MutexKind = "recursive" THEN owner' = t /\ depth' = 1
                                 ELSE owner' = NoThread /\ depth' = 0
  BY <1>1 DEF Unlock
<1>3. /\ AfterReunlock(t) \in {"splice", "unlock"}
      /\ AfterReunlock(t) = "splice" => op[t] = "fair"
  BY DEF AfterReunlock
<1>4. PoolTypeOK'
  BY <1>2, <1>3 DEF IInv, PoolTypeOK
<1>5. CalledState'
  BY DEF IInv, PoolTypeOK, CalledState
<1>6. HeldState'
  BY <1>1, <1>2, <1>3, PoolAssumption DEF IInv, PoolTypeOK, HeldState
<1>7. OwnerState'
  BY <1>2, <1>3 DEF IInv, PoolTypeOK, OwnerState, Leaving
<1> QED
  BY <1>4, <1>5, <1>6, <1>7 DEF IInv

\* A method unlocks the mutex and ends.
LEMMA UnlockListIInv ==
  ASSUME IInv, NEW t \in Threads, UnlockList(t)
  PROVE  IInv'
<1> USE DEF UnlockList, Goto, mutex, Outer, Inner, LockedOnce, LockedTwice
<1>1. IF owner = t THEN owner' = NoThread /\ depth' = 0 ELSE UNCHANGED <<owner, depth>>
  BY PoolAssumption DEF Unlock, IInv, OwnerState
<1>2. pc'[t] \in {"using", "idle"} /\ \A s \in Threads \ {t} : pc'[s] = pc[s]
  BY DEF IInv, PoolTypeOK
<1>3. PoolTypeOK'
  BY <1>1 DEF IInv, PoolTypeOK
<1>4. CalledState'
  BY <1>2 DEF IInv, PoolTypeOK, CalledState
<1>5. HeldState'
  BY <1>1, <1>2 DEF IInv, PoolTypeOK, HeldState
<1>6. OwnerState'
  BY <1>1, <1>2 DEF IInv, PoolTypeOK, OwnerState
<1> QED
  BY <1>3, <1>4, <1>5, <1>6 DEF IInv

-----------------------------------------------------------------------------
\* Who has locked how many times, at each point of a method, is always as IInv says.
THEOREM PoolInductive == Spec => []IInv
<1>1. IInv /\ [Next]_vars => IInv'
  <2> SUFFICES ASSUME IInv, [Next]_vars PROVE IInv'
    OBVIOUS
  <2> USE DEF LockedOnce, LockedTwice
  <2>1. ASSUME NEW c \in Clients, Connect(c) \/ Arrive(c) PROVE IInv'
    BY <2>1 DEF Connect, Arrive, mutex, IInv, PoolTypeOK, CalledState, HeldState, OwnerState
  <2>2. ASSUME NEW t \in Threads, WaitNewClient(t) PROVE IInv'
    BY <2>2, MoveIInv DEF WaitNewClient, mutex
  <2>3. ASSUME NEW t \in Threads, NEW o \in Methods, Call(t, o) PROVE IInv'
    BY <2>3, CallIInv
  <2>4. ASSUME NEW t \in Threads, LockList(t) \/ RelockList(t) PROVE IInv'
    BY <2>4, LockListIInv, RelockListIInv
  <2>5. ASSUME NEW t \in Threads, Retain(t) PROVE IInv'
    <3>1. CASE pc[t] = "insert"
      BY <2>5, <3>1, MoveIInv DEF Retain, mutex
    <3>2. CASE pc[t] = "reinsert"
      BY <2>5, <3>2, MoveIInv DEF Retain, mutex
    <3> QED
      BY <2>5, <3>1, <3>2 DEF Retain
  <2>6. ASSUME NEW t \in Threads, Release(t) PROVE IInv'
    BY <2>6, MoveIInv DEF Release, WithIterator, mutex
  <2>7. ASSUME NEW t \in Threads, AcceptLocked(t) \/ FillFdSet(t) \/ SelectReady(t)
                                  \/ SelectTimeout(t)
        PROVE  IInv'
    BY <2>7, MoveIInv DEF AcceptLocked, FillFdSet, SelectReady, SelectTimeout, mutex
  <2>8. ASSUME NEW t \in Threads, Scan(t) PROVE IInv'
    <3>1. CASE it'[t] = NoClient
      BY <2>8, <3>1, MoveIInv DEF Scan, mutex
    <3>2. CASE it'[t] # NoClient
      BY <2>8, <3>2, MoveIInv DEF Scan, mutex
    <3> QED
      BY <3>1, <3>2
  <2>9. ASSUME NEW t \in Threads, ReunlockList(t) \/ UnlockList(t) PROVE IInv'
    BY <2>9, ReunlockListIInv, UnlockListIInv
  <2>10. ASSUME NEW t \in Threads, Splice(t) PROVE IInv'
    BY <2>10, MoveIInv DEF Splice, WithIterator, mutex
  <2>11. ASSUME NEW t \in Threads, Handle(t) PROVE IInv'
    BY <2>11, MoveIInv DEF Handle, mutex
  <2>14. ASSUME NEW t \in Threads, AcceptLockedFails(t) PROVE IInv'
    BY <2>14, MoveIInv DEF AcceptLockedFails, mutex
  <2>12. ASSUME NEW t \in Threads, Foreach(t) \/ ForeachNext(t) PROVE IInv'
    <3>1. CASE Foreach(t)
      BY <3>1, MoveIInv DEF Foreach, mutex
    <3>2. CASE ForeachNext(t) /\ Goto(t, "undefined")
      BY <3>2, MoveIInv DEF ForeachNext, mutex
    <3>3. CASE ForeachNext(t) /\ Goto(t, IF it'[t] = NoClient THEN "idle" ELSE "each")
      BY <3>3, MoveIInv DEF ForeachNext, mutex
    <3> QED
      BY <2>12, <3>1, <3>2, <3>3 DEF ForeachNext
  <2>13. CASE UNCHANGED vars
    BY <2>13 DEF vars, IInv, PoolTypeOK, CalledState, HeldState, OwnerState
  <2> QED
    BY <2>1, <2>2, <2>3, <2>4, <2>5, <2>6, <2>7, <2>8, <2>9, <2>10, <2>11, <2>12, <2>13,
       <2>14 DEF Next, Step
<1> QED
  BY <1>1, InitIInv, PTL DEF Spec

\* A thread holds the mutex from the first lock of a method to its end, on every kind
\* of mutex, unless it is an error-checking one that the nested unlock has given up;
\* and no thread returns from a method with the mutex, however the methods nest.
THEOREM HeldInside == Spec => []MutexIsHeldInside
<1>1. IInv => MutexIsHeldInside
  <2> SUFFICES ASSUME IInv PROVE MutexIsHeldInside
    OBVIOUS
  <2>1. ASSUME NEW t \in Threads, pc[t] \in Inside, ~GivenUp(t) PROVE owner = t
    <3>1. CASE pc[t] \in LockedOnce \cup LockedTwice \cup {"no_return"}
      BY <3>1 DEF IInv, HeldState
    <3>2. CASE pc[t] \in {"splice", "unlock"}
      <4>1. op[t] \in Methods
        BY DEF IInv, PoolTypeOK
      <4>2. MutexKind # "errorcheck" \/ op[t] \in {"retain", "release"}
        BY <2>1, <3>2, <4>1 DEF GivenUp, Methods
      <4> QED
        BY <3>2, <4>2 DEF IInv, HeldState
    <3> QED
      BY <2>1, <3>1, <3>2 DEF Inside, Outer, Inner, LockedOnce, LockedTwice
  <2>2. owner # NoThread => pc[owner] \in Inside \cup {"undefined"}
    BY DEF IInv, OwnerState, LockedOnce, LockedTwice, Leaving, Inside, Outer, Inner
  <2> QED
    BY <2>1, <2>2 DEF MutexIsHeldInside
<1> QED
  BY <1>1, PoolInductive, PTL

\* Only the holder of the mutex changes the list, unless the mutex is an
\* error-checking one and the program calls the fair version.
THEOREM OnlyOwnerChanges ==
  ASSUME MutexKind # "errorcheck" \/ "fair" \notin Ops
  PROVE  Spec => ListProtected
<1>1. IInv /\ [Next]_vars =>
        [retained' # retained => owner \in Threads /\ pc'[owner] # pc[owner]]_vars
  <2> SUFFICES ASSUME IInv, Next, retained' # retained
               PROVE  owner \in Threads /\ pc'[owner] # pc[owner]
    OBVIOUS
  <2>1. PICK t \in Threads : Retain(t) \/ Release(t) \/ Splice(t)
    BY DEF Next, Step, Connect, Arrive, WaitNewClient, Call, LockList, RelockList,
       AcceptLocked, AcceptLockedFails, FillFdSet, SelectReady, SelectTimeout, Scan, ReunlockList,
       UnlockList, Handle, Foreach, ForeachNext
  <2>2. owner = t
    BY <2>1 DEF Retain, Release, Splice, IInv, CalledState, HeldState, LockedOnce,
       LockedTwice, Outer, Inner
  <2>3. pc'[t] # pc[t]
    BY <2>1 DEF Retain, Release, Splice, WithIterator, Goto, IInv, PoolTypeOK
  <2> QED
    BY <2>2, <2>3
<1> QED
  BY <1>1, PoolInductive, PTL DEF Spec, ListProtected

-----------------------------------------------------------------------------
\* What Min of the community modules gives for natural numbers.
LEMMA MinIsLeast ==
  ASSUME NEW S \in SUBSET Nat, S # {}
  PROVE  Min(S) \in S /\ \A y \in S : Min(S) <= y
<1> DEFINE R == OpToRel(<, Nat)
<1>1. PICK x \in S : \A y \in S : <<y, x>> \notin R
  BY NatLessThanWellFounded, WFMin
<1>2. \A y \in S : ~ (y < x)
  BY <1>1 DEF OpToRel
<1>3. \A y \in S : x <= y
  BY <1>2
<1> QED
  BY <1>3 DEF Min

\* A sequence without its ith element.
LEMMA RemoveAtProperties ==
  ASSUME NEW S, NEW s \in Seq(S), NEW i \in 1..Len(s)
  PROVE  /\ RemoveAt(s, i) \in Seq(S)
         /\ Len(RemoveAt(s, i)) = Len(s) - 1
         /\ \A j \in 1..(Len(s) - 1) : RemoveAt(s, i)[j] = IF j < i THEN s[j] ELSE s[j + 1]
<1> DEFINE a == SubSeq(s, 1, i - 1)
           b == SubSeq(s, i + 1, Len(s))
<1>1. Len(s) \in Nat /\ \A j \in 1..Len(s) : s[j] \in S
  BY LenProperties, ElementOfSeq
<1>2. /\ a \in Seq(S) /\ Len(a) = i - 1
      /\ \A j \in 1..(i - 1) : a[j] = s[j]
  BY <1>1, SubSeqProperties
<1>3. /\ b \in Seq(S) /\ Len(b) = Len(s) - i
      /\ \A j \in 1..(Len(s) - i) : b[j] = s[i + j]
  BY <1>1, SubSeqProperties
<1> HIDE DEF a, b
<1>4. /\ a \o b \in Seq(S) /\ Len(a \o b) = Len(s) - 1
      /\ \A j \in 1..(Len(s) - 1) : (a \o b)[j] = IF j < i THEN s[j] ELSE s[j + 1]
  <2>1. /\ a \o b \in Seq(S) /\ Len(a \o b) = Len(a) + Len(b)
        /\ \A j \in 1..(Len(a) + Len(b)) :
             (a \o b)[j] = IF j <= Len(a) THEN a[j] ELSE b[j - Len(a)]
    BY <1>2, <1>3, ConcatProperties
  <2>2. Len(a) + Len(b) = Len(s) - 1
    BY <1>1, <1>2, <1>3
  <2>3. ASSUME NEW j \in 1..(Len(s) - 1)
        PROVE  (a \o b)[j] = IF j < i THEN s[j] ELSE s[j + 1]
    <3>1. CASE j < i
      BY <1>1, <1>2, <2>1, <2>2, <3>1
    <3>2. CASE ~(j < i)
      <4>1. j - (i - 1) \in 1..(Len(s) - i) /\ i + (j - (i - 1)) = j + 1
        BY <1>1, <3>2
      <4> QED
        BY <1>1, <1>2, <1>3, <2>1, <2>2, <3>2, <4>1
    <3> QED
      BY <3>1, <3>2
  <2> QED
    BY <2>1, <2>2, <2>3
<1> QED
  BY <1>4 DEF RemoveAt, a, b

\* An iterator to a client of the list points into it.
LEMMA PlaceInList ==
  ASSUME retained \in Seq(Clients), NEW c \in ToSet(retained)
  PROVE  /\ PlaceOf(c) \in 1..Len(retained)
         /\ retained[PlaceOf(c)] = c
BY DEF PlaceOf, ToSet

\* erase() removes nobody else.
LEMMA ErasedProperties ==
  ASSUME retained \in Seq(Clients), NEW c \in ToSet(retained)
  PROVE  /\ Erased(c) \in Seq(Clients)
         /\ ToSet(retained) \ {c} \subseteq ToSet(Erased(c))
<1> DEFINE p == PlaceOf(c)
<1>1. p \in 1..Len(retained) /\ retained[p] = c
  BY PlaceInList
<1> HIDE DEF p
<1>2. /\ Erased(c) \in Seq(Clients)
      /\ Len(Erased(c)) = Len(retained) - 1
      /\ \A j \in 1..(Len(retained) - 1) :
           Erased(c)[j] = IF j < p THEN retained[j] ELSE retained[j + 1]
  BY <1>1, RemoveAtProperties DEF Erased, p
<1>3. ASSUME NEW d \in ToSet(retained) \ {c} PROVE d \in ToSet(Erased(c))
  <2>1. PICK j \in 1..Len(retained) : retained[j] = d
    BY DEF ToSet
  <2>2. j # p
    BY <1>1, <2>1
  <2>3. CASE j < p
    <3>1. j \in 1..(Len(retained) - 1) /\ Erased(c)[j] = d
      BY <1>1, <1>2, <2>1, <2>3
    <3> QED
      BY <1>2, <3>1 DEF ToSet
  <2>4. CASE j > p
    <3>1. j - 1 \in 1..(Len(retained) - 1) /\ Erased(c)[j - 1] = d
      BY <1>1, <1>2, <2>1, <2>4
    <3> QED
      BY <1>2, <3>1 DEF ToSet
  <2> QED
    BY <1>1, <2>2, <2>3, <2>4
<1> QED
  BY <1>2, <1>3

\* splice() keeps everybody.
LEMMA MovedProperties ==
  ASSUME retained \in Seq(Clients), NEW c \in ToSet(retained)
  PROVE  /\ Moved(c) \in Seq(Clients)
         /\ ToSet(retained) \subseteq ToSet(Moved(c))
<1>1. c \in Clients
  BY DEF ToSet
<1>2. /\ Moved(c) \in Seq(Clients)
      /\ Len(Moved(c)) = Len(Erased(c)) + 1
      /\ \A i \in 1..Len(Erased(c)) : Moved(c)[i] = Erased(c)[i]
      /\ Moved(c)[Len(Erased(c)) + 1] = c
  BY <1>1, ErasedProperties, AppendProperties DEF Moved
<1>3. ToSet(Erased(c)) \cup {c} \subseteq ToSet(Moved(c))
  BY <1>2, ErasedProperties DEF ToSet
<1> QED
  BY <1>2, <1>3, ErasedProperties

-----------------------------------------------------------------------------
\* Where a method has a client in its hands, and which method it is.
ItState ==
  \A t \in Threads :
    /\ pc[t] \in {"holding", "using", "each", "insert", "reinsert"} => it[t] # NoClient
    /\ pc[t] = "lock" /\ op[t] = "retain" => it[t] # NoClient
    /\ pc[t] = "relock" /\ op[t] = "accept" => it[t] # NoClient
    /\ pc[t] = "erase" => op[t] = "release"

ListInv == TypeOK /\ ItState /\ ScanSeesItsList

\* The list is empty at first, and no thread waits.
LEMMA InitListInv == Init => ListInv
<1> SUFFICES ASSUME Init PROVE ListInv
  OBVIOUS
<1>1. TypeOK
  BY EmptySeq DEF Init, TypeOK, Methods
<1>2. ItState /\ ScanSeesItsList
  BY DEF Init, ItState, ScanSeesItsList
<1> QED
  BY <1>1, <1>2 DEF ListInv

\* The list gets longer or is put into another order, or the holder of the mutex
\* releases a client.
LEMMA ListChanges ==
  ASSUME IInv, ListInv, [Next]_vars
  PROVE  /\ retained' \in Seq(Clients)
         /\ \/ ToSet(retained) \subseteq ToSet(retained')
            \/ \E s \in Threads : owner = s /\ pc[s] = "erase"
<1>1. retained \in Seq(Clients)
  BY DEF ListInv, TypeOK
<1>2. ASSUME NEW t \in Threads, Retain(t)
      PROVE  retained' \in Seq(Clients) /\ ToSet(retained) \subseteq ToSet(retained')
  <2>1. it[t] \in Clients
    BY <1>2 DEF Retain, ListInv, TypeOK, ItState
  <2>2. /\ retained' \in Seq(Clients) /\ Len(retained') = Len(retained) + 1
        /\ \A i \in 1..Len(retained) : retained'[i] = retained[i]
    BY <1>1, <1>2, <2>1, AppendProperties DEF Retain
  <2> QED
    BY <1>1, <2>2 DEF ToSet
<1>3. ASSUME NEW t \in Threads, Release(t)
      PROVE  retained' \in Seq(Clients) /\ owner = t /\ pc[t] = "erase"
  BY <1>1, <1>3, ErasedProperties DEF Release, WithIterator, IInv, HeldState, LockedOnce
<1>4. ASSUME NEW t \in Threads, Splice(t)
      PROVE  retained' \in Seq(Clients) /\ ToSet(retained) \subseteq ToSet(retained')
  BY <1>1, <1>4, MovedProperties DEF Splice, WithIterator
<1>5. \/ retained' = retained
      \/ \E t \in Threads : Retain(t) \/ Release(t) \/ Splice(t)
  BY DEF Next, Step, Connect, Arrive, WaitNewClient, Call, LockList, RelockList,
     AcceptLocked, AcceptLockedFails, FillFdSet, SelectReady, SelectTimeout, Scan, ReunlockList,
     UnlockList, Handle, Foreach, ForeachNext, vars
<1> QED
  BY <1>1, <1>2, <1>3, <1>4, <1>5

\* A scan finds the first client of the list that is in the set.
LEMMA ScanFinds ==
  ASSUME retained \in Seq(Clients), NEW t \in Threads,
         set[t] \subseteq ToSet(retained), set[t] # {}
  PROVE  FirstAwake(t) \in Clients \cap ToSet(retained)
<1> DEFINE awake == {i \in DOMAIN retained : retained[i] \in set[t]}
<1>1. awake \in SUBSET Nat /\ awake # {}
  BY DEF ToSet
<1>2. Min(awake) \in awake
  BY <1>1, MinIsLeast
<1>3. FirstAwake(t) = retained[Min(awake)]
  BY <1>1 DEF FirstAwake
<1>4. Min(awake) \in 1..Len(retained)
  BY <1>2
<1> HIDE DEF awake
<1>5. retained[Min(awake)] \in Clients
  BY <1>4, ElementOfSeq
<1>6. retained[Min(awake)] \in ToSet(retained)
  BY <1>4 DEF ToSet
<1> QED
  BY <1>3, <1>5, <1>6

\* A step of a thread, and what it leaves of the others.
Moves(t) ==
  \/ WaitNewClient(t) \/ Foreach(t) \/ AcceptLockedFails(t) \/ Step(t)
  \/ \E o \in Methods : Call(t, o)
Stays(t) == pc'[t] = pc[t] /\ op'[t] = op[t] /\ it'[t] = it[t] /\ set'[t] = set[t]

\* One thread moves in a step: the others stay where they are.
LEMMA OneMoves ==
  ASSUME TypeOK, [Next]_vars, NEW t \in Threads, ~Moves(t)
  PROVE  Stays(t)
<1> USE DEF Stays
<1>1. ASSUME NEW u \in Threads \ {t}, Moves(u)
      PROVE  Stays(t)
  <2>1. CASE WaitNewClient(u) \/ Foreach(u) \/ \E o \in Methods : Call(u, o)
    BY <2>1 DEF WaitNewClient, Foreach, Call, TypeOK, Goto
  <2>2. CASE \/ LockList(u) \/ RelockList(u) \/ Retain(u) \/ Release(u) \/ AcceptLocked(u)
             \/ FillFdSet(u) \/ SelectReady(u)
    BY <2>2 DEF LockList, RelockList, Retain, Release, WithIterator, AcceptLocked, FillFdSet,
                SelectReady, TypeOK, Goto
  <2>3. CASE \/ SelectTimeout(u) \/ Scan(u) \/ ReunlockList(u) \/ Splice(u) \/ UnlockList(u)
             \/ Handle(u)
    BY <2>3 DEF SelectTimeout, Scan, ReunlockList, Splice, WithIterator, UnlockList, Handle,
                TypeOK, Goto
  <2>4. CASE ForeachNext(u)
    BY <2>4 DEF ForeachNext, TypeOK, Goto
  <2>5. CASE AcceptLockedFails(u)
    BY <2>5 DEF AcceptLockedFails, TypeOK, Goto
  <2> QED
    BY <1>1, <2>1, <2>2, <2>3, <2>4, <2>5 DEF Moves, Step
<1>2. CASE UNCHANGED vars \/ \E c \in Clients : Connect(c) \/ Arrive(c)
  BY <1>2 DEF vars, Connect, Arrive
<1> QED
  BY <1>1, <1>2 DEF Next, Moves

\* What a thread that moves has in its hands afterwards.
LEMMA MovesItState ==
  ASSUME IInv, ListInv, [Next]_vars, NEW t \in Threads, Moves(t)
  PROVE  /\ it'[t] \in Clients \cup {NoClient}
         /\ set'[t] \in SUBSET Clients
         /\ pc'[t] \in {"holding", "using", "each", "insert", "reinsert"} => it'[t] # NoClient
         /\ pc'[t] = "lock" /\ op'[t] = "retain" => it'[t] # NoClient
         /\ pc'[t] = "relock" /\ op'[t] = "accept" => it'[t] # NoClient
         /\ pc'[t] = "erase" => op'[t] = "release"
         /\ pc'[t] \in {"select", "scan"} => set'[t] \subseteq ToSet(retained')
         /\ pc'[t] = "scan" => set'[t] # {}
         /\ pc'[t] # "no_return"
<1> USE PoolAssumption DEF ListInv, TypeOK, ItState, ScanSeesItsList, Goto
<1>1. CASE WaitNewClient(t)
  BY <1>1 DEF WaitNewClient
<1>2. CASE Foreach(t)
  <2>1. Head(retained) \in Clients
    BY <1>2, HeadTailProperties DEF Foreach
  <2> QED
    BY <1>2, <2>1 DEF Foreach
<1>3. ASSUME NEW o \in Methods, Call(t, o)
      PROVE  /\ pc'[t] = "lock" /\ op'[t] = o /\ it' = it /\ set' = set
             /\ o = "retain" => it[t] # NoClient
  BY <1>3 DEF Call
<1>4. CASE LockList(t)
  <2>1. AfterLock(t) \in {"insert", "erase", "accept", "relock"}
    BY DEF AfterLock, IInv, PoolTypeOK, Methods
  <2>2. /\ AfterLock(t) = "insert" => op[t] = "retain"
        /\ AfterLock(t) = "erase" => op[t] = "release"
        /\ AfterLock(t) = "relock" => op[t] # "accept"
    BY DEF AfterLock, IInv, PoolTypeOK, Methods
  <2> QED
    BY <1>4, <2>1, <2>2 DEF LockList
<1>5. CASE RelockList(t)
  BY <1>5 DEF RelockList, AfterRelock
<1>6. CASE Retain(t)
  BY <1>6 DEF Retain
<1>7. CASE Release(t) \/ Splice(t)
  BY <1>7 DEF Release, Splice, WithIterator
<1>8. CASE AcceptLocked(t) \/ AcceptLockedFails(t)
  BY <1>8 DEF AcceptLocked, AcceptLockedFails
<1>9. CASE FillFdSet(t)
  <2>1. ToSet(retained) \subseteq Clients
    BY DEF ToSet
  <2> QED
    BY <1>9, <2>1 DEF FillFdSet
<1>10. CASE SelectReady(t)
  BY <1>10 DEF SelectReady
<1>11. CASE SelectTimeout(t)
  BY <1>11 DEF SelectTimeout
<1>12. CASE Scan(t)
  <2>1. FirstAwake(t) \in Clients
    BY <1>12, ScanFinds DEF Scan
  <2> QED
    BY <1>12, <2>1 DEF Scan
<1>13. CASE ReunlockList(t)
  BY <1>13 DEF ReunlockList, AfterReunlock
<1>14. CASE UnlockList(t)
  BY <1>14 DEF UnlockList, Returned
<1>15. CASE Handle(t)
  BY <1>15 DEF Handle
<1>16. CASE ForeachNext(t)
  <2>1. it[t] \in ToSet(retained) => NextOf(t) \in Clients \cup {NoClient}
    <3> SUFFICES ASSUME it[t] \in ToSet(retained), PlaceOf(it[t]) # Len(retained)
                 PROVE  retained[PlaceOf(it[t]) + 1] \in Clients
      BY DEF NextOf
    <3>1. PlaceOf(it[t]) + 1 \in 1..Len(retained)
      BY PlaceInList, LenProperties
    <3> QED
      BY <3>1, ElementOfSeq
  <2>2. CASE Goto(t, "undefined")
    BY <1>16, <2>2 DEF ForeachNext
  <2>3. CASE /\ it[t] \in ToSet(retained)
             /\ it' \in {[it EXCEPT ![t] = c] : c \in {NextOf(t), NoClient}}
             /\ Goto(t, IF it'[t] = NoClient THEN "idle" ELSE "each")
    BY <1>16, <2>1, <2>3 DEF ForeachNext
  <2> QED
    BY <1>16, <2>2, <2>3 DEF ForeachNext
<1> HIDE DEF ListInv, TypeOK, ItState, ScanSeesItsList, Goto
<1> QED
  <2>1. CASE \E o \in Methods : Call(t, o)
    BY <1>3, <2>1 DEF ListInv, TypeOK, ItState
  <2> QED
    BY <1>1, <1>2, <2>1, <1>4, <1>5, <1>6, <1>7, <1>8, <1>9, <1>10, <1>11, <1>12, <1>13,
       <1>14, <1>15, <1>16 DEF Moves, Step

\* While a thread waits in select() or scans, only its own steps release a client.
LEMMA StepListInv ==
  ASSUME IInv, IInv', ListInv, [Next]_vars
  PROVE  ListInv'
<1>1. retained' \in Seq(Clients)
  BY ListChanges
<1>2. pending' \in SUBSET Clients /\ known' \in SUBSET Clients /\ readable' \in SUBSET Clients
  BY DEF ListInv, TypeOK, Next, Step, Connect, Arrive, WaitNewClient, Call, LockList, RelockList,
     Retain, Release, Splice, AcceptLocked, AcceptLockedFails, FillFdSet, SelectReady, SelectTimeout, Scan,
     ReunlockList, UnlockList, Handle, Foreach, ForeachNext, network, vars
<1>3. ASSUME NEW t \in Threads, Stays(t)
      PROVE  pc'[t] \in {"select", "scan"} => set'[t] \subseteq ToSet(retained')
  <2> SUFFICES ASSUME pc[t] \in {"select", "scan"} PROVE set[t] \subseteq ToSet(retained')
    BY <1>3 DEF Stays
  <2>1. owner = t
    BY DEF IInv, HeldState, LockedTwice
  <2>2. ToSet(retained) \subseteq ToSet(retained')
    BY <2>1, ListChanges
  <2> QED
    BY <2>2 DEF ListInv, ScanSeesItsList
<1>4. TypeOK'
  <2>1. /\ DOMAIN it' = Threads /\ it' = [u \in Threads |-> it'[u]]
        /\ DOMAIN set' = Threads /\ set' = [u \in Threads |-> set'[u]]
    BY DEF ListInv, TypeOK, Next, Step, Connect, Arrive, WaitNewClient, Call, LockList,
       RelockList, Retain, Release, Splice, AcceptLocked, AcceptLockedFails, FillFdSet, SelectReady, SelectTimeout,
       Scan, ReunlockList, UnlockList, Handle, Foreach, ForeachNext, vars
  <2>2. ASSUME NEW t \in Threads
        PROVE  it'[t] \in Clients \cup {NoClient} /\ set'[t] \in SUBSET Clients
    BY OneMoves, MovesItState DEF Stays, ListInv, TypeOK
  <2> QED
    BY <1>1, <1>2, <2>1, <2>2 DEF IInv, PoolTypeOK, TypeOK
<1>5. ItState'
  <2>1. ASSUME NEW t \in Threads, Stays(t)
        PROVE  /\ pc'[t] \in {"holding", "using", "each", "insert", "reinsert"} => it'[t] # NoClient
               /\ pc'[t] = "lock" /\ op'[t] = "retain" => it'[t] # NoClient
               /\ pc'[t] = "relock" /\ op'[t] = "accept" => it'[t] # NoClient
               /\ pc'[t] = "erase" => op'[t] = "release"
    BY <2>1 DEF Stays, ListInv, ItState
  <2> QED
    BY <2>1, OneMoves, MovesItState DEF ListInv, ItState
<1>6. ScanSeesItsList'
  <2>1. ASSUME NEW t \in Threads, Stays(t)
        PROVE  (pc'[t] = "scan" => set'[t] # {}) /\ pc'[t] # "no_return"
    BY <2>1 DEF Stays, ListInv, ScanSeesItsList
  <2> QED
    BY <1>3, <2>1, OneMoves, MovesItState DEF ListInv, ScanSeesItsList
<1> QED
  BY <1>4, <1>5, <1>6 DEF ListInv

\* The invariant of the list, which rests on that of the mutex.
LEMMA ListAlways == Spec => []ListInv
<1>1. Init => ListInv
  BY InitListInv
<1>2. IInv /\ IInv' /\ ListInv /\ [Next]_vars => ListInv'
  BY StepListInv
<1> QED
  BY <1>1, <1>2, PoolInductive, PTL DEF Spec

\* The types, and a scan that sees the list its set was made from, finds a client in
\* it and never runs off its end, on any kind of mutex; and a thread that holds the
\* mutex is inside a method (socket_server.hpp:304-307).
THEOREM PoolCorrect == Spec => []PoolInv
<1>1. ListInv /\ MutexIsHeldInside => PoolInv
  BY DEF ListInv, PoolInv
<1> QED
  BY <1>1, ListAlways, HeldInside, PTL

\* From the scan to the end of the method nobody else releases a client, so the one
\* that was found stays, where the mutex is not given up by the first of two
\* unlocks, as an error-checking one is, or where the program never releases
\* (socket_server.hpp:250, 302-307).
THEOREM FoundStays ==
  ASSUME MutexKind # "errorcheck" \/ "release" \notin Ops
  PROVE  Spec => []IteratorsValid
<1> DEFINE Found(t) == /\ op[t] \in {"activity", "fair"}
                       /\ pc[t] \in {"reunlock", "splice", "unlock"}
                       /\ it[t] # NoClient
<1>1. Init => IteratorsValid
  BY DEF Init, IteratorsValid
<1>2. IInv /\ ListInv /\ IteratorsValid /\ [Next]_vars => IteratorsValid'
  <2> SUFFICES ASSUME IInv, ListInv, IteratorsValid, [Next]_vars, NEW t \in Threads, Found(t)'
               PROVE  it'[t] \in ToSet(retained')
    BY DEF IteratorsValid
  <2>1. CASE Stays(t)
    <3>1. Found(t) /\ it[t] \in ToSet(retained)
      BY <2>1 DEF Stays, IteratorsValid
    <3>2. owner = t \/ \A s \in Threads : pc[s] # "erase"
      BY <3>1 DEF IInv, HeldState, LockedTwice, CalledState, Outer, ListInv, ItState
    <3>3. ToSet(retained) \subseteq ToSet(retained')
      BY <3>1, <3>2, ListChanges
    <3> QED
      BY <2>1, <3>1, <3>3 DEF Stays
  <2>2. CASE Moves(t)
    <3> USE DEF ListInv, TypeOK, ItState, Goto
    <3>1. CASE WaitNewClient(t) \/ Foreach(t) \/ \E o \in Methods : Call(t, o)
      BY <3>1 DEF WaitNewClient, Foreach, Call
    <3>2. CASE LockList(t) \/ RelockList(t) \/ AcceptLocked(t) \/ FillFdSet(t) \/ SelectReady(t)
      BY <3>2, Zenon DEF LockList, RelockList, AcceptLocked, FillFdSet, SelectReady, AfterLock,
         AfterRelock
    <3>3. CASE Retain(t)
      BY <3>3, AppendProperties DEF Retain, ToSet
    <3>4. CASE Release(t)
      BY <3>4 DEF Release, WithIterator
    <3>5. CASE Splice(t)
      BY <3>5, MovedProperties DEF Splice, WithIterator
    <3>6. CASE SelectTimeout(t)
      BY <3>6 DEF SelectTimeout
    <3>7. CASE Scan(t)
      BY <3>7, ScanFinds DEF Scan, ScanSeesItsList
    <3>8. CASE ReunlockList(t)
      BY <3>8 DEF ReunlockList, IteratorsValid
    <3>10. CASE AcceptLockedFails(t)
      BY <3>10 DEF AcceptLockedFails, IInv, HeldState
    <3>9. CASE UnlockList(t) \/ Handle(t) \/ ForeachNext(t)
      BY <3>9 DEF UnlockList, Handle, ForeachNext
    <3> QED
      BY <2>2, <3>1, <3>2, <3>3, <3>4, <3>5, <3>6, <3>7, <3>8, <3>9, <3>10
         DEF Moves, Step
  <2> QED
    BY <2>1, <2>2, OneMoves DEF ListInv
<1> QED
  BY <1>1, <1>2, ListAlways, PoolInductive, PTL DEF Spec
=============================================================================
