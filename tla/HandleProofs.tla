---------------------------- MODULE HandleProofs ----------------------------
(***************************************************************************)
(* The safety of Handle for every finite set of handles and every set of   *)
(* descriptors.  The count of a group is the number of its handles, and a  *)
(* handle's own fd field tells whether the descriptor is open: together    *)
(* they make "the count is one" mean "nobody else can use it".  Then the   *)
(* refinement of SharedResource; and the same, and more, of the clients    *)
(* and threads of ClientThreads, whose steps on handles are Handle's.      *)
(***************************************************************************)
EXTENDS ClientThreads, TLAPS, FiniteSetTheorems

\* A handle is in a group from its construction to the end of ~base_fd.
HandleState ==
  \A h \in Handles :
    /\ pc[h] = "none" <=> desc[h] = NoDesc
    /\ valid[h] => desc[h] # NoDesc
    /\ pc[h] \in {"live", "base_socket"} => valid[h]

\* The count is the size of the group, and the shared data lives as long.
CountIsGroup ==
  \A d \in Descs :
    /\ refs[d] = Cardinality(Group(d))
    /\ d \in shared <=> Group(d) # {}

\* All handles of a group agree with each other and with the system on
\* whether the descriptor is open.
ValidIsOpen ==
  \A h \in Handles : desc[h] # NoDesc => (valid[h] <=> closes[desc[h]] = 0)

\* What is known of a descriptor that has not been opened yet.
UnbornState ==
  \A d \in Descs :
    Unborn(d) => /\ Group(d) = {}
                 /\ closes[d] = 0
                 /\ d \notin autoclose \cup preserve \cup wire \cup leaked

\* A descriptor in a message, or lost with it, is a dup(), open and in no group.
WireState ==
  /\ wire \cap leaked = {}
  /\ \A d \in wire \cup leaked : Group(d) = {} /\ closes[d] = 0 /\ origin[d] # d

\* Closing happens once, only to autoclose descriptors, and is not forgotten.
CloseState ==
  \A d \in Descs :
    /\ closes[d] \in {0, 1}
    /\ closes[d] = 1 => d \in autoclose
    /\ (d \in autoclose /\ Group(d) = {} /\ d \notin wire \cup leaked)
         => closes[d] = 1

\* A descriptor that was sent is preserved, one that was shut down was not.
ShutState ==
  /\ \A d \in shut : closes[d] = 1 /\ d \notin preserve
  /\ \A d, e \in Descs : (origin[e] = d /\ e # d) => d \in preserve

\* Every descriptor the library must close is known as such from the start.
ReceivedState ==
  \A d \in Managed : d \in autoclose \/ d \in wire \cup leaked

IInv ==
  /\ TypeOK
  /\ HandleState
  /\ CountIsGroup
  /\ ValidIsOpen
  /\ UnbornState
  /\ WireState
  /\ CloseState
  /\ ShutState
  /\ ReceivedState
-----------------------------------------------------------------------------
\* Groups are finite, so their cardinalities are numbers, zero when empty.
LEMMA GroupFinite ==
  ASSUME NEW d \in Descs
  PROVE  /\ IsFiniteSet(Group(d))
         /\ Cardinality(Group(d)) \in Nat
         /\ Cardinality(Group(d)) = 0 <=> Group(d) = {}
<1>1. Group(d) \in SUBSET Handles
  BY DEF Group
<1>2. IsFiniteSet(Group(d))
  BY <1>1, HandleAssumption, FS_Subset
<1> QED
  BY <1>2, FS_CardinalityType, FS_EmptySet

\* A handle that sees a count of one is alone in its group: this is what
\* REFCXX_WILL_DESTRUCT means to the destructors.
LEMMA LastIsAlone ==
  ASSUME CountIsGroup, NEW h \in Handles, desc[h] \in Descs, refs[desc[h]] = 1
  PROVE  Group(desc[h]) = {h}
<1> DEFINE d == desc[h]
<1>1. IsFiniteSet(Group(d)) /\ Cardinality(Group(d)) = 1
  BY GroupFinite DEF CountIsGroup
<1>2. PICK x : Group(d) = {x}
  BY <1>1, FS_Singleton
<1>3. h \in Group(d)
  BY DEF Group
<1> QED
  BY <1>2, <1>3

\* The descriptor of an existing handle has been opened.
LEMMA HeldIsBorn ==
  ASSUME IInv, NEW h \in Handles, pc[h] # "none"
  PROVE  /\ desc[h] \in Descs
         /\ h \in Group(desc[h])
         /\ ~Unborn(desc[h])
         /\ desc[h] \notin wire \cup leaked
<1>1. desc[h] \in Descs
  BY DEF IInv, TypeOK, HandleState
<1>2. h \in Group(desc[h])
  BY DEF Group
<1> QED
  BY <1>1, <1>2 DEF IInv, UnbornState, WireState

\* There are no handles at first.
LEMMA InitIInv == Init => IInv
<1> SUFFICES ASSUME Init PROVE IInv
  OBVIOUS
<1> USE HandleAssumption DEF Init
<1>1. \A d \in Descs : Group(d) = {}
  BY DEF Group
<1>2. TypeOK
  BY DEF TypeOK
<1>3. CountIsGroup
  BY <1>1, FS_EmptySet DEF CountIsGroup
<1>4. HandleState /\ ValidIsOpen
  BY DEF HandleState, ValidIsOpen
<1>5. UnbornState /\ WireState /\ CloseState
  BY <1>1 DEF UnbornState, WireState, CloseState, Unborn
<1>6. ShutState /\ ReceivedState
  BY DEF ShutState, ReceivedState, Managed
<1> QED
  BY <1>2, <1>3, <1>4, <1>5, <1>6 DEF IInv

-----------------------------------------------------------------------------
\* Both operations that create a group put one handle in an empty one.
LEMMA NewGroupCount ==
  ASSUME IInv, NEW h \in Handles, NEW c \in Classes, NEW d \in Descs,
         NEW auto \in BOOLEAN, NewGroup(h, c, d, auto), Group(d) = {}
  PROVE  /\ Group(d)' = {h}
         /\ \A e \in Descs \ {d} : Group(e)' = Group(e)
         /\ CountIsGroup'
         /\ HandleState'
<1> USE DEF NewGroup
<1>1. desc[h] = NoDesc
  BY DEF IInv, HandleState
<1>2. Group(d)' = {h}
  BY <1>1 DEF Group, IInv, TypeOK
<1>3. \A e \in Descs \ {d} : Group(e)' = Group(e)
  BY <1>1, HandleAssumption DEF Group, IInv, TypeOK
<1>4. CountIsGroup'
  BY <1>2, <1>3, FS_Singleton DEF CountIsGroup, IInv, TypeOK
<1>5. HandleState'
  BY HandleAssumption DEF HandleState, IInv, TypeOK
<1> QED
  BY <1>2, <1>3, <1>4, <1>5

\* A handle is made from a new descriptor.
LEMMA ConstructIInv ==
  ASSUME IInv, NEW h \in Handles, NEW c \in Classes, NEW d \in Descs,
         NEW auto \in BOOLEAN, Construct(h, c, d, auto)
  PROVE  IInv'
<1> USE DEF Construct
<1>1. Unborn(d) /\ Group(d) = {} /\ closes[d] = 0
  BY DEF IInv, UnbornState
<1>2. /\ Group(d)' = {h}
      /\ \A e \in Descs \ {d} : Group(e)' = Group(e)
      /\ CountIsGroup'
      /\ HandleState'
  BY <1>1, NewGroupCount
<1>3. TypeOK'
  BY DEF NewGroup, IInv, TypeOK
<1>4. ValidIsOpen'
  BY <1>1 DEF NewGroup, IInv, TypeOK, ValidIsOpen
<1>5. UnbornState'
  BY <1>2, HandleAssumption DEF NewGroup, IInv, TypeOK, UnbornState, Unborn
<1>6. WireState'
  BY <1>1, <1>2 DEF NewGroup, IInv, TypeOK, WireState, UnbornState
<1>7. CloseState'
  BY <1>2 DEF NewGroup, IInv, TypeOK, CloseState
<1>8. ShutState'
  BY DEF IInv, TypeOK, ShutState
<1>9. ReceivedState'
  BY <1>1 DEF NewGroup, IInv, TypeOK, ReceivedState, Managed
<1> QED
  BY <1>2, <1>3, <1>4, <1>5, <1>6, <1>7, <1>8, <1>9 DEF IInv

\* i_sock() makes a handle of the descriptor it receives.
LEMMA RecvSockIInv ==
  ASSUME IInv, NEW h \in Handles, NEW e \in Descs, RecvSock(h, e)
  PROVE  IInv'
<1> USE DEF RecvSock
<1>1. /\ Group(e) = {} /\ closes[e] = 0 /\ ~Unborn(e)
      /\ e \in wire /\ e \notin leaked
  BY DEF IInv, WireState, UnbornState
<1>2. "base_fd" \in Classes
  BY HandleAssumption
<1>3. /\ Group(e)' = {h}
      /\ \A d \in Descs \ {e} : Group(d)' = Group(d)
      /\ CountIsGroup'
      /\ HandleState'
  BY <1>1, <1>2, NewGroupCount
<1>4. TypeOK'
  BY <1>2 DEF NewGroup, IInv, TypeOK
<1>5. ValidIsOpen'
  BY <1>1 DEF NewGroup, IInv, TypeOK, ValidIsOpen
<1>6. UnbornState'
  <2>1. \A d \in Descs : Unborn(d)' => Unborn(d) /\ d # e
    BY <1>1 DEF Unborn
  <2>2. /\ autoclose' = autoclose \cup {e}
        /\ wire' \subseteq wire
        /\ UNCHANGED <<closes, preserve, leaked>>
    BY <1>2 DEF NewGroup
  <2> QED
    BY <1>3, <2>1, <2>2 DEF IInv, UnbornState
<1>7. WireState'
  <2>1. wire' \cup leaked' = (wire \cup leaked) \ {e} /\ wire' \cap leaked' = {}
    BY <1>1 DEF IInv, WireState
  <2>2. wire \cup leaked \subseteq Descs /\ UNCHANGED closes
    BY DEF IInv, TypeOK
  <2> QED
    BY <1>3, <2>1, <2>2 DEF IInv, WireState
<1>8. CloseState'
  BY <1>1, <1>2, <1>3 DEF NewGroup, IInv, TypeOK, CloseState
<1>9. ShutState'
  BY DEF IInv, TypeOK, ShutState
<1>10. ReceivedState'
  BY <1>1, <1>2 DEF NewGroup, IInv, TypeOK, ReceivedState, Managed
<1> QED
  BY <1>3, <1>4, <1>5, <1>6, <1>7, <1>8, <1>9, <1>10 DEF IInv

\* A handle is copied: the count goes up.
LEMMA CopyIInv ==
  ASSUME IInv, NEW h \in Handles, NEW c \in Classes, NEW g \in Handles,
         Copy(h, c, g)
  PROVE  IInv'
<1> DEFINE d == desc[g]
<1> USE DEF Copy
<1>1. /\ d \in Descs /\ g \in Group(d) /\ ~Unborn(d) /\ d \notin wire \cup leaked
      /\ valid[g] /\ closes[d] = 0
  BY HeldIsBorn DEF Usable, IInv, HandleState, ValidIsOpen
<1>2. desc[h] = NoDesc /\ h \notin Group(d)
  BY <1>1, HandleAssumption DEF Group, IInv, HandleState
<1>3. Group(d)' = Group(d) \cup {h}
  BY <1>1, <1>2 DEF Group, IInv, TypeOK
<1>4. \A e \in Descs \ {d} : Group(e)' = Group(e)
  BY <1>1, <1>2, HandleAssumption DEF Group, IInv, TypeOK
<1>5. Cardinality(Group(d) \cup {h}) = Cardinality(Group(d)) + 1
  <2>1. IsFiniteSet(Group(d)) /\ h \notin Group(d)
    BY <1>1, <1>2, GroupFinite
  <2> HIDE DEF Copy, d
  <2> QED
    BY <2>1, FS_AddElement
<1>6. valid' = [valid EXCEPT ![h] = TRUE]
  <2>1. valid[g] = TRUE
    BY <1>1 DEF IInv, TypeOK
  <2> QED
    BY <2>1
<1>7. TypeOK' /\ HandleState'
  <2>1. desc' \in [Handles -> Descs \cup {NoDesc}] /\ refs' \in [Descs -> Nat]
    BY <1>1 DEF IInv, TypeOK, Shared
  <2>2. TypeOK'
    BY <1>6, <2>1 DEF IInv, TypeOK, system
  <2>3. HandleState'
    BY <1>1, <1>6, HandleAssumption DEF HandleState, IInv, TypeOK
  <2> QED
    BY <2>2, <2>3
<1>8. CountIsGroup'
  <2>1. refs'[d] = Cardinality(Group(d)')
    BY <1>1, <1>3, <1>5 DEF Shared, CountIsGroup, IInv, TypeOK
  <2>2. \A e \in Descs \ {d} : refs'[e] = Cardinality(Group(e)')
    BY <1>1, <1>4 DEF Shared, CountIsGroup, IInv, TypeOK
  <2>3. \A e \in Descs : e \in shared' <=> Group(e)' # {}
    BY <1>1, <1>3, <1>4 DEF CountIsGroup, IInv
  <2> QED
    BY <2>1, <2>2, <2>3 DEF CountIsGroup
<1>9. ValidIsOpen'
  BY <1>1 DEF IInv, TypeOK, ValidIsOpen
<1>10. UnbornState'
  BY <1>1, <1>4 DEF IInv, UnbornState, Unborn, system
<1>11. WireState'
  BY <1>1, <1>4 DEF IInv, TypeOK, WireState, system
<1>12. CloseState'
  BY <1>1, <1>3, <1>4 DEF IInv, CloseState, system
<1>13. ShutState' /\ ReceivedState'
  BY DEF IInv, ShutState, ReceivedState, Managed, system
<1> QED
  BY <1>7, <1>8, <1>9, <1>10, <1>11, <1>12, <1>13 DEF IInv

\* A destructor begins.
LEMMA DestroyIInv ==
  ASSUME IInv, NEW h \in Handles, Destroy(h)
  PROVE  IInv'
<1> USE DEF Destroy, system
<1>1. \A d \in Descs : Group(d)' = Group(d)
  BY DEF Group
<1>2. class[h] \in {"base_fd", "base_socket"} /\ pc[h] = "live"
  BY HandleAssumption DEF IInv, TypeOK, Usable
<1>3. TypeOK'
  BY <1>2 DEF IInv, TypeOK
<1>4. HandleState'
  BY <1>2 DEF IInv, TypeOK, HandleState
<1>5. CountIsGroup' /\ ValidIsOpen' /\ CloseState'
  BY <1>1 DEF IInv, CountIsGroup, ValidIsOpen, CloseState
<1>6. UnbornState' /\ WireState'
  BY <1>1 DEF IInv, TypeOK, UnbornState, Unborn, WireState
<1>7. ShutState' /\ ReceivedState'
  BY DEF IInv, ShutState, ReceivedState, Managed
<1> QED
  BY <1>3, <1>4, <1>5, <1>6, <1>7 DEF IInv

\* o_sock() duplicates the descriptor and sends it.
LEMMA SendSockIInv ==
  ASSUME IInv, NEW h \in Handles, SendSock(h)
  PROVE  IInv'
<1> DEFINE d == desc[h]
<1> USE DEF SendSock
<1>1. \A e \in Descs : Group(e)' = Group(e)
  BY DEF Group
<1>2. /\ d \in Descs /\ ~Unborn(d) /\ closes[d] = 0
  BY HeldIsBorn DEF Usable, IInv, HandleState, ValidIsOpen
<1>3. preserve' = preserve \cup {d}
  BY DEF Preserved
<1>4. HandleState' /\ CountIsGroup' /\ ValidIsOpen'
  BY <1>1 DEF IInv, HandleState, CountIsGroup, ValidIsOpen
<1>5. CASE UNCHANGED system
  <2> USE <1>5 DEF system
  <2>1. TypeOK'
    BY <1>2, <1>3 DEF IInv, TypeOK
  <2>2. UnbornState' /\ WireState' /\ CloseState'
    BY <1>1, <1>2, <1>3 DEF IInv, TypeOK, UnbornState, Unborn, WireState, CloseState
  <2>3. ShutState' /\ ReceivedState'
    BY <1>2, <1>3 DEF IInv, ShutState, ReceivedState, Managed
  <2> QED
    BY <1>4, <2>1, <2>2, <2>3 DEF IInv
<1>6. ASSUME NEW e \in Descs, Unborn(e),
             origin' = [origin EXCEPT ![e] = desc[h]],
             \/ wire' = wire \cup {e} /\ UNCHANGED leaked
             \/ leaked' = leaked \cup {e} /\ UNCHANGED wire
      PROVE  IInv'
  <2> USE <1>6
  <2>1. /\ Group(e) = {} /\ closes[e] = 0 /\ e # d
        /\ e \notin autoclose \cup preserve \cup wire \cup leaked
    BY <1>2 DEF IInv, UnbornState
  <2>2. TypeOK'
    BY <1>2, <1>3 DEF IInv, TypeOK
  <2>3. UnbornState'
    BY <1>1, <1>2, <1>3, HandleAssumption DEF IInv, TypeOK, UnbornState, Unborn
  <2>4. WireState' /\ CloseState'
    BY <1>1, <2>1 DEF IInv, TypeOK, WireState, CloseState
  <2>5. ShutState'
    BY <1>2, <1>3, <2>1 DEF IInv, TypeOK, ShutState
  <2>6. ReceivedState'
    BY DEF IInv, TypeOK, ReceivedState, Managed
  <2> QED
    BY <1>4, <2>2, <2>3, <2>4, <2>5, <2>6 DEF IInv
<1> QED
  BY <1>5, <1>6

\* ~base_socket closes only when its handle is alone in the group.
LEMMA DtorSocketIInv ==
  ASSUME IInv, NEW h \in Handles, DtorSocket(h)
  PROVE  IInv'
<1> DEFINE d == desc[h]
<1> USE DEF DtorSocket, system
<1>1. \A e \in Descs : Group(e)' = Group(e)
  BY DEF Group
<1>2. /\ d \in Descs /\ valid[h] /\ closes[d] = 0 /\ ~Unborn(d)
      /\ h \in Group(d) /\ d \notin wire \cup leaked
  BY HeldIsBorn DEF IInv, HandleState, ValidIsOpen
<1>3. CountIsGroup'
  BY <1>1 DEF IInv, CountIsGroup
<1>4. CASE WillDestruct(h) /\ MustClose(h)
  <2>1. Group(d) = {h} /\ d \in autoclose
    BY <1>2, <1>4, LastIsAlone DEF IInv, WillDestruct, MustClose
  <2>2. /\ closes' = [closes EXCEPT ![d] = 1]
        /\ shut' = IF d \in preserve THEN shut ELSE shut \cup {d}
        /\ valid' = [valid EXCEPT ![h] = FALSE]
    BY <1>2, <1>4 DEF Invalidated, IInv, TypeOK
  <2>3. TypeOK'
    BY <1>2, <2>2 DEF IInv, TypeOK
  <2>4. HandleState'
    BY <1>2, <2>2 DEF IInv, TypeOK, HandleState
  <2>5. ValidIsOpen'
    BY <1>2, <2>1, <2>2 DEF IInv, TypeOK, ValidIsOpen, Group
  <2>6. UnbornState' /\ WireState' /\ CloseState'
    BY <1>1, <1>2, <2>1, <2>2 DEF IInv, TypeOK, UnbornState, Unborn, WireState, CloseState
  <2>7. ShutState'
    BY <1>2, <2>2 DEF IInv, TypeOK, ShutState
  <2>8. ReceivedState'
    BY DEF IInv, ReceivedState, Managed
  <2> QED
    BY <1>3, <2>3, <2>4, <2>5, <2>6, <2>7, <2>8 DEF IInv
<1>5. CASE ~(WillDestruct(h) /\ MustClose(h))
  <2>1. UNCHANGED <<closes, shut, valid>>
    BY <1>5
  <2>2. TypeOK' /\ HandleState'
    BY <2>1 DEF IInv, TypeOK, HandleState
  <2>3. ValidIsOpen' /\ UnbornState' /\ WireState' /\ CloseState'
    BY <1>1, <2>1 DEF IInv, TypeOK, ValidIsOpen, UnbornState, Unborn, WireState, CloseState
  <2>4. ShutState' /\ ReceivedState'
    BY <2>1 DEF IInv, ShutState, ReceivedState, Managed
  <2> QED
    BY <1>3, <2>2, <2>3, <2>4 DEF IInv
<1> QED
  BY <1>4, <1>5

\* ~base_fd closes when it leaves its group empty and ~base_socket has not.
LEMMA DtorFdStep ==
  ASSUME IInv, NEW h \in Handles, DtorFd(h), NEW d \in Descs, d = desc[h]
  PROVE  /\ h \in Group(d) /\ ~Unborn(d) /\ d \notin wire \cup leaked
         /\ closes[d] \in {0, 1}
         /\ closes[d] = 1 => d \in autoclose
         /\ Group(d)' = Group(d) \ {h}
         /\ \A e \in Descs \ {d} : Group(e)' = Group(e)
         /\ refs' = [refs EXCEPT ![d] = @ - 1]
         /\ refs'[d] = Cardinality(Group(d)')
         /\ Cardinality(Group(d)') \in Nat
         /\ closes' = IF Group(d)' = {} /\ d \in autoclose /\ closes[d] = 0
                         THEN [closes EXCEPT ![d] = 1] ELSE closes
         /\ shared' = IF Group(d)' = {} THEN shared \ {d} ELSE shared
<1> USE DEF DtorFd, system
<1>0. d = desc[h]
  OBVIOUS
<1>1. /\ h \in Group(d) /\ ~Unborn(d) /\ d \notin wire \cup leaked
      /\ valid[h] <=> closes[d] = 0
      /\ closes[d] \in {0, 1}
      /\ closes[d] = 1 => d \in autoclose
  <2>1. h \in Group(d) /\ ~Unborn(d) /\ d \notin wire \cup leaked
    BY <1>0, HeldIsBorn
  <2>2. valid[h] <=> closes[d] = 0
    BY <1>0, HandleAssumption DEF IInv, ValidIsOpen
  <2>3. closes[d] \in {0, 1} /\ (closes[d] = 1 => d \in autoclose)
    BY DEF IInv, CloseState
  <2> QED
    BY <2>1, <2>2, <2>3
<1>2. /\ Group(d)' = Group(d) \ {h}
      /\ \A e \in Descs \ {d} : Group(e)' = Group(e)
  BY <1>0, HandleAssumption DEF Group, IInv, TypeOK
<1>3. Cardinality(Group(d)') = Cardinality(Group(d)) - 1
  <2>1. IsFiniteSet(Group(d)) /\ h \in Group(d)
    BY <1>1, GroupFinite
  <2> HIDE DEF DtorFd
  <2> QED
    BY <1>2, <2>1, FS_RemoveElement
<1>4. /\ Cardinality(Group(d)') \in Nat
      /\ Cardinality(Group(d)') = 0 <=> Group(d)' = {}
  BY <1>2, GroupFinite, FS_RemoveElement, FS_CardinalityType, FS_EmptySet
<1>5. refs' = [refs EXCEPT ![d] = @ - 1] /\ refs'[d] = Cardinality(Group(d)')
  BY <1>0, <1>3 DEF Released, IInv, CountIsGroup, TypeOK
<1>6. closes' = IF Group(d)' = {} /\ d \in autoclose /\ closes[d] = 0
                  THEN [closes EXCEPT ![d] = 1] ELSE closes
  <2>1. refs'[d] = 0 <=> Group(d)' = {}
    BY <1>4, <1>5
  <2>2. MustClose(h) <=> d \in autoclose /\ closes[d] = 0
    BY <1>0, <1>1 DEF MustClose
  <2>3. closes' = IF refs'[d] = 0 /\ MustClose(h)
                    THEN [closes EXCEPT ![d] = closes[d] + 1] ELSE closes
    BY <1>0
  <2> HIDE DEF DtorFd
  <2>4. (refs'[d] = 0 /\ MustClose(h)) <=> (Group(d)' = {} /\ d \in autoclose /\ closes[d] = 0)
    BY <2>1, <2>2
  <2>5. CASE refs'[d] = 0 /\ MustClose(h)
    <3>1. closes' = [closes EXCEPT ![d] = closes[d] + 1]
      BY <2>3, <2>5, Zenon
    <3>2. Group(d)' = {} /\ d \in autoclose /\ closes[d] = 0
      BY <2>4, <2>5, Zenon
    <3> QED
      BY <3>1, <3>2
  <2>6. CASE ~(refs'[d] = 0 /\ MustClose(h))
    <3>1. closes' = closes
      BY <2>3, <2>6, Zenon
    <3> QED
      BY <2>4, <2>6, <3>1, Zenon
  <2> QED
    BY <2>5, <2>6
<1>7. shared' = IF Group(d)' = {} THEN shared \ {d} ELSE shared
  BY <1>0, <1>4, <1>5
<1> QED
  BY <1>1, <1>2, <1>4, <1>5, <1>6, <1>7

\* ~base_fd() counts down, and the last one closes.
LEMMA DtorFdIInv ==
  ASSUME IInv, NEW h \in Handles, DtorFd(h)
  PROVE  IInv'
<1> USE DEF DtorFd, system
<1>0. PICK d \in Descs : d = desc[h]
  BY HeldIsBorn
<1>1. /\ h \in Group(d) /\ ~Unborn(d) /\ d \notin wire \cup leaked
      /\ closes[d] \in {0, 1}
      /\ closes[d] = 1 => d \in autoclose
  BY <1>0, DtorFdStep
<1>2. /\ Group(d)' = Group(d) \ {h}
      /\ \A e \in Descs \ {d} : Group(e)' = Group(e)
  BY <1>0, DtorFdStep
<1>3. /\ refs' = [refs EXCEPT ![d] = @ - 1]
      /\ refs'[d] = Cardinality(Group(d)')
      /\ Cardinality(Group(d)') \in Nat
  BY <1>0, DtorFdStep
<1>4. closes' = IF Group(d)' = {} /\ d \in autoclose /\ closes[d] = 0
                  THEN [closes EXCEPT ![d] = 1] ELSE closes
  BY <1>0, DtorFdStep
<1>5. shared' = IF Group(d)' = {} THEN shared \ {d} ELSE shared
  BY <1>0, DtorFdStep
<1>6. TypeOK'
  <2>1. refs' \in [Descs -> Nat]
    BY <1>3 DEF IInv, TypeOK
  <2>2. closes \in [Descs -> Nat] /\ shared \in SUBSET Descs
    BY DEF IInv, TypeOK
  <2>3. closes' \in [Descs -> Nat] /\ shared' \in SUBSET Descs
    <3> HIDE DEF DtorFd
    <3> QED
      BY <1>4, <1>5, <2>2
  <2> QED
    BY <2>1, <2>3, HandleAssumption DEF IInv, TypeOK
<1>7. HandleState'
  BY HandleAssumption DEF IInv, TypeOK, HandleState
<1>8. CountIsGroup'
  <2>1. \A e \in Descs : refs'[e] = Cardinality(Group(e)')
    BY <1>2, <1>3 DEF IInv, TypeOK, CountIsGroup
  <2>2. \A e \in Descs : e \in shared' <=> Group(e)' # {}
    BY <1>1, <1>2, <1>5 DEF IInv, CountIsGroup
  <2> QED
    BY <2>1, <2>2 DEF CountIsGroup
<1>9. ValidIsOpen'
  <2> SUFFICES ASSUME NEW g \in Handles, desc'[g] # NoDesc
               PROVE  valid'[g] <=> closes'[desc'[g]] = 0
    BY DEF ValidIsOpen
  <2>1. g # h /\ desc'[g] = desc[g] /\ valid'[g] = valid[g]
    BY DEF IInv, TypeOK
  <2>2. desc[g] = d => Group(d)' # {}
    BY <1>2, <2>1 DEF Group
  <2>3. closes'[desc[g]] = closes[desc[g]]
    BY <1>1, <1>4, <2>2 DEF IInv, TypeOK
  <2> QED
    BY <2>1, <2>3 DEF IInv, ValidIsOpen
<1>10. UnbornState' /\ WireState'
  BY <1>1, <1>2, <1>4 DEF IInv, TypeOK, UnbornState, Unborn, WireState
<1>11. CloseState'
  BY <1>1, <1>2, <1>4 DEF IInv, TypeOK, CloseState
<1>12. ShutState' /\ ReceivedState'
  BY <1>4 DEF IInv, TypeOK, ShutState, ReceivedState, Managed
<1> QED
  BY <1>6, <1>7, <1>8, <1>9, <1>10, <1>11, <1>12 DEF IInv

-----------------------------------------------------------------------------
\* Every step keeps the inductive invariant.
LEMMA NextIInv ==
  ASSUME IInv, [Next]_vars
  PROVE  IInv'
<1>1. ASSUME NEW h \in Handles, NEW c \in Classes, NEW d \in Descs,
             NEW auto \in BOOLEAN, Construct(h, c, d, auto)
      PROVE  IInv'
  BY <1>1, ConstructIInv
<1>2. ASSUME NEW h \in Handles, NEW c \in Classes, NEW g \in Handles,
             Copy(h, c, g)
      PROVE  IInv'
  BY <1>2, CopyIInv
<1>3. ASSUME NEW h \in Handles, Destroy(h) PROVE IInv'
  BY <1>3, DestroyIInv
<1>4. ASSUME NEW h \in Handles, Destructor(h) PROVE IInv'
  BY <1>4, DtorSocketIInv, DtorFdIInv DEF Destructor
<1>5. ASSUME NEW h \in Handles, SendSock(h) PROVE IInv'
  BY <1>5, SendSockIInv
<1>6. ASSUME NEW h \in Handles, NEW e \in Descs, RecvSock(h, e) PROVE IInv'
  BY <1>6, RecvSockIInv
<1>7. CASE UNCHANGED vars
  <2> USE <1>7 DEF vars
  <2>1. \A d \in Descs : Group(d)' = Group(d)
    BY DEF Group
  <2>2. TypeOK' /\ HandleState'
    BY DEF IInv, TypeOK, HandleState
  <2>3. CountIsGroup' /\ ValidIsOpen' /\ CloseState'
    BY <2>1 DEF IInv, CountIsGroup, ValidIsOpen, CloseState
  <2>4. UnbornState' /\ WireState'
    BY <2>1 DEF IInv, TypeOK, UnbornState, Unborn, WireState
  <2>5. ShutState' /\ ReceivedState'
    BY DEF IInv, ShutState, ReceivedState, Managed
  <2> QED
    BY <2>2, <2>3, <2>4, <2>5 DEF IInv
<1> QED
  BY <1>1, <1>2, <1>3, <1>4, <1>5, <1>6, <1>7 DEF Next

\* A handle that can be used is in an open group, with its shared data.
LEMMA OpenWhileUsable == IInv => UsableIsOpen
<1> SUFFICES ASSUME IInv, NEW h \in Handles, pc[h] = "live"
             PROVE  valid[h] /\ closes[desc[h]] = 0 /\ desc[h] \in shared
  BY DEF UsableIsOpen
<1>1. desc[h] \in Descs /\ h \in Group(desc[h])
  BY HeldIsBorn
<1> QED
  BY <1>1 DEF IInv, HandleState, ValidIsOpen, CountIsGroup

\* The inductive invariant holds for every number of handles and descriptors.
THEOREM Inductive == Spec => []IInv
<1>1. Init => IInv
  BY InitIInv
<1>2. IInv /\ [Next]_vars => IInv'
  BY NextIInv
<1> QED
  BY <1>1, <1>2, PTL DEF Spec

\* Type correctness, for every set of handles and descriptors.
THEOREM TypeCorrect == Spec => []TypeOK
<1>1. IInv => TypeOK
  BY DEF IInv
<1> QED
  BY <1>1, Inductive, PTL

\* No object is left with a closed descriptor or freed shared data while it can
\* be used, in any interleaving of any number of destructors (base_io.cpp:57-69,
\* 170-183).
THEOREM NoUseAfterClose == Spec => []UsableIsOpen
<1>1. IInv => UsableIsOpen
  BY OpenWhileUsable
<1> QED
  BY <1>1, Inductive, PTL

\* The two fd_close() functions never close one descriptor twice.
THEOREM NoDoubleClose == Spec => []ClosedAtMostOnce
<1>1. IInv => ClosedAtMostOnce
  BY DEF IInv, CloseState, ClosedAtMostOnce
<1> QED
  BY <1>1, Inductive, PTL

\* When the last handle is gone, whichever it was, the descriptor has been
\* closed and the shared data deleted.
THEOREM NoLeftover == Spec => []NothingLeft
<1>1. IInv => NothingLeft
  BY DEF IInv, CloseState, CountIsGroup, NothingLeft
<1> QED
  BY <1>1, Inductive, PTL

\* Destroying the handles of a socket never shuts down a connection that was
\* sent with o_sock.
THEOREM SentSurvives == Spec => []SentNotShut
<1>1. IInv => SentNotShut
  BY DEF IInv, TypeOK, ShutState, SentNotShut
<1> QED
  BY <1>1, Inductive, PTL

-----------------------------------------------------------------------------
\* Handle implements SharedResource: each step of a constructor, a destructor or
\* an o_sock/i_sock is one step of the abstract resource, or none.

\* A step that concerns one descriptor changes the abstract maps there only.
LEMMA OneResource ==
  ASSUME NEW d \in Descs,
         \A e \in Descs \ {d} : Phase(e)' = Phase(e) /\ HoldersOf(e)' = HoldersOf(e)
  PROVE  /\ [e \in Descs |-> Phase(e)]'
              = [[e \in Descs |-> Phase(e)] EXCEPT ![d] = Phase(d)']
         /\ [e \in Descs |-> HoldersOf(e)]'
              = [[e \in Descs |-> HoldersOf(e)] EXCEPT ![d] = HoldersOf(d)']
<1> HIDE DEF Phase, HoldersOf
<1> QED
  OBVIOUS

\* A step that changes none of what the abstract resource sees is a stutter.
LEMMA NoResource ==
  ASSUME \A e \in Descs : Phase(e)' = Phase(e) /\ HoldersOf(e)' = HoldersOf(e),
         Managed' = Managed
  PROVE  UNCHANGED Abstract!rvars
<1>1. [e \in Descs |-> Phase(e)]' = [e \in Descs |-> Phase(e)]
  OBVIOUS
<1>2. [e \in Descs |-> HoldersOf(e)]' = [e \in Descs |-> HoldersOf(e)]
  OBVIOUS
<1> QED
  BY <1>1, <1>2 DEF Abstract!rvars

\* While an autoclose descriptor is open, its holders are the whole group.
LEMMA HoldersAreGroup ==
  ASSUME IInv, NEW d \in Descs, d \notin wire \cup leaked
  PROVE  HoldersOf(d) = IF closes[d] = 0 THEN Group(d) ELSE {}
<1>1. \A h \in Handles : desc[h] = d => (valid[h] <=> closes[d] = 0)
  BY HandleAssumption DEF IInv, ValidIsOpen
<1> QED
  BY <1>1 DEF HoldersOf, Group

\* With no handle nobody holds a resource.
LEMMA InitRefines == Init => Abstract!ResourceInit
<1> SUFFICES ASSUME Init PROVE Abstract!ResourceInit
  OBVIOUS
<1>1. \A d \in Descs : Phase(d) = "absent" /\ HoldersOf(d) = {}
  BY HandleAssumption DEF Init, Phase, Unborn, HoldersOf
<1>2. Managed = {}
  BY DEF Init, Managed
<1> QED
  BY <1>1, <1>2 DEF Abstract!ResourceInit

\* A new handle acquires a resource.
LEMMA ConstructRefines ==
  ASSUME IInv, NEW h \in Handles, NEW c \in Classes, NEW d \in Descs,
         NEW auto \in BOOLEAN, Construct(h, c, d, auto)
  PROVE  Abstract!Acquire(d, h)
<1> USE DEF Construct, NewGroup
<1>1. Unborn(d) /\ Group(d) = {} /\ closes[d] = 0 /\ d \notin wire \cup leaked
  BY DEF IInv, UnbornState
<1>2. Phase(d) = "absent" /\ Phase(d)' = "held"
  BY <1>1, HandleAssumption DEF Phase, Unborn, IInv, TypeOK
<1>3. HoldersOf(d)' = {h}
  BY <1>1 DEF HoldersOf, Group, IInv, TypeOK
<1>4. \A e \in Descs \ {d} : Phase(e)' = Phase(e) /\ HoldersOf(e)' = HoldersOf(e)
  <2> SUFFICES ASSUME NEW e \in Descs \ {d}
               PROVE  Phase(e)' = Phase(e) /\ HoldersOf(e)' = HoldersOf(e)
    OBVIOUS
  <2>1. Phase(e)' = Phase(e)
    BY DEF Phase, Unborn, IInv, TypeOK
  <2>2. HoldersOf(e)' = HoldersOf(e)
    BY HandleAssumption DEF HoldersOf, IInv, TypeOK, HandleState
  <2> QED
    BY <2>1, <2>2
<1>5. Managed' = Managed \cup {d} \/ Managed' = Managed
  <2>1. Managed' = autoclose'
    <3>1. \A e \in Descs : origin'[e] \in {e, NoDesc}
      BY DEF IInv, TypeOK, Unborn
    <3> QED
      BY <3>1 DEF Managed
  <2>2. Managed = autoclose
    BY DEF Managed, Unborn
  <2> QED
    BY <2>1, <2>2
<1> QED
  BY <1>2, <1>3, <1>4, <1>5, OneResource DEF Abstract!Acquire

\* A copy shares it.
LEMMA CopyRefines ==
  ASSUME IInv, NEW h \in Handles, NEW c \in Classes, NEW g \in Handles,
         Copy(h, c, g)
  PROVE  Abstract!Share(desc[g], h)
<1> USE DEF Copy, system
<1>0. PICK d \in Descs : d = desc[g]
  BY HeldIsBorn DEF Usable
<1>1. g \in Group(d) /\ d \notin wire \cup leaked /\ valid[g] /\ closes[d] = 0
  BY <1>0, HeldIsBorn DEF Usable, IInv, HandleState, ValidIsOpen
<1>2. desc[h] = NoDesc
  BY DEF IInv, HandleState
<1>3. g \in HoldersOf(d)
  BY <1>1 DEF HoldersOf, Group
<1>4. HoldersOf(d)' = HoldersOf(d) \cup {h}
  BY <1>0, <1>1, <1>2 DEF HoldersOf, IInv, TypeOK
<1>5. \A e \in Descs : Phase(e)' = Phase(e)
  BY DEF Phase, Unborn
<1>6. \A e \in Descs \ {d} : HoldersOf(e)' = HoldersOf(e)
  BY <1>0, <1>2, HandleAssumption DEF HoldersOf, IInv, TypeOK
<1>7. Managed' = Managed
  BY DEF Managed
<1>8. [e \in Descs |-> Phase(e)]' = [e \in Descs |-> Phase(e)]
  BY <1>5
<1> QED
  BY <1>0, <1>3, <1>4, <1>5, <1>6, <1>7, <1>8, OneResource DEF Abstract!Share

\* ~base_socket drops its hold if it closes, and is a stutter otherwise.
LEMMA DtorSocketRefines ==
  ASSUME IInv, NEW h \in Handles, DtorSocket(h)
  PROVE  Abstract!Drop(desc[h], h) \/ UNCHANGED Abstract!rvars
<1> USE DEF DtorSocket, system
<1>0. PICK d \in Descs : d = desc[h]
  BY HeldIsBorn
<1>1. /\ valid[h] /\ closes[d] = 0 /\ ~Unborn(d)
      /\ h \in Group(d) /\ d \notin wire \cup leaked
  BY <1>0, HeldIsBorn DEF IInv, HandleState, ValidIsOpen
<1>2. Managed' = Managed
  BY DEF Managed
<1>3. CASE WillDestruct(h) /\ MustClose(h)
  <2>1. Group(d) = {h} /\ d \in autoclose
    BY <1>0, <1>1, <1>3, LastIsAlone DEF IInv, WillDestruct, MustClose
  <2>2. closes' = [closes EXCEPT ![d] = 1] /\ valid' = [valid EXCEPT ![h] = FALSE]
    BY <1>0, <1>1, <1>3 DEF Invalidated, IInv, TypeOK
  <2>3. HoldersOf(d) = {h} /\ HoldersOf(d)' = {}
    <3>1. HoldersOf(d) = {h}
      BY <1>1, <2>1, HoldersAreGroup
    <3>2. HoldersOf(d)' = {}
      BY <1>0, <1>1, <2>1, <2>2 DEF HoldersOf, Group, IInv, TypeOK
    <3> QED
      BY <3>1, <3>2
  <2>4. Phase(d)' = "released"
    BY <1>1, <2>2 DEF Phase, Unborn, IInv, TypeOK
  <2>5. \A e \in Descs \ {d} : Phase(e)' = Phase(e) /\ HoldersOf(e)' = HoldersOf(e)
    <3>1. \A e \in Descs \ {d} : Phase(e)' = Phase(e)
      BY <2>2 DEF Phase, Unborn, IInv, TypeOK
    <3>2. \A e \in Descs \ {d} : HoldersOf(e)' = HoldersOf(e)
      BY <1>0, <2>2 DEF HoldersOf, IInv, TypeOK
    <3> QED
      BY <3>1, <3>2
  <2>6. d \in Managed
    BY <2>1 DEF Managed
  <2>7. Abstract!Drop(d, h)
    BY <1>2, <2>3, <2>4, <2>5, <2>6, OneResource DEF Abstract!Drop
  <2> QED
    BY <1>0, <2>7
<1>4. CASE ~(WillDestruct(h) /\ MustClose(h))
  <2>1. UNCHANGED <<closes, valid, desc, origin, wire, leaked>>
    BY <1>4
  <2>2. \A e \in Descs : Phase(e)' = Phase(e) /\ HoldersOf(e)' = HoldersOf(e)
    BY <2>1 DEF Phase, Unborn, HoldersOf
  <2> QED
    BY <1>2, <2>2, NoResource
<1> QED
  BY <1>3, <1>4

\* ~base_fd drops its hold, if ~base_socket has not closed already.
LEMMA DtorFdRefines ==
  ASSUME IInv, NEW h \in Handles, DtorFd(h)
  PROVE  Abstract!Drop(desc[h], h) \/ UNCHANGED Abstract!rvars
<1> USE DEF DtorFd, system
<1>0. PICK d \in Descs : d = desc[h]
  BY HeldIsBorn
<1>1. h \in Group(d) /\ ~Unborn(d) /\ d \notin wire \cup leaked
  BY <1>0, HeldIsBorn
<1>2. Group(d)' = Group(d) \ {h}
  BY <1>0, DtorFdStep
<1>3. closes' = IF Group(d) = {h} /\ d \in autoclose /\ closes[d] = 0
                  THEN [closes EXCEPT ![d] = 1] ELSE closes
  <2>1. Group(d)' = {} <=> Group(d) = {h}
    BY <1>1, <1>2
  <2>2. closes' = IF Group(d)' = {} /\ d \in autoclose /\ closes[d] = 0
                    THEN [closes EXCEPT ![d] = 1] ELSE closes
    BY <1>0, DtorFdStep
  <2> HIDE DEF DtorFd
  <2> QED
    BY <2>1, <2>2
<1>4. Managed' = Managed
  BY DEF Managed
<1>5. \A e \in Descs \ {d} : Phase(e)' = Phase(e) /\ HoldersOf(e)' = HoldersOf(e)
  <2>1. \A e \in Descs \ {d} : closes'[e] = closes[e]
    BY <1>3 DEF IInv, TypeOK
  <2>2. \A e \in Descs \ {d} : Phase(e)' = Phase(e)
    BY <2>1 DEF Phase, Unborn
  <2>3. \A e \in Descs \ {d} : HoldersOf(e)' = HoldersOf(e)
    BY <1>0, HandleAssumption DEF HoldersOf, IInv, TypeOK
  <2> QED
    BY <2>2, <2>3
<1>6. HoldersOf(d) = IF closes[d] = 0 THEN Group(d) ELSE {}
  BY <1>1, HoldersAreGroup
<1>7. HoldersOf(d)' = HoldersOf(d) \ {h}
  BY <1>0, <1>1, HandleAssumption DEF HoldersOf, IInv, TypeOK
<1>8. CASE closes[d] = 0
  <2>1. d \in Managed <=> d \in autoclose
    BY <1>1 DEF IInv, ReceivedState, Managed
  <2>2. HoldersOf(d) = Group(d) /\ h \in HoldersOf(d)
    BY <1>1, <1>6, <1>8
  <2>3. Phase(d)' = IF HoldersOf(d) = {h} /\ d \in Managed THEN "released" ELSE Phase(d)
    <3>1. CASE HoldersOf(d) = {h} /\ d \in Managed
      <4>1. closes'[d] = 1
        BY <1>3, <1>8, <2>1, <2>2, <3>1 DEF IInv, TypeOK
      <4> QED
        BY <1>1, <3>1, <4>1 DEF Phase, Unborn
    <3>2. CASE ~(HoldersOf(d) = {h} /\ d \in Managed)
      <4>1. closes' = closes
        BY <1>3, <2>1, <2>2, <3>2
      <4> QED
        BY <3>2, <4>1 DEF Phase, Unborn
    <3> QED
      BY <3>1, <3>2
  <2>4. Abstract!Drop(d, h)
    <3>1. [e \in Descs |-> HoldersOf(e)]'
            = [[e \in Descs |-> HoldersOf(e)] EXCEPT ![d] = @ \ {h}]
      BY <1>5, <1>7, OneResource
    <3>2. [e \in Descs |-> Phase(e)]'
            = IF HoldersOf(d) = {h} /\ d \in Managed
                THEN [[e \in Descs |-> Phase(e)] EXCEPT ![d] = "released"]
                ELSE [e \in Descs |-> Phase(e)]
      BY <1>5, <2>3, OneResource
    <3> HIDE DEF DtorFd, Phase, HoldersOf
    <3> QED
      BY <1>4, <2>2, <3>1, <3>2 DEF Abstract!Drop
  <2> QED
    BY <1>0, <2>4
<1>9. CASE closes[d] # 0
  <2>1. closes' = closes
    BY <1>3, <1>9
  <2>2. HoldersOf(d)' = HoldersOf(d)
    BY <1>6, <1>7, <1>9
  <2>3. Phase(d)' = Phase(d)
    BY <2>1 DEF Phase, Unborn
  <2> QED
    BY <1>4, <1>5, <2>2, <2>3, NoResource
<1> QED
  BY <1>8, <1>9

\* A destructor that begins still holds it.
LEMMA DestroyRefines ==
  ASSUME IInv, NEW h \in Handles, Destroy(h)
  PROVE  UNCHANGED Abstract!rvars
<1>1. \A e \in Descs : Phase(e)' = Phase(e) /\ HoldersOf(e)' = HoldersOf(e)
  BY DEF Destroy, system, Phase, Unborn, HoldersOf
<1>2. Managed' = Managed
  BY DEF Destroy, system, Managed
<1> QED
  BY <1>1, <1>2, NoResource

\* A dup() is acquired by the message that carries it.
LEMMA SendSockRefines ==
  ASSUME IInv, NEW h \in Handles, SendSock(h)
  PROVE  (\E e \in Descs : Abstract!Acquire(e, Wire)) \/ UNCHANGED Abstract!rvars
<1> USE DEF SendSock
<1>1. CASE UNCHANGED system
  <2>1. \A e \in Descs : Phase(e)' = Phase(e) /\ HoldersOf(e)' = HoldersOf(e)
    BY <1>1 DEF system, Phase, Unborn, HoldersOf
  <2>2. Managed' = Managed
    BY <1>1 DEF system, Managed
  <2> QED
    BY <2>1, <2>2, NoResource
<1>2. ASSUME NEW e \in Descs, Unborn(e),
             origin' = [origin EXCEPT ![e] = desc[h]],
             \/ wire' = wire \cup {e} /\ UNCHANGED leaked
             \/ leaked' = leaked \cup {e} /\ UNCHANGED wire
      PROVE  Abstract!Acquire(e, Wire)
  <2> USE <1>2
  <2>1. /\ Group(e) = {} /\ closes[e] = 0 /\ e \notin autoclose \cup wire \cup leaked
    BY DEF IInv, UnbornState
  <2>2. desc[h] \in Descs /\ desc[h] # e
    BY HeldIsBorn DEF Usable
  <2>3. Phase(e) = "absent" /\ Phase(e)' = "held"
    BY <2>1, <2>2, HandleAssumption DEF Phase, Unborn, IInv, TypeOK
  <2>4. HoldersOf(e)' = {Wire}
    BY <2>1 DEF HoldersOf, Group
  <2>5. \A d \in Descs \ {e} : Phase(d)' = Phase(d) /\ HoldersOf(d)' = HoldersOf(d)
    <3>1. \A d \in Descs \ {e} : Phase(d)' = Phase(d)
      BY DEF Phase, Unborn, IInv, TypeOK
    <3>2. \A d \in Descs \ {e} : HoldersOf(d)' = HoldersOf(d)
      BY DEF HoldersOf
    <3> QED
      BY <3>1, <3>2
  <2>6. Managed' = Managed \cup {e}
    BY <2>2, HandleAssumption DEF Managed, IInv, TypeOK
  <2> QED
    BY <2>3, <2>4, <2>5, <2>6, OneResource DEF Abstract!Acquire
<1> QED
  BY <1>1, <1>2

\* The message hands the descriptor it carries to the new handle.
LEMMA RecvSockRefines ==
  ASSUME IInv, NEW h \in Handles, NEW e \in Descs, RecvSock(h, e)
  PROVE  Abstract!Transfer(e, Wire, h)
<1> USE DEF RecvSock, NewGroup
<1>1. /\ Group(e) = {} /\ closes[e] = 0 /\ ~Unborn(e) /\ origin[e] # e
      /\ e \in wire /\ e \notin leaked
  BY DEF IInv, WireState, UnbornState
<1>2. Wire \in HoldersOf(e)
  BY <1>1 DEF HoldersOf
<1>3. HoldersOf(e)' = (HoldersOf(e) \ {Wire}) \cup {h}
  <2>1. HoldersOf(e) = {Wire}
    BY <1>1 DEF HoldersOf, Group
  <2>2. HoldersOf(e)' = {h}
    BY <1>1 DEF HoldersOf, Group, IInv, TypeOK
  <2> QED
    BY <2>1, <2>2, HandleAssumption
<1>4. \A d \in Descs : Phase(d)' = Phase(d)
  BY DEF Phase, Unborn
<1>5. \A d \in Descs \ {e} : HoldersOf(d)' = HoldersOf(d)
  BY HandleAssumption DEF HoldersOf, IInv, TypeOK, HandleState
<1>6. Managed' = Managed
  <2>1. e \in Managed
    BY <1>1 DEF Managed, Unborn
  <2>2. autoclose' = autoclose \cup {e}
    BY DEF NewGroup
  <2> QED
    BY <2>1, <2>2 DEF Managed
<1>7. [d \in Descs |-> Phase(d)]' = [d \in Descs |-> Phase(d)]
  BY <1>4
<1> QED
  BY <1>2, <1>3, <1>4, <1>5, <1>6, <1>7, OneResource DEF Abstract!Transfer

-----------------------------------------------------------------------------
\* Every step of the handles is a step of the abstract resource, or none.
LEMMA NextRefines ==
  ASSUME IInv, [Next]_vars
  PROVE  [Abstract!ResourceNext]_(Abstract!rvars)
<1> SUFFICES Abstract!ResourceNext \/ UNCHANGED Abstract!rvars
  OBVIOUS
<1> USE DEF Abstract!ResourceNext
<1>1. ASSUME NEW h \in Handles, NEW c \in Classes, NEW d \in Descs,
             NEW auto \in BOOLEAN, Construct(h, c, d, auto)
      PROVE  Abstract!ResourceNext
  BY <1>1, ConstructRefines
<1>2. ASSUME NEW h \in Handles, NEW c \in Classes, NEW g \in Handles,
             Copy(h, c, g)
      PROVE  Abstract!ResourceNext
  <2>1. desc[g] \in Descs
    BY <1>2, HeldIsBorn DEF Copy, Usable
  <2> QED
    BY <1>2, <2>1, CopyRefines
<1>3. ASSUME NEW h \in Handles, Destroy(h) PROVE UNCHANGED Abstract!rvars
  BY <1>3, DestroyRefines
<1>4. ASSUME NEW h \in Handles, Destructor(h)
      PROVE  Abstract!ResourceNext \/ UNCHANGED Abstract!rvars
  <2>1. desc[h] \in Descs
    BY <1>4, HeldIsBorn DEF Destructor, DtorSocket, DtorFd
  <2> QED
    BY <1>4, <2>1, DtorSocketRefines, DtorFdRefines DEF Destructor
<1>5. ASSUME NEW h \in Handles, SendSock(h)
      PROVE  Abstract!ResourceNext \/ UNCHANGED Abstract!rvars
  BY <1>5, SendSockRefines
<1>6. ASSUME NEW h \in Handles, NEW e \in Descs, RecvSock(h, e)
      PROVE  Abstract!ResourceNext
  BY <1>6, RecvSockRefines
<1>7. CASE UNCHANGED vars
  <2>1. \A e \in Descs : Phase(e)' = Phase(e) /\ HoldersOf(e)' = HoldersOf(e)
    BY <1>7 DEF vars, Phase, Unborn, HoldersOf
  <2>2. Managed' = Managed
    BY <1>7 DEF vars, Managed
  <2> QED
    BY <2>1, <2>2, NoResource
<1> HIDE DEF Abstract!ResourceNext
<1> QED
  BY <1>1, <1>2, <1>3, <1>4, <1>5, <1>6, <1>7 DEF Next

\* Every behaviour of the handles is a behaviour of the abstract resource, for
\* all handles and descriptors and all interleavings of the destructors.
THEOREM Implements == Spec => ImplementsSharedResource
<1>1. Init => Abstract!ResourceInit
  BY InitRefines
<1>2. IInv /\ [Next]_vars => [Abstract!ResourceNext]_(Abstract!rvars)
  BY NextRefines
<1> QED
  BY <1>1, <1>2, Inductive, PTL DEF Spec, ImplementsSharedResource, Abstract!ResourceSpec

-----------------------------------------------------------------------------
(***************************************************************************)
(* The clients of a server are handles, so all that is proved of Handle is *)
(* proved of them; and, for every set of handles, threads and descriptors, *)
(* the count of the clients is their number, their data are deleted with   *)
(* the last of them, and the client a thread is given waits for it.        *)
(***************************************************************************)

\* The objects that belong to threads, or will.
Reserved == heap \cup running \cup NewPlaces

\* While wait_new_client_threaded runs, the two objects on its stack are where
\* they should be, and nobody else destroys them.
CallState ==
  /\ call \in {"none", "accepted"} => made = NoHandle
  /\ call \in {"accepted", "attached"} =>
       temp \in Handles /\ IsClient(temp) /\ temp \notin Reserved
  /\ call = "dropping" =>
       temp \in Handles /\ pc[temp] \in {"base_socket", "base_fd"} /\ temp \notin Reserved
  /\ call \in {"attached", "dropping", "dropped"} =>
       made \in Handles /\ IsClient(made) /\ made \notin Reserved /\ made # temp

\* Each thread has a client and a place of its own.
ThreadState ==
  /\ \A h \in heap : pc[h] # "none"
  /\ \A p \in starting : p[1] \in heap /\ IsClient(p[1]) /\ pc[p[2]] = "none"
  /\ \A p \in started : p[1] \in heap /\ IsClient(p[2])
  /\ \A p, q \in starting \cup started : p[1] = q[1] \/ p[2] = q[2] => p = q
  /\ starting \cap started = {}
  /\ \A h \in running : IsClient(h) /\ h \notin NewPlaces
  /\ heap \cap (running \cup NewPlaces) = {}

\* The data of a client: those of the caller, once they have been attached.
Current(h) ==
  IF AttachedData \in created /\ ~(call = "attached" /\ h = temp)
    THEN AttachedData ELSE OwnData

\* The clients are copies of one another, and counted.
CountIsClients ==
  /\ \A h \in Handles : IsClient(h) => pc[h] = "live" /\ data[h] = Current(h)
  /\ \A g, h \in Handles : IsClient(g) /\ IsClient(h) => desc[g] = desc[h]
  /\ \A d \in Descs : clients[d] = Cardinality(ClientsOf(d))
  /\ call = "accepted" =>
       AttachedData \notin created /\ \A h \in Handles : IsClient(h) => h = temp
  /\ call = "attached" =>
       AttachedData \in created /\ \A h \in Handles : IsClient(h) => h \in {temp, made}

\* Data are deleted when there is no client, and only those that one had then.
DataState ==
  /\ created # {} => OwnData \in created /\ \E d \in Descs : ~Unborn(d)
  /\ created = {} => \A h \in Handles : ~IsClient(h)
  /\ \A x \in Data :
       deleted[x] = IF x \in created \ Replaced /\ \A h \in Handles : ~IsClient(h)
                      THEN 1 ELSE 0

CInv ==
  /\ IInv
  /\ ClientTypeOK
  /\ CallState
  /\ ThreadState
  /\ CountIsClients
  /\ DataState

-----------------------------------------------------------------------------
\* The sets of clients are finite: they have a cardinality.
LEMMA ClientsFinite ==
  ASSUME NEW d \in Descs
  PROVE  IsFiniteSet(ClientsOf(d)) /\ Cardinality(ClientsOf(d)) \in Nat
<1>1. ClientsOf(d) \in SUBSET Handles
  BY DEF ClientsOf
<1>2. IsFiniteSet(ClientsOf(d))
  BY <1>1, HandleAssumption, FS_Subset
<1> QED
  BY <1>2, FS_CardinalityType

\* A place that is free belongs to nobody, and no client is there.
LEMMA FreePlace ==
  ASSUME CInv, NEW h \in Handles, Free(h)
  PROVE  /\ pc[h] = "none" /\ ~IsClient(h) /\ h \notin Reserved
         /\ call \in {"accepted", "attached", "dropping"} => h # temp
         /\ call \in {"attached", "dropping", "dropped"} => h # made
<1> USE DEF CInv
<1>1. pc[h] = "none" /\ h \notin NewPlaces
  BY DEF Free
<1>2. ~IsClient(h)
  BY <1>1 DEF CountIsClients
<1>3. h \notin heap /\ h \notin running
  BY <1>1, <1>2 DEF ThreadState
<1>4. call \in {"accepted", "attached", "dropping"} => h # temp
  BY <1>1, <1>2 DEF CallState
<1>5. call \in {"attached", "dropping", "dropped"} => h # made
  BY <1>2 DEF CallState
<1> QED
  BY <1>1, <1>2, <1>3, <1>4, <1>5 DEF Reserved

\* A descriptor that was opened stays so to the model.
LEMMA BornStays ==
  ASSUME IInv, [Next]_vars, NEW d \in Descs, ~Unborn(d)
  PROVE  ~Unborn(d)'
<1> USE DEF Unborn, IInv, TypeOK
<1>1. CASE UNCHANGED origin
  BY <1>1
<1>2. ASSUME NEW h \in Handles, NEW c \in Classes, NEW e \in Descs,
             NEW auto \in BOOLEAN, Construct(h, c, e, auto)
      PROVE  FALSE
  BY <1>2 DEF Construct
<1>3. ASSUME NEW h \in Handles, SendSock(h) PROVE ~Unborn(d)'
  BY <1>3 DEF SendSock, system
<1>4. ASSUME NEW h \in Handles, Destructor(h) PROVE UNCHANGED origin
  BY <1>4 DEF Destructor, DtorSocket, DtorFd, system
<1> QED
  BY <1>1, <1>2, <1>3, <1>4 DEF Next, Copy, Destroy, RecvSock, vars, system

-----------------------------------------------------------------------------
\* The copy constructor of a client: one client more, of the same descriptor.
LEMMA CopyClientStep ==
  ASSUME CInv, NEW h \in Handles, NEW g \in Handles, NEW x \in Data, CopyClient(h, g, x)
  PROVE  /\ Next
         /\ h # g /\ pc[h] = "none" /\ ~IsClient(h) /\ IsClient(g)
         /\ pc' = [pc EXCEPT ![h] = "live"]
         /\ data' = [data EXCEPT ![h] = x]
         /\ \A k, m \in Handles : IsClient(k)' /\ IsClient(m)' => desc'[k] = desc'[m]
         /\ \A d \in Descs : clients'[d] = Cardinality(ClientsOf(d)')
         /\ clients' \in [Descs -> Nat]
<1> DEFINE d == desc[g]
<1> USE DEF CopyClient, CInv
<1>1. Copy(h, "base_socket", g) /\ "base_socket" \in Classes
  BY ClientAssumption
<1>2. Next
  BY <1>1 DEF Next
<1>3. /\ pc[g] = "live" /\ pc[h] = "none" /\ h # g /\ ~IsClient(h)
      /\ d \in Descs
  BY <1>1, HeldIsBorn DEF Copy, Usable, CountIsClients
<1>4. /\ pc' = [pc EXCEPT ![h] = "live"]
      /\ desc' = [desc EXCEPT ![h] = d]
      /\ data' = [data EXCEPT ![h] = x]
      /\ clients' = [clients EXCEPT ![d] = @ + 1]
  BY <1>1 DEF Copy, Counted
<1>5. /\ data \in [Handles -> Data \cup {NoData}] /\ clients \in [Descs -> Nat]
      /\ desc \in [Handles -> Descs \cup {NoDesc}]
      /\ x # NoData
  BY ClientAssumption DEF ClientTypeOK, IInv, TypeOK, Data
<1> HIDE DEF CopyClient
<1>6. \A k \in Handles : IsClient(k)' <=> IsClient(k) \/ k = h
  BY <1>4, <1>5 DEF IsClient
<1>7. \A k, m \in Handles : IsClient(k)' /\ IsClient(m)' => desc'[k] = desc'[m]
  <2>1. \A k \in Handles : IsClient(k)' => desc'[k] = d
    <3>1. IsClient(g)
      BY DEF CopyClient
    <3> QED
      BY <1>4, <1>5, <1>6, <3>1 DEF CountIsClients
  <2> QED
    BY <2>1
<1>8. ClientsOf(d)' = ClientsOf(d) \cup {h} /\ h \notin ClientsOf(d)
  BY <1>3, <1>4, <1>5, <1>6 DEF ClientsOf
<1>9. Cardinality(ClientsOf(d) \cup {h}) = Cardinality(ClientsOf(d)) + 1
  BY <1>3, <1>8, ClientsFinite, FS_AddElement
<1>10. \A e \in Descs \ {d} : ClientsOf(e)' = ClientsOf(e)
  BY <1>3, <1>4, <1>5, <1>6 DEF ClientsOf
<1>11. \A e \in Descs : clients'[e] = Cardinality(ClientsOf(e)')
  BY <1>3, <1>4, <1>5, <1>8, <1>9, <1>10 DEF CountIsClients
<1> QED
  BY <1>2, <1>3, <1>4, <1>5, <1>7, <1>11 DEF CopyClient

\* ~_client and what follows it: one client less, if the object was one, and
\* the data are deleted if it was the last.
LEMMA DestroyObjectStep ==
  ASSUME CInv, NEW h \in Handles, DestroyObject(h)
  PROVE  /\ Next
         /\ pc[h] = "live" /\ pc' = [pc EXCEPT ![h] = class[h]] /\ class[h] \in {"base_socket", "base_fd"}
         /\ data' = [data EXCEPT ![h] = NoData]
         /\ desc' = desc
         /\ \A e \in Descs : clients'[e] = Cardinality(ClientsOf(e)')
         /\ clients' \in [Descs -> Nat]
         /\ created' = created
         /\ deleted' = IF IsClient(h) /\ \A k \in Handles : ~IsClient(k)'
                         THEN [deleted EXCEPT ![data[h]] = @ + 1] ELSE deleted
<1> DEFINE d == desc[h]
<1> USE DEF CInv
<1>1. Destroy(h) /\ created' = created
  BY DEF DestroyObject
<1>2. Next
  BY <1>1 DEF Next
<1>3. /\ pc[h] = "live" /\ pc' = [pc EXCEPT ![h] = class[h]] /\ desc' = desc /\ d \in Descs
      /\ class[h] \in {"base_socket", "base_fd"}
  BY <1>1, HeldIsBorn, HandleAssumption DEF Destroy, Usable, IInv, TypeOK
<1>4. /\ data \in [Handles -> Data \cup {NoData}] /\ clients \in [Descs -> Nat]
  BY DEF ClientTypeOK
<1>5. CASE ~IsClient(h)
  <2>1. UNCHANGED <<clients, deleted, data>>
    BY <1>5 DEF DestroyObject
  <2>2. data' = [data EXCEPT ![h] = NoData]
    BY <1>4, <1>5, <2>1 DEF IsClient
  <2>3. \A e \in Descs : ClientsOf(e)' = ClientsOf(e)
    BY <1>3, <2>1 DEF ClientsOf, IsClient
  <2>4. \A e \in Descs : clients'[e] = Cardinality(ClientsOf(e)')
    BY <2>1, <2>3 DEF CountIsClients
  <2> QED
    BY <1>1, <1>2, <1>3, <1>4, <1>5, <2>1, <2>2, <2>4
<1>6. CASE IsClient(h)
  <2>1. /\ clients' = [clients EXCEPT ![d] = @ - 1]
        /\ deleted' = IF clients[d] = 1 THEN [deleted EXCEPT ![data[h]] = @ + 1] ELSE deleted
        /\ data' = [data EXCEPT ![h] = NoData]
    BY <1>6 DEF DestroyObject, LastClient
  <2>2. \A k \in Handles : IsClient(k)' <=> IsClient(k) /\ k # h
    BY <1>4, <2>1 DEF IsClient
  <2>3. ClientsOf(d)' = ClientsOf(d) \ {h} /\ h \in ClientsOf(d)
    BY <1>3, <1>6, <2>2 DEF ClientsOf
  <2>4. /\ Cardinality(ClientsOf(d) \ {h}) = Cardinality(ClientsOf(d)) - 1
        /\ Cardinality(ClientsOf(d)) \in Nat /\ IsFiniteSet(ClientsOf(d) \ {h})
    BY <1>3, <2>3, ClientsFinite, FS_RemoveElement
  <2>5. \A e \in Descs \ {d} : ClientsOf(e)' = ClientsOf(e)
    BY <1>3, <2>2 DEF ClientsOf
  <2>6. /\ clients'[d] = Cardinality(ClientsOf(d)')
        /\ \A e \in Descs \ {d} : clients'[e] = Cardinality(ClientsOf(e)')
    BY <1>3, <1>4, <2>1, <2>3, <2>4, <2>5 DEF CountIsClients
  <2>7. clients' \in [Descs -> Nat]
    <3>1. clients[d] - 1 \in Nat
      <4>1. Cardinality(ClientsOf(d) \ {h}) \in Nat
        BY <2>4, FS_CardinalityType
      <4> QED
        BY <1>3, <2>4, <4>1 DEF CountIsClients
    <3> QED
      BY <1>3, <1>4, <2>1, <3>1
  <2>8. clients[d] = 1 <=> \A k \in Handles : ~IsClient(k)'
    <3>1. clients[d] = 1 <=> Cardinality(ClientsOf(d) \ {h}) = 0
      BY <1>3, <2>4 DEF CountIsClients
    <3>2. clients[d] = 1 <=> ClientsOf(d) \ {h} = {}
      BY <2>4, <3>1, FS_EmptySet
    <3>3. ClientsOf(d) \ {h} = {} <=> \A k \in Handles : ~IsClient(k)'
      <4>1. \A k \in Handles : IsClient(k) => k \in ClientsOf(d)
        BY <1>6 DEF CountIsClients, ClientsOf
      <4> QED
        BY <2>2, <4>1 DEF ClientsOf
    <3> QED
      BY <3>2, <3>3
  <2> QED
    BY <1>1, <1>2, <1>3, <1>6, <2>1, <2>6, <2>7, <2>8
<1> QED
  BY <1>5, <1>6

-----------------------------------------------------------------------------
\* A step of handles that are no clients, and of destructors that have more to
\* do, changes nothing for the clients.
LEMMA QuietStep ==
  ASSUME CInv, [Next]_vars, UNCHANGED clientVars,
         \A k \in Handles : \/ pc'[k] = pc[k] /\ desc'[k] = desc[k]
                            \/ Free(k) /\ pc'[k] # "none"
                            \/ pc[k] = "base_socket" /\ pc'[k] = "base_fd"
  PROVE  CInv'
<1> USE DEF CInv, clientVars
<1>1. IInv'
  BY NextIInv
<1>2. ClientTypeOK' /\ NewPlaces' = NewPlaces /\ Reserved' = Reserved
  BY DEF ClientTypeOK, NewPlaces, Reserved
<1>3. \A k : IsClient(k)' <=> IsClient(k)
  BY DEF IsClient
<1>4. \A k \in Handles : IsClient(k) => pc'[k] = "live" /\ desc'[k] = desc[k]
  BY DEF CountIsClients, Free
<1>5. CallState'
  <2>1. call = "dropping" => pc'[temp] \in {"base_socket", "base_fd"}
    BY DEF CallState, Free
  <2> QED
    BY <1>2, <1>3, <2>1 DEF CallState
<1>6. ThreadState'
  <2>1. \A h \in heap : h \in Handles /\ pc'[h] # "none"
    BY DEF ThreadState, ClientTypeOK, Free
  <2>2. \A p \in starting : pc'[p[2]] = "none"
    <3> SUFFICES ASSUME NEW p \in starting PROVE pc'[p[2]] = "none"
      OBVIOUS
    <3>1. p[2] \in Handles /\ p[2] \in NewPlaces /\ pc[p[2]] = "none"
      BY DEF ClientTypeOK, NewPlaces, ThreadState
    <3> QED
      BY <3>1 DEF Free
  <2> QED
    BY <1>2, <1>3, <2>1, <2>2 DEF ThreadState
<1>7. CountIsClients'
  <2>1. \A k \in Handles : Current(k)' = Current(k)
    BY DEF Current
  <2>2. \A d \in Descs : ClientsOf(d)' = ClientsOf(d)
    BY <1>3, <1>4 DEF ClientsOf
  <2> QED
    BY <1>3, <1>4, <2>1, <2>2 DEF CountIsClients
<1>8. DataState'
  <2>1. Replaced' = Replaced
    BY DEF Replaced
  <2>2. created # {} => \E d \in Descs : ~Unborn(d)'
    BY BornStays DEF DataState
  <2> QED
    BY <1>3, <2>1, <2>2 DEF DataState
<1> QED
  BY <1>1, <1>2, <1>5, <1>6, <1>7, <1>8 DEF CInv

-----------------------------------------------------------------------------
\* What a copy of a client leaves true of counts and data.  While the accepted
\* client waits for its data, only AttachData copies it.
LEMMA CopyClientCounts ==
  ASSUME CInv, NEW h \in Handles, NEW g \in Handles, CopyClient(h, g, data[g]),
         {call, call'} \cap {"accepted", "attached"} = {}, UNCHANGED deleted
  PROVE  /\ CountIsClients' /\ DataState'
         /\ created' = created /\ data[g] \in Data /\ data[g] # NoData
<1> USE DEF CInv
<1>1. /\ data[g] \in Data /\ data[g] # NoData
      /\ data[g] = IF AttachedData \in created THEN AttachedData ELSE OwnData
  <2>1. IsClient(g)
    BY DEF CopyClient
  <2> QED
    BY <2>1 DEF IsClient, CountIsClients, ClientTypeOK, Current
<1>2. /\ Next
      /\ h # g /\ ~IsClient(h) /\ IsClient(g)
      /\ pc' = [pc EXCEPT ![h] = "live"]
      /\ data' = [data EXCEPT ![h] = data[g]]
      /\ \A k, m \in Handles : IsClient(k)' /\ IsClient(m)' => desc'[k] = desc'[m]
      /\ \A d \in Descs : clients'[d] = Cardinality(ClientsOf(d)')
  BY <1>1, CopyClientStep
<1>3. created' = created
  <2>1. created' = created \cup {data[g]}
    BY DEF CopyClient
  <2>2. OwnData \in created
    BY <1>2 DEF DataState
  <2> QED
    BY <1>1, <2>1, <2>2
<1>4. /\ data \in [Handles -> Data \cup {NoData}]
      /\ pc \in [Handles -> {"none", "live", "base_socket", "base_fd"}]
  BY DEF ClientTypeOK, IInv, TypeOK
<1>5. \A k \in Handles : IsClient(k)' <=> IsClient(k) \/ k = h
  BY <1>1, <1>2, <1>4 DEF IsClient
<1>6. \A k \in Handles : IsClient(k)' => pc'[k] = "live" /\ data'[k] = Current(k)'
  BY <1>1, <1>2, <1>3, <1>4, <1>5 DEF CountIsClients, Current
<1>7. CountIsClients'
  BY <1>2, <1>6 DEF CountIsClients
<1>8. DataState'
  <2>1. \A d \in Descs : ~Unborn(d) => ~Unborn(d)'
    BY <1>2, BornStays
  <2> QED
    BY <1>2, <1>3, <1>5, <2>1 DEF DataState, Replaced
<1> QED
  BY <1>1, <1>3, <1>7, <1>8

\* What the end of a client leaves true of counts and data.
LEMMA DestroyObjectCounts ==
  ASSUME CInv, NEW h \in Handles, DestroyObject(h), UNCHANGED <<temp, made>>,
         \/ call' = call /\ ~(call \in {"accepted", "attached"} /\ IsClient(h))
         \/ call = "attached" /\ h = temp /\ call' = "dropping"
  PROVE  /\ CountIsClients' /\ DataState'
         /\ deleted' \in [Data -> Nat]
<1> USE DEF CInv
<1>1. /\ Next
      /\ pc[h] = "live" /\ pc' = [pc EXCEPT ![h] = class[h]]
      /\ data' = [data EXCEPT ![h] = NoData]
      /\ desc' = desc
      /\ \A e \in Descs : clients'[e] = Cardinality(ClientsOf(e)')
      /\ created' = created
      /\ deleted' = IF IsClient(h) /\ \A k \in Handles : ~IsClient(k)'
                      THEN [deleted EXCEPT ![data[h]] = @ + 1] ELSE deleted
  BY DestroyObjectStep
<1>2. /\ data \in [Handles -> Data \cup {NoData}] /\ deleted \in [Data -> Nat]
      /\ pc \in [Handles -> {"none", "live", "base_socket", "base_fd"}]
  BY DEF ClientTypeOK, IInv, TypeOK
<1>3. \A k \in Handles : IsClient(k)' <=> IsClient(k) /\ k # h
  BY <1>1, <1>2 DEF IsClient
<1>4. \A k \in Handles : IsClient(k)' => pc'[k] = "live" /\ data'[k] = Current(k)'
  <2> SUFFICES ASSUME NEW k \in Handles, IsClient(k)'
               PROVE  pc'[k] = "live" /\ data'[k] = Current(k)'
    OBVIOUS
  <2>1. IsClient(k) /\ k # h /\ pc'[k] = pc[k] /\ data'[k] = data[k]
    BY <1>1, <1>2, <1>3
  <2>2. pc[k] = "live" /\ data[k] = Current(k)
    BY <2>1 DEF CountIsClients
  <2>3. Current(k)' = Current(k)
    BY <1>1, <2>1 DEF Current
  <2> QED
    BY <2>1, <2>2, <2>3
<1>5. CountIsClients'
  BY <1>1, <1>3, <1>4 DEF CountIsClients
<1>6. \A d \in Descs : ~Unborn(d) => ~Unborn(d)'
  BY <1>1, BornStays
<1>7. CASE IsClient(h) /\ \A k \in Handles : ~IsClient(k)'
  <2>1. call # "attached"
    BY <1>3, <1>7 DEF CallState
  <2>2. data[h] = (IF AttachedData \in created THEN AttachedData ELSE OwnData) /\ OwnData \in created
    BY <1>7, <2>1 DEF CountIsClients, Current, DataState
  <2>3. created \ Replaced = {data[h]} /\ data[h] \in Data
    BY <2>2, ClientAssumption DEF Replaced, ClientTypeOK, Data
  <2>4. \A x \in Data : deleted[x] = 0
    BY <1>7 DEF DataState
  <2>5. deleted' = [deleted EXCEPT ![data[h]] = 1]
    <3>1. deleted' = [deleted EXCEPT ![data[h]] = deleted[data[h]] + 1]
      BY <1>1, <1>7, Zenon
    <3>2. deleted[data[h]] + 1 = 1
      BY <2>3, <2>4
    <3> QED
      BY <3>1, <3>2
  <2>6. Replaced' = Replaced
    BY <1>1 DEF Replaced
  <2> QED
    BY <1>1, <1>2, <1>5, <1>6, <1>7, <2>2, <2>3, <2>4, <2>5, <2>6 DEF DataState
<1>8. CASE ~(IsClient(h) /\ \A k \in Handles : ~IsClient(k)')
  <2>1. deleted' = deleted
    BY <1>1, <1>8
  <2>2. (\A k \in Handles : ~IsClient(k)') <=> (\A k \in Handles : ~IsClient(k))
    BY <1>3, <1>8
  <2>3. Replaced' = Replaced
    BY <1>1 DEF Replaced
  <2> QED
    BY <1>1, <1>2, <1>5, <1>6, <2>1, <2>2, <2>3 DEF DataState
<1> QED
  BY <1>7, <1>8

-----------------------------------------------------------------------------
\* The program makes an object that is no client, or sends a socket.
LEMMA HandlesOnly ==
  ASSUME CInv, NEW h \in Handles, UNCHANGED clientVars,
         \/ /\ Free(h)
            /\ \/ \E c \in Classes, d \in Descs, auto \in BOOLEAN : Construct(h, c, d, auto)
               \/ \E c \in Classes, g \in Handles : OfProgram(g) /\ Copy(h, c, g)
               \/ \E e \in Descs : RecvSock(h, e)
         \/ SendSock(h)
         \/ DtorSocket(h)
  PROVE  CInv'
<1>1. Next
  BY DEF Next, Destructor
<1>2. /\ pc \in [Handles -> {"none", "live", "base_socket", "base_fd"}]
      /\ desc \in [Handles -> Descs \cup {NoDesc}]
  BY DEF CInv, IInv, TypeOK
<1>3. \A k \in Handles : \/ pc'[k] = pc[k] /\ desc'[k] = desc[k]
                         \/ Free(k) /\ pc'[k] # "none"
                         \/ pc[k] = "base_socket" /\ pc'[k] = "base_fd"
  <2>1. CASE SendSock(h)
    BY <2>1 DEF SendSock
  <2>2. CASE DtorSocket(h)
    BY <1>2, <2>2 DEF DtorSocket
  <2>3. CASE ~SendSock(h) /\ ~DtorSocket(h)
    <3>1. Free(h) /\ pc' = [pc EXCEPT ![h] = "live"] /\ \E d : desc' = [desc EXCEPT ![h] = d]
      BY <2>3 DEF Construct, NewGroup, Copy, RecvSock
    <3> QED
      BY <1>2, <3>1
  <2> QED
    BY <2>1, <2>2, <2>3
<1> QED
  BY <1>1, <1>3, QuietStep

\* wait_new_client(): the first and only object of its own making.
LEMMA WaitNewClientCInv ==
  ASSUME CInv, NEW h \in Handles, NEW d \in Descs, WaitNewClient(h, d)
  PROVE  CInv'
<1> USE DEF CInv
<1>1. /\ Construct(h, "base_socket", d, TRUE) /\ "base_socket" \in Classes
      /\ Free(h)
      /\ data' = [data EXCEPT ![h] = OwnData]
      /\ clients' = [clients EXCEPT ![d] = 1]
      /\ created' = created \cup {OwnData}
      /\ UNCHANGED <<deleted, threads>>
      /\ \/ UNCHANGED calls
         \/ call' = "accepted" /\ temp' = h /\ UNCHANGED made
  BY ClientAssumption DEF WaitNewClient
<1>2. Next /\ IInv'
  <2>1. Next
    BY <1>1 DEF Next
  <2> QED
    BY <2>1, NextIInv
<1>3. /\ pc' = [pc EXCEPT ![h] = "live"]
      /\ desc' = [desc EXCEPT ![h] = d]
      /\ origin' = [origin EXCEPT ![d] = d]
      /\ \A e \in Descs : Unborn(e)
  BY <1>1 DEF Construct, NewGroup
<1>4. /\ data \in [Handles -> Data \cup {NoData}] /\ clients \in [Descs -> Nat]
      /\ pc \in [Handles -> {"none", "live", "base_socket", "base_fd"}]
      /\ desc \in [Handles -> Descs \cup {NoDesc}] /\ origin \in [Descs -> Descs \cup {NoDesc}]
      /\ NoDesc \notin Descs
      /\ OwnData # NoData /\ OwnData # AttachedData
  BY HandleAssumption, ClientAssumption DEF ClientTypeOK, IInv, TypeOK
<1>5. /\ \A k \in Handles : pc[k] = "none" /\ ~IsClient(k)
      /\ created = {}
  <2>1. \A k \in Handles : pc[k] = "none"
    BY <1>3, HeldIsBorn
  <2>2. created = {}
    BY <1>3 DEF DataState
  <2> QED
    BY <2>1, <2>2 DEF CountIsClients
<1>6. starting = {} /\ started = {} /\ running = {} /\ heap = {} /\ Reserved' = {}
  <2>1. heap = {} /\ running = {}
    BY <1>5 DEF ThreadState, ClientTypeOK
  <2>2. starting = {} /\ started = {}
    BY <2>1 DEF ThreadState
  <2> QED
    BY <1>1, <2>1, <2>2 DEF Reserved, NewPlaces, threads
<1>7. call = "none" \/ call = "dropping"
  BY <1>5 DEF ClientTypeOK, CallState
<1>8. call = "none"
  BY <1>5, <1>7 DEF CallState
<1>9. \A k \in Handles : IsClient(k)' <=> k = h
  BY <1>1, <1>4, <1>5 DEF IsClient
<1>10. CallState'
  BY <1>1, <1>6, <1>8, <1>9 DEF CallState, calls
<1>11. ThreadState'
  BY <1>1, <1>6 DEF ThreadState, threads
<1>12. CountIsClients'
  <2>1. \A e \in Descs : ClientsOf(e)' = IF e = d THEN {h} ELSE {}
    BY <1>3, <1>4, <1>9 DEF ClientsOf
  <2>2. \A e \in Descs : clients[e] = 0
    BY <1>5, FS_EmptySet DEF CountIsClients, ClientsOf
  <2>3. \A e \in Descs : clients'[e] = Cardinality(ClientsOf(e)')
    BY <1>1, <1>4, <2>1, <2>2, FS_EmptySet, FS_Singleton
  <2>4. AttachedData \notin created'
    BY <1>1, <1>4, <1>5
  <2>5. \A k \in Handles : IsClient(k)' => pc'[k] = "live" /\ data'[k] = Current(k)'
    BY <1>1, <1>3, <1>4, <1>9, <2>4 DEF Current
  <2> QED
    BY <1>1, <1>8, <1>9, <2>3, <2>4, <2>5 DEF CountIsClients, calls
<1>13. DataState'
  <2>1. ~Unborn(d)'
    BY <1>3, <1>4 DEF Unborn
  <2>2. \A x \in Data : deleted'[x] = 0
    BY <1>1, <1>5 DEF DataState
  <2> QED
    BY <1>1, <1>5, <1>9, <2>1, <2>2 DEF DataState
<1>14. ClientTypeOK'
  BY <1>1, <1>4 DEF ClientTypeOK, Data, calls, threads
<1> QED
  BY <1>2, <1>10, <1>11, <1>12, <1>13, <1>14

-----------------------------------------------------------------------------
\* The places of threads, and the objects in them, are handles.
LEMMA PlacesAreHandles ==
  ASSUME CInv
  PROVE  /\ heap \subseteq Handles /\ running \subseteq Handles
         /\ \A p \in starting \cup started : /\ p[1] \in Handles /\ p[2] \in Handles
                                             /\ p = <<p[1], p[2]>>
                                             /\ p[2] \in NewPlaces /\ p[1] \in heap
BY DEF CInv, ClientTypeOK, NewPlaces, ThreadState

\* An object is destroyed that no thread has in its hands but the one that
\* destroys it: the others have what they had.
LEMMA DestroyObjectCInv ==
  ASSUME CInv, NEW h \in Handles, DestroyObject(h), UNCHANGED <<starting, started, heap, temp, made>>,
         running' = running \ {h},
         h \notin NewPlaces, h \notin {p[1] : p \in starting},
         call \in {"attached", "dropping", "dropped"} => h # made,
         \/ call' = call /\ (call \in {"accepted", "attached"} => h # temp)
         \/ call = "attached" /\ h = temp /\ call' = "dropping"
  PROVE  CInv'
<1> USE DEF CInv
<1>1. /\ Next
      /\ pc[h] = "live" /\ pc' = [pc EXCEPT ![h] = class[h]] /\ class[h] \in {"base_socket", "base_fd"}
      /\ data' = [data EXCEPT ![h] = NoData]
      /\ clients' \in [Descs -> Nat] /\ created' = created
  BY DestroyObjectStep
<1>2. IInv'
  BY <1>1, NextIInv
<1>3. CountIsClients' /\ DataState' /\ deleted' \in [Data -> Nat]
  <2>1. call \in {"accepted", "attached"} /\ IsClient(h) => h \in {temp, made}
    BY DEF CountIsClients
  <2>2. \/ call' = call /\ ~(call \in {"accepted", "attached"} /\ IsClient(h))
        \/ call = "attached" /\ h = temp /\ call' = "dropping"
    BY <2>1 DEF CountIsClients
  <2> QED
    BY <2>2, DestroyObjectCounts
<1>4. /\ data \in [Handles -> Data \cup {NoData}]
      /\ pc \in [Handles -> {"none", "live", "base_socket", "base_fd"}]
  BY DEF ClientTypeOK, IInv, TypeOK
<1>5. \A k \in Handles : k # h => (IsClient(k)' <=> IsClient(k)) /\ pc'[k] = pc[k]
  BY <1>1, <1>4 DEF IsClient
<1>6. NewPlaces' = NewPlaces /\ Reserved' \subseteq Reserved
  <2>1. NewPlaces' = NewPlaces
    BY DEF NewPlaces
  <2> QED
    BY <2>1 DEF Reserved
<1>7. ClientTypeOK'
  BY <1>1, <1>3, <1>4 DEF ClientTypeOK
<1>8. CallState'
  <2>1. call' \in {"accepted", "attached"} => call' = call /\ h # temp
    OBVIOUS
  <2>2. call' = "dropping" => temp \in Handles /\ pc'[temp] \in {"base_socket", "base_fd"} /\ temp \notin Reserved
    BY <1>1, <1>4, <1>5 DEF CallState
  <2> QED
    BY <1>5, <1>6, <2>1, <2>2 DEF CallState
<1>9. ThreadState'
  <2>1. \A p \in starting : p[1] # h /\ p[2] # h
    BY DEF NewPlaces
  <2>2. \A p \in started : p[2] # h
    BY DEF NewPlaces
  <2>3. \A k \in heap : pc'[k] # "none"
    BY <1>1, <1>4, <1>5, PlacesAreHandles DEF ThreadState
  <2>4. \A p \in starting : p[1] \in heap /\ IsClient(p[1])' /\ pc'[p[2]] = "none"
    BY <1>5, <2>1, PlacesAreHandles DEF ThreadState
  <2>5. \A p \in started : p[1] \in heap /\ IsClient(p[2])'
    BY <1>5, <2>2, PlacesAreHandles DEF ThreadState
  <2>6. \A k \in running' : IsClient(k)' /\ k \notin NewPlaces
    BY <1>5, PlacesAreHandles DEF ThreadState
  <2> QED
    BY <1>6, <2>3, <2>4, <2>5, <2>6 DEF ThreadState
<1> QED
  BY <1>2, <1>3, <1>7, <1>8, <1>9

\* By the program, which has it from nowhere else.
LEMMA ProgramDestroys ==
  ASSUME CInv, NEW h \in Handles, OfProgram(h), DestroyObject(h), UNCHANGED <<calls, threads>>
  PROVE  CInv'
<1>1. h \notin {temp, made} \cup heap \cup running \cup NewPlaces
  BY DEF OfProgram
<1>2. h \notin {p[1] : p \in starting}
  BY <1>1, PlacesAreHandles
<1>3. running' = running \ {h} /\ UNCHANGED <<starting, started, heap, temp, made, call>>
  BY <1>1 DEF threads, calls
<1> QED
  BY <1>1, <1>2, <1>3, DestroyObjectCInv

\* By the thread that it was made for, after it has copied it.
LEMMA ThreadDeletesCInv ==
  ASSUME CInv, NEW n \in Handles, NEW l \in Handles, ThreadDeletes(n, l)
  PROVE  CInv'
<1>1. <<n, l>> \in started /\ DestroyObject(n) /\ UNCHANGED <<calls, threads>>
  BY DEF ThreadDeletes
<1>2. n \in heap /\ n \notin running /\ n \notin NewPlaces
  BY <1>1, PlacesAreHandles DEF CInv, ThreadState
<1>3. n \notin {p[1] : p \in starting}
  <2> SUFFICES ASSUME NEW p \in starting, p[1] = n PROVE FALSE
    OBVIOUS
  <2>1. <<n, l>> \in starting \cup started /\ <<n, l>>[1] = n /\ p \in starting \cup started
    BY <1>1
  <2>2. p = <<n, l>>
    BY <2>1 DEF CInv, ThreadState
  <2> QED
    BY <1>1, <2>2 DEF CInv, ThreadState
<1>4. /\ call \in {"attached", "dropping", "dropped"} => n # made
      /\ call \in {"accepted", "attached"} => n # temp
  BY <1>2 DEF CInv, CallState, Reserved
<1>5. running' = running \ {n} /\ UNCHANGED <<starting, started, heap, temp, made, call>>
  BY <1>1, <1>2 DEF threads, calls
<1> QED
  BY <1>1, <1>2, <1>3, <1>4, <1>5, DestroyObjectCInv

\* By the end of the routine on whose stack it is.
LEMMA ThreadEndsCInv ==
  ASSUME CInv, NEW l \in Handles, ThreadEnds(l)
  PROVE  CInv'
<1>1. /\ l \in running /\ DestroyObject(l) /\ running' = running \ {l}
      /\ UNCHANGED <<calls, starting, started, heap>>
  BY DEF ThreadEnds
<1>2. l \notin heap /\ l \notin NewPlaces /\ l \in Reserved
  BY <1>1 DEF CInv, ThreadState, Reserved
<1>3. l \notin {p[1] : p \in starting}
  BY <1>2, PlacesAreHandles
<1>4. /\ call \in {"attached", "dropping", "dropped"} => l # made
      /\ call \in {"accepted", "attached"} => l # temp
  BY <1>2 DEF CInv, CallState
<1>5. UNCHANGED <<starting, started, heap, temp, made, call>>
  BY <1>1 DEF calls
<1> QED
  BY <1>1, <1>2, <1>3, <1>4, <1>5, DestroyObjectCInv

\* By wait_new_client_threaded(): the accepted client, after its copy was made.
LEMMA DropTempCInv ==
  ASSUME CInv, DropTemp
  PROVE  CInv'
<1>1. /\ call = "attached" /\ DestroyObject(temp) /\ call' = "dropping"
      /\ UNCHANGED <<temp, made, threads>>
  BY DEF DropTemp
<1>2. temp \in Handles /\ temp \notin Reserved /\ temp # made
  BY <1>1 DEF CInv, CallState
<1>3. temp \notin {p[1] : p \in starting}
  BY <1>2, PlacesAreHandles DEF Reserved
<1>4. running' = running \ {temp} /\ UNCHANGED <<starting, started, heap>>
  BY <1>1, <1>2 DEF threads, Reserved
<1> QED
  BY <1>1, <1>2, <1>3, <1>4, DestroyObjectCInv DEF Reserved

-----------------------------------------------------------------------------
\* Nobody copies a client while wait_new_client_threaded() exchanges the data.
LEMMA NotWhileAttaching ==
  ASSUME CInv, NEW g \in Handles, IsClient(g),
         OfProgram(g) \/ g \in heap
  PROVE  call \notin {"accepted", "attached"}
<1>1. CASE OfProgram(g)
  BY <1>1 DEF OfProgram, CInv, CountIsClients
<1>2. CASE g \in heap
  BY <1>2 DEF CInv, CountIsClients, CallState, Reserved
<1> QED
  BY <1>1, <1>2

\* The program copies a client of its own.
LEMMA ProgramCopies ==
  ASSUME CInv, NEW h \in Handles, NEW g \in Handles, Free(h), OfProgram(g),
         CopyClient(h, g, data[g]), UNCHANGED <<calls, threads>>
  PROVE  CInv'
<1> USE DEF CInv
<1>1. call' = call /\ temp' = temp /\ made' = made /\ call \notin {"accepted", "attached"}
  BY NotWhileAttaching DEF CopyClient, calls
<1>2. CountIsClients' /\ DataState' /\ created' = created /\ data[g] \in Data /\ deleted' = deleted
  BY <1>1, CopyClientCounts DEF CopyClient
<1>3. /\ Next
      /\ pc' = [pc EXCEPT ![h] = "live"]
      /\ data' = [data EXCEPT ![h] = data[g]]
      /\ clients' \in [Descs -> Nat]
  BY <1>2, CopyClientStep
<1>4. IInv'
  BY <1>3, NextIInv
<1>5. /\ data \in [Handles -> Data \cup {NoData}] /\ data[g] # NoData
      /\ pc \in [Handles -> {"none", "live", "base_socket", "base_fd"}]
  BY DEF ClientTypeOK, IInv, TypeOK, CopyClient, IsClient
<1>6. /\ \A k \in Handles : IsClient(k) => IsClient(k)'
      /\ \A k \in Handles : k # h => pc'[k] = pc[k]
      /\ pc'[h] = "live"
  BY <1>3, <1>5 DEF IsClient
<1>7. ClientTypeOK'
  BY <1>1, <1>2, <1>3, <1>5 DEF ClientTypeOK, threads
<1>8. NewPlaces' = NewPlaces /\ Reserved' = Reserved
  BY DEF NewPlaces, Reserved, threads
<1>9. CallState'
  BY <1>1, <1>6, <1>8, FreePlace DEF CallState
<1>10. ThreadState'
  <2>1. UNCHANGED <<starting, started, running, heap>> /\ h \notin NewPlaces
    BY DEF threads, Free
  <2>2. \A k \in heap : pc'[k] # "none"
    BY <1>6, PlacesAreHandles DEF ThreadState
  <2>3. \A p \in starting : p[1] \in heap /\ IsClient(p[1])' /\ pc'[p[2]] = "none"
    BY <1>6, <2>1, PlacesAreHandles DEF ThreadState
  <2>4. \A p \in started : p[1] \in heap /\ IsClient(p[2])'
    BY <1>6, PlacesAreHandles DEF ThreadState
  <2>5. \A k \in running : IsClient(k)'
    BY <1>6, PlacesAreHandles DEF ThreadState
  <2> QED
    BY <1>8, <2>1, <2>2, <2>3, <2>4, <2>5 DEF ThreadState
<1> QED
  BY <1>2, <1>4, <1>7, <1>9, <1>10

\* client c(wait_new_client(), attached_data): for that moment there are two
\* clients with different data under one count.
LEMMA AttachDataCInv ==
  ASSUME CInv, NEW h \in Handles, AttachData(h)
  PROVE  CInv'
<1> USE DEF CInv
<1>1. /\ call = "accepted" /\ call' = "attached" /\ made' = h /\ temp' = temp
      /\ Free(h) /\ UNCHANGED threads
      /\ CopyClient(h, temp, AttachedData)
      /\ temp \in Handles /\ IsClient(temp) /\ temp \notin Reserved /\ AttachedData \in Data
  BY DEF AttachData, AttachedTo, CallState, Data
<1>2. /\ Next
      /\ h # temp /\ ~IsClient(h)
      /\ pc' = [pc EXCEPT ![h] = "live"]
      /\ data' = [data EXCEPT ![h] = AttachedData]
      /\ \A k, m \in Handles : IsClient(k)' /\ IsClient(m)' => desc'[k] = desc'[m]
      /\ \A d \in Descs : clients'[d] = Cardinality(ClientsOf(d)')
      /\ clients' \in [Descs -> Nat]
  BY <1>1, CopyClientStep
<1>3. IInv'
  BY <1>2, NextIInv
<1>4. created' = created \cup {AttachedData} /\ deleted' = deleted
  BY <1>1 DEF CopyClient
<1>5. /\ data \in [Handles -> Data \cup {NoData}]
      /\ pc \in [Handles -> {"none", "live", "base_socket", "base_fd"}]
      /\ AttachedData # NoData /\ OwnData # AttachedData
  BY ClientAssumption DEF ClientTypeOK, IInv, TypeOK
<1>6. \A k \in Handles : IsClient(k)' <=> k = h \/ k = temp
  <2>1. \A k \in Handles : IsClient(k) <=> k = temp
    BY <1>1 DEF CountIsClients
  <2> QED
    BY <1>2, <1>5, <2>1 DEF IsClient
<1>7. data[temp] = OwnData /\ pc[temp] = "live" /\ AttachedData \notin created /\ OwnData \in created
  BY <1>1 DEF CountIsClients, Current, DataState
<1>8. ClientTypeOK'
  BY <1>1, <1>2, <1>4, <1>5 DEF ClientTypeOK, threads
<1>9. NewPlaces' = NewPlaces /\ Reserved' = Reserved /\ h \notin Reserved
  BY <1>1, FreePlace DEF NewPlaces, Reserved, threads
<1>10. CallState'
  BY <1>1, <1>2, <1>6, <1>9 DEF CallState
<1>11. running = {} /\ starting = {} /\ started = {}
  <2>1. \A k \in Handles : IsClient(k) => k = temp
    BY <1>1 DEF CountIsClients
  <2>2. \A k \in running : FALSE
    BY <1>1, <2>1, PlacesAreHandles DEF ThreadState, Reserved
  <2>3. \A p \in starting \cup started : FALSE
    BY <1>1, <2>1, PlacesAreHandles DEF ThreadState, Reserved
  <2> QED
    BY <2>2, <2>3
<1>12. ThreadState'
  <2>1. UNCHANGED <<starting, started, running, heap>>
    BY <1>1 DEF threads
  <2>2. \A k \in heap : pc'[k] # "none"
    BY <1>2, <1>5, PlacesAreHandles DEF ThreadState
  <2> QED
    BY <1>9, <1>11, <2>1, <2>2 DEF ThreadState
<1>13. CountIsClients'
  <2>1. \A k \in Handles : IsClient(k)' => pc'[k] = "live" /\ data'[k] = Current(k)'
    BY <1>1, <1>2, <1>4, <1>5, <1>6, <1>7 DEF Current
  <2> QED
    BY <1>1, <1>2, <1>4, <1>6, <2>1 DEF CountIsClients
<1>14. DataState'
  <2>1. \A d \in Descs : ~Unborn(d) => ~Unborn(d)'
    BY <1>2, BornStays
  <2>2. \A x \in Data : deleted'[x] = 0
    BY <1>1, <1>4 DEF DataState
  <2>3. IsClient(temp)'
    BY <1>1, <1>6
  <2> QED
    BY <1>1, <1>4, <1>7, <2>1, <2>2, <2>3 DEF DataState
<1> QED
  BY <1>3, <1>8, <1>10, <1>12, <1>13, <1>14

-----------------------------------------------------------------------------
\* put_client_threaded(): a copy on the heap, and perhaps a thread to take it.
LEMMA PutCInv ==
  ASSUME CInv, NEW g \in Handles, NEW h \in Handles, NEW l \in Handles, Put(g, h, l),
         \/ OfProgram(g) /\ UNCHANGED calls
         \/ call = "dropped" /\ call' = "none" /\ temp' = NoHandle /\ made' = NoHandle
  PROVE  CInv'
<1> USE DEF CInv
<1>1. /\ h # l /\ Free(h) /\ Free(l) /\ CopyClient(h, g, data[g])
      /\ heap' = heap \cup {h} /\ UNCHANGED <<started, running>>
      /\ starting' = starting \cup {<<h, l>>} \/ starting' = starting
  BY DEF Put, Copied
<1>2. {call, call'} \cap {"accepted", "attached"} = {}
  <2>1. CASE OfProgram(g) /\ UNCHANGED calls
    BY <1>1, <2>1, NotWhileAttaching DEF CopyClient, calls
  <2>2. CASE call = "dropped" /\ call' = "none"
    BY <2>2
  <2> QED
    BY <2>1, <2>2
<1>3. CountIsClients' /\ DataState' /\ created' = created /\ data[g] \in Data /\ deleted' = deleted
  BY <1>1, <1>2, CopyClientCounts DEF CopyClient
<1>4. /\ Next
      /\ pc' = [pc EXCEPT ![h] = "live"]
      /\ data' = [data EXCEPT ![h] = data[g]]
      /\ clients' \in [Descs -> Nat]
  BY <1>1, <1>3, CopyClientStep
<1>5. IInv'
  BY <1>4, NextIInv
<1>6. /\ data \in [Handles -> Data \cup {NoData}] /\ data[g] # NoData
      /\ pc \in [Handles -> {"none", "live", "base_socket", "base_fd"}]
  BY <1>1 DEF ClientTypeOK, IInv, TypeOK, CopyClient, IsClient
<1>7. /\ \A k \in Handles : IsClient(k) => IsClient(k)'
      /\ \A k \in Handles : k # h => pc'[k] = pc[k]
      /\ pc'[h] = "live" /\ IsClient(h)'
  BY <1>4, <1>6 DEF IsClient
<1>8. ClientTypeOK'
  BY <1>1, <1>3, <1>4, <1>6 DEF ClientTypeOK, calls
<1>9. NewPlaces' \subseteq NewPlaces \cup {l}
  BY <1>1 DEF NewPlaces
<1>10. /\ h \notin Reserved /\ l \notin Reserved /\ pc[l] = "none"
       /\ call \in {"dropping"} => h # temp /\ l # temp
       /\ call \in {"dropping", "dropped"} => h # made /\ l # made
  BY <1>1, FreePlace
<1>11. CallState'
  <2>1. CASE call' = "none" /\ made' = NoHandle
    BY <2>1 DEF CallState
  <2>2. CASE UNCHANGED calls
    <3>1. Reserved' \subseteq Reserved \cup {h, l}
      BY <1>1, <1>9 DEF Reserved
    <3>2. call' = call /\ temp' = temp /\ made' = made
      BY <2>2 DEF calls
    <3> QED
      BY <1>2, <1>7, <1>10, <3>1, <3>2 DEF CallState
  <2> QED
    BY <2>1, <2>2
<1>12. ThreadState'
  <2>1. h \notin heap /\ l \notin heap /\ h \notin running /\ l \notin running
        /\ h \notin NewPlaces /\ l \notin NewPlaces
    BY <1>10 DEF Reserved
  <2>2. \A k \in heap' : pc'[k] # "none"
    BY <1>1, <1>7, PlacesAreHandles DEF ThreadState
  <2>3. \A p \in starting' : p[1] \in heap' /\ IsClient(p[1])' /\ pc'[p[2]] = "none"
    <3>1. \A p \in starting : p[1] \in heap' /\ IsClient(p[1])' /\ pc'[p[2]] = "none"
      BY <1>1, <1>7, <2>1, PlacesAreHandles DEF ThreadState
    <3>2. h \in heap' /\ IsClient(h)' /\ pc'[l] = "none"
      BY <1>1, <1>7, <1>10
    <3> QED
      BY <1>1, <3>1, <3>2
  <2>4. \A p \in started' : p[1] \in heap' /\ IsClient(p[2])'
    BY <1>1, <1>7, PlacesAreHandles DEF ThreadState
  <2>5. \A k \in running' : IsClient(k)' /\ k \notin NewPlaces'
    BY <1>1, <1>7, <1>9, <2>1, PlacesAreHandles DEF ThreadState
  <2>6. \A p, q \in starting' \cup started' : p[1] = q[1] \/ p[2] = q[2] => p = q
    <3>1. \A p \in starting \cup started : p[1] # h /\ p[2] # l
      BY <2>1, PlacesAreHandles
    <3> QED
      BY <1>1, <3>1 DEF ThreadState
  <2>7. starting' \cap started' = {}
    BY <1>1, <2>1, PlacesAreHandles DEF ThreadState
  <2>8. heap' \cap (running' \cup NewPlaces') = {}
    BY <1>1, <1>9, <2>1 DEF ThreadState
  <2> QED
    BY <2>2, <2>3, <2>4, <2>5, <2>6, <2>7, <2>8 DEF ThreadState
<1> QED
  BY <1>3, <1>5, <1>8, <1>11, <1>12

\* The thread copies its client onto its stack.
LEMMA ThreadCopiesCInv ==
  ASSUME CInv, NEW n \in Handles, NEW l \in Handles, ThreadCopies(n, l)
  PROVE  CInv'
<1> USE DEF CInv
<1>1. /\ <<n, l>> \in starting /\ CopyClient(l, n, data[n])
      /\ starting' = starting \ {<<n, l>>} /\ started' = started \cup {<<n, l>>}
      /\ UNCHANGED <<calls, running, heap>>
  BY DEF ThreadCopies
<1>2. n \in heap /\ IsClient(n) /\ pc[l] = "none" /\ l \in NewPlaces
  <2>1. <<n, l>>[1] = n /\ <<n, l>>[2] = l
    OBVIOUS
  <2> QED
    BY <1>1, <2>1, PlacesAreHandles DEF ThreadState
<1>3. call' = call /\ temp' = temp /\ made' = made /\ call \notin {"accepted", "attached"}
  BY <1>1, <1>2, NotWhileAttaching DEF calls
<1>4. CountIsClients' /\ DataState' /\ created' = created /\ data[n] \in Data /\ deleted' = deleted
  BY <1>1, <1>3, CopyClientCounts DEF CopyClient
<1>5. /\ Next
      /\ pc' = [pc EXCEPT ![l] = "live"]
      /\ data' = [data EXCEPT ![l] = data[n]]
      /\ clients' \in [Descs -> Nat]
  BY <1>1, <1>4, CopyClientStep
<1>6. IInv'
  BY <1>5, NextIInv
<1>7. /\ data \in [Handles -> Data \cup {NoData}] /\ data[n] # NoData
      /\ pc \in [Handles -> {"none", "live", "base_socket", "base_fd"}]
  BY <1>2 DEF ClientTypeOK, IInv, TypeOK, IsClient
<1>8. /\ \A k \in Handles : IsClient(k) => IsClient(k)'
      /\ \A k \in Handles : k # l => pc'[k] = pc[k]
      /\ pc'[l] = "live" /\ IsClient(l)'
  BY <1>5, <1>7 DEF IsClient
<1>9. starting' \cup started' = starting \cup started
  BY <1>1
<1>10. NewPlaces' = NewPlaces /\ Reserved' = Reserved
  BY <1>1, <1>9 DEF NewPlaces, Reserved
<1>11. ClientTypeOK'
  <2>1. started' \in SUBSET (Handles \X Handles) /\ starting' \in SUBSET (Handles \X Handles)
    BY <1>1 DEF ClientTypeOK
  <2> QED
    BY <1>1, <1>3, <1>4, <1>5, <1>7, <2>1 DEF ClientTypeOK
<1>12. CallState'
  <2>1. l \in Reserved
    BY <1>2 DEF Reserved
  <2> QED
    BY <1>3, <1>8, <1>10, <2>1 DEF CallState
<1>13. ThreadState'
  <2>1. \A k \in heap : pc'[k] # "none"
    BY <1>8, PlacesAreHandles DEF ThreadState
  <2>2. \A p \in starting' : p[1] \in heap /\ IsClient(p[1])' /\ pc'[p[2]] = "none"
    <3> SUFFICES ASSUME NEW p \in starting' PROVE p[1] \in heap /\ IsClient(p[1])' /\ pc'[p[2]] = "none"
      OBVIOUS
    <3>1. p \in starting /\ p # <<n, l>>
      BY <1>1
    <3>2. p[2] # l
      <4>1. <<n, l>>[2] = l
        OBVIOUS
      <4> QED
        BY <1>1, <3>1, <4>1 DEF ThreadState
    <3> QED
      BY <1>8, <3>1, <3>2, PlacesAreHandles DEF ThreadState
  <2>3. \A p \in started' : p[1] \in heap /\ IsClient(p[2])'
    BY <1>1, <1>2, <1>8, PlacesAreHandles DEF ThreadState
  <2>4. \A k \in running : IsClient(k)' /\ k \notin NewPlaces
    BY <1>8, PlacesAreHandles DEF ThreadState
  <2>5. starting' \cap started' = {}
    BY <1>1 DEF ThreadState
  <2>6. \A p, q \in starting' \cup started' : p[1] = q[1] \/ p[2] = q[2] => p = q
    BY <1>9 DEF ThreadState
  <2> QED
    BY <1>1, <1>10, <2>1, <2>2, <2>3, <2>4, <2>5, <2>6 DEF ThreadState
<1> QED
  BY <1>4, <1>6, <1>11, <1>12, <1>13

-----------------------------------------------------------------------------
\* The destructor of the base class ends the object; a thread whose client was
\* deleted by that goes on into its routine.
LEMMA ClientEndsCInv ==
  ASSUME CInv, NEW h \in Handles, DtorFd(h), ClientDestructor(h)
  PROVE  CInv'
<1> USE DEF CInv
<1>1. /\ call' = IF call = "dropping" /\ h = temp THEN "dropped" ELSE call
      /\ started' = {p \in started : p[1] # h}
      /\ running' = running \cup {p[2] : p \in started \ started'}
      /\ heap' = heap \ {h}
      /\ UNCHANGED <<counts, temp, made, starting>>
  BY DEF ClientDestructor, DtorFd, DtorSocket
<1>2. /\ Next
      /\ pc[h] = "base_fd" /\ pc' = [pc EXCEPT ![h] = "none"]
      /\ desc' = [desc EXCEPT ![h] = NoDesc]
  BY DEF Next, Destructor, DtorFd
<1>3. IInv'
  BY <1>2, NextIInv
<1>4. /\ pc \in [Handles -> {"none", "live", "base_socket", "base_fd"}]
      /\ desc \in [Handles -> Descs \cup {NoDesc}]
  BY DEF IInv, TypeOK
<1>5. ~IsClient(h) /\ \A k : IsClient(k)' <=> IsClient(k)
  BY <1>1, <1>2 DEF CountIsClients, IsClient, counts
<1>6. \A k \in Handles \ {h} : pc'[k] = pc[k] /\ desc'[k] = desc[k]
  BY <1>2, <1>4
<1>7. h \notin NewPlaces /\ h \notin {p[1] : p \in starting}
  BY <1>2, <1>5 DEF NewPlaces, ThreadState
<1>8. starting' = starting /\ started' \subseteq started
  BY <1>1
<1>9. NewPlaces' \subseteq NewPlaces
  BY <1>8 DEF NewPlaces
<1>10. running' \subseteq running \cup {p[2] : p \in started} /\ Reserved' \subseteq Reserved
  <2>1. running' \subseteq running \cup {p[2] : p \in started}
    BY <1>1
  <2> QED
    BY <1>1, <1>9, <2>1 DEF Reserved, NewPlaces
<1>11. ClientTypeOK'
  <2>1. \A p \in started : p[2] \in Handles
    BY PlacesAreHandles
  <2>2. running' \in SUBSET Handles
    BY <1>10, <2>1 DEF ClientTypeOK
  <2> QED
    BY <1>1, <2>2 DEF ClientTypeOK, counts
<1>12. CallState'
  <2>1. temp' = temp /\ made' = made
    BY <1>1
  <2>2. call' \in {"none", "accepted", "attached"} <=> call \in {"none", "accepted", "attached"}
    BY <1>1 DEF ClientTypeOK
  <2>3. call' = "dropping" => call = "dropping" /\ temp # h
    BY <1>1
  <2>4. call' \in {"none", "accepted"} => made' = NoHandle
    BY <1>1, <2>1 DEF CallState
  <2>5. call' \in {"accepted", "attached"} =>
          temp' \in Handles /\ IsClient(temp)' /\ temp' \notin Reserved'
    BY <1>1, <1>5, <1>10, <2>1 DEF CallState
  <2>6. call' = "dropping" =>
          temp' \in Handles /\ pc'[temp'] \in {"base_socket", "base_fd"} /\ temp' \notin Reserved'
    BY <1>6, <1>10, <2>1, <2>3 DEF CallState
  <2>7. call' \in {"attached", "dropping", "dropped"} =>
          made' \in Handles /\ IsClient(made)' /\ made' \notin Reserved' /\ made' # temp'
    BY <1>1, <1>5, <1>10, <2>1 DEF CallState
  <2> QED
    BY <2>4, <2>5, <2>6, <2>7 DEF CallState
<1>13. ThreadState'
  <2>1. \A k \in heap' : pc'[k] # "none"
    BY <1>1, <1>6, PlacesAreHandles DEF ThreadState
  <2>2. \A p \in starting' : p[1] \in heap' /\ IsClient(p[1])' /\ pc'[p[2]] = "none"
    BY <1>1, <1>5, <1>6, <1>7, PlacesAreHandles DEF ThreadState
  <2>3. \A p \in started' : p[1] \in heap' /\ IsClient(p[2])'
    BY <1>1, <1>5 DEF ThreadState
  <2>4. \A p, q \in starting' \cup started' : p[1] = q[1] \/ p[2] = q[2] => p = q
    BY <1>8 DEF ThreadState
  <2>5. starting' \cap started' = {}
    BY <1>8 DEF ThreadState
  <2>6. \A k \in running' : IsClient(k)' /\ k \notin NewPlaces'
    <3>1. \A k \in running : IsClient(k)' /\ k \notin NewPlaces'
      BY <1>5, <1>9 DEF ThreadState
    <3>2. ASSUME NEW p \in started \ started'
          PROVE  IsClient(p[2])' /\ p[2] \notin NewPlaces'
      <4>1. \A q \in starting' \cup started' : q[2] # p[2]
        BY <1>8 DEF ThreadState
      <4> QED
        BY <1>5, <4>1 DEF ThreadState, NewPlaces
    <3> QED
      BY <1>1, <3>1, <3>2
  <2>7. heap' \cap (running' \cup NewPlaces') = {}
    <3>1. heap \cap {p[2] : p \in started} = {}
      BY DEF ThreadState, NewPlaces
    <3> QED
      BY <1>1, <1>9, <1>10, <3>1 DEF ThreadState
  <2> QED
    BY <2>1, <2>2, <2>3, <2>4, <2>5, <2>6, <2>7 DEF ThreadState
<1>14. CountIsClients'
  <2>1. \A k \in Handles : Current(k)' = Current(k)
    BY <1>1 DEF Current, counts
  <2>2. \A k \in Handles : IsClient(k) => pc'[k] = "live" /\ desc'[k] = desc[k]
    BY <1>5, <1>6 DEF CountIsClients
  <2>3. \A d \in Descs : ClientsOf(d)' = ClientsOf(d)
    BY <1>5, <2>2 DEF ClientsOf
  <2>4. /\ \A d \in Descs : clients'[d] = Cardinality(ClientsOf(d)')
        /\ data' = data /\ created' = created /\ temp' = temp /\ made' = made
    BY <1>1, <2>3 DEF CountIsClients, counts
  <2>5. /\ call' = "accepted" => call = "accepted"
        /\ call' = "attached" => call = "attached"
    BY <1>1
  <2> QED
    BY <1>5, <2>1, <2>2, <2>4, <2>5 DEF CountIsClients
<1>15. DataState'
  <2>1. \A d \in Descs : ~Unborn(d) => ~Unborn(d)'
    BY <1>2, BornStays
  <2>2. created' = created /\ deleted' = deleted /\ Replaced' = Replaced
    BY <1>1 DEF counts, Replaced
  <2> QED
    BY <1>5, <2>1, <2>2 DEF DataState
<1> QED
  BY <1>3, <1>11, <1>12, <1>13, <1>14, <1>15

-----------------------------------------------------------------------------
\* Every step of the clients is one of the handles they are, or none.
LEMMA ClientStep ==
  ASSUME CInv, [ClientNext]_allVars
  PROVE  [Next]_vars
<1>1. ASSUME NEW h \in Handles, NEW g \in Handles, IsClient(g), CopyClient(h, g, data[g])
      PROVE  Next
  <2>1. data[g] \in Data
    BY <1>1 DEF CInv, ClientTypeOK, IsClient
  <2> QED
    BY <1>1, <2>1, CopyClientStep
<1>2. ASSUME NEW h \in Handles, DestroyObject(h) PROVE Next
  BY <1>2, DestroyObjectStep
<1>3. ASSUME NEW h \in Handles, ProgramStep(h) PROVE Next
  <2>1. ASSUME NEW d \in Descs, WaitNewClient(h, d) PROVE Next
    BY <2>1, ClientAssumption DEF WaitNewClient, Next
  <2>2. ASSUME NEW g \in Handles, NEW l \in Handles, PutClient(g, h, l) PROVE Next
    BY <1>1, <2>2 DEF PutClient, Put, CopyClient
  <2>3. ASSUME NEW g \in Handles, CopyClient(h, g, data[g]) PROVE Next
    BY <1>1, <2>3 DEF CopyClient
  <2>4. CASE \/ \E c \in Classes, d \in Descs, auto \in BOOLEAN : Construct(h, c, d, auto)
             \/ \E c \in Classes, g \in Handles : Copy(h, c, g)
             \/ \E e \in Descs : RecvSock(h, e)
             \/ SendSock(h)
    BY <2>4 DEF Next
  <2>5. CASE DestroyObject(h)
    BY <1>2, <2>5
  <2> QED
    BY <1>3, <2>1, <2>2, <2>3, <2>4, <2>5 DEF ProgramStep
<1>4. ASSUME NEW l \in Handles, ThreadStep(l) PROVE Next
  <2>1. ASSUME NEW n \in Handles, ThreadCopies(n, l) PROVE Next
    BY <1>1, <2>1 DEF ThreadCopies, CopyClient
  <2>2. ASSUME NEW n \in Handles, ThreadDeletes(n, l) PROVE Next
    BY <1>2, <2>2 DEF ThreadDeletes
  <2>3. CASE ThreadEnds(l)
    BY <1>2, <2>3 DEF ThreadEnds
  <2> QED
    BY <1>4, <2>1, <2>2, <2>3 DEF ThreadStep
<1>5. ASSUME NEW h \in Handles, ClientDestructor(h) PROVE Next
  BY <1>5 DEF ClientDestructor, Next, Destructor
<1>6. ASSUME CallStep PROVE Next
  <2>1. ASSUME NEW h \in Handles, AttachData(h) PROVE Next
    <3>1. temp \in Handles /\ AttachedData \in Data /\ CopyClient(h, temp, AttachedData)
      BY <2>1 DEF AttachData, AttachedTo, Data, CInv, CallState
    <3> QED
      BY <3>1, CopyClientStep
  <2>2. ASSUME NEW h \in Handles, NEW l \in Handles, PutMade(h, l) PROVE Next
    <3>1. made \in Handles /\ CopyClient(h, made, data[made])
      BY <2>2 DEF PutMade, Put, CInv, CallState
    <3> QED
      BY <1>1, <3>1 DEF CopyClient
  <2>3. CASE DropTemp
    <3>1. temp \in Handles /\ DestroyObject(temp)
      BY <2>3 DEF DropTemp, CInv, CallState
    <3> QED
      BY <1>2, <3>1
  <2> QED
    BY <1>6, <2>1, <2>2, <2>3 DEF CallStep
<1>7. CASE UNCHANGED allVars
  BY <1>7 DEF allVars, vars
<1> QED
  BY <1>3, <1>4, <1>5, <1>6, <1>7 DEF ClientNext

\* With no client there is nothing to count.
LEMMA InitCInv == ClientInit => CInv
<1> SUFFICES ASSUME ClientInit PROVE CInv
  OBVIOUS
<1> USE DEF ClientInit
<1>1. IInv
  BY InitIInv
<1>2. \A h \in Handles : ~IsClient(h)
  BY DEF IsClient
<1>3. ClientTypeOK
  BY DEF ClientTypeOK
<1>4. CallState /\ ThreadState
  BY DEF CallState, ThreadState, NewPlaces
<1>5. CountIsClients
  <2>1. \A d \in Descs : ClientsOf(d) = {}
    BY <1>2 DEF ClientsOf
  <2> QED
    BY <1>2, <2>1, FS_EmptySet DEF CountIsClients
<1>6. DataState
  BY <1>2 DEF DataState
<1> QED
  BY <1>1, <1>3, <1>4, <1>5, <1>6 DEF CInv

\* No step of a client or a thread disturbs CInv.
LEMMA ClientNextCInv ==
  ASSUME CInv, [ClientNext]_allVars
  PROVE  CInv'
<1>1. ASSUME NEW h \in Handles, ProgramStep(h) PROVE CInv'
  <2>1. ASSUME NEW d \in Descs, WaitNewClient(h, d) PROVE CInv'
    BY <2>1, WaitNewClientCInv
  <2>2. ASSUME NEW g \in Handles, NEW l \in Handles, PutClient(g, h, l) PROVE CInv'
    BY <2>2, PutCInv DEF PutClient
  <2>3. ASSUME NEW g \in Handles, OfProgram(g), Free(h), CopyClient(h, g, data[g]),
               UNCHANGED <<calls, threads>>
        PROVE  CInv'
    BY <2>3, ProgramCopies
  <2>4. CASE OfProgram(h) /\ DestroyObject(h) /\ UNCHANGED <<calls, threads>>
    BY <2>4, ProgramDestroys
  <2>5. CASE SendSock(h) /\ UNCHANGED clientVars
    BY <2>5, HandlesOnly
  <2>6. CASE /\ Free(h)
             /\ \/ \E c \in Classes, d \in Descs, auto \in BOOLEAN : Construct(h, c, d, auto)
                \/ \E c \in Classes, g \in Handles : OfProgram(g) /\ Copy(h, c, g)
                \/ \E e \in Descs : RecvSock(h, e)
             /\ UNCHANGED clientVars
    BY <2>6, HandlesOnly
  <2> QED
    BY <1>1, <2>1, <2>2, <2>3, <2>4, <2>5, <2>6 DEF ProgramStep
<1>2. ASSUME NEW l \in Handles, ThreadStep(l) PROVE CInv'
  BY <1>2, ThreadCopiesCInv, ThreadDeletesCInv, ThreadEndsCInv DEF ThreadStep
<1>3. ASSUME NEW h \in Handles, ClientDestructor(h) PROVE CInv'
  <2>1. CASE DtorSocket(h) /\ UNCHANGED clientVars
    BY <2>1, HandlesOnly
  <2>2. CASE DtorFd(h)
    BY <1>3, <2>2, ClientEndsCInv
  <2> QED
    BY <1>3, <2>1, <2>2 DEF ClientDestructor
<1>4. ASSUME CallStep PROVE CInv'
  <2>1. ASSUME NEW h \in Handles, NEW l \in Handles, PutMade(h, l) PROVE CInv'
    <3>1. made \in Handles
      BY <2>1 DEF PutMade, CInv, CallState
    <3> QED
      BY <2>1, <3>1, PutCInv DEF PutMade
  <2> QED
    BY <1>4, <2>1, AttachDataCInv, DropTempCInv DEF CallStep
<1>5. CASE UNCHANGED allVars
  <2>1. /\ UNCHANGED vars /\ UNCHANGED clientVars
        /\ \A k \in Handles : pc'[k] = pc[k] /\ desc'[k] = desc[k]
    BY <1>5 DEF allVars, vars, clientVars
  <2> QED
    BY <2>1, QuietStep
<1> QED
  BY <1>1, <1>2, <1>3, <1>4, <1>5 DEF ClientNext

-----------------------------------------------------------------------------
\* The inductive invariant holds for every number of clients, threads and
\* descriptors.
THEOREM ClientInductive == ClientSpec => []CInv
<1>1. ClientInit => CInv
  BY InitCInv
<1>2. CInv /\ [ClientNext]_allVars => CInv'
  BY ClientNextCInv
<1> QED
  BY <1>1, <1>2, PTL DEF ClientSpec

\* Type correctness, of the handles and of what the clients add.
THEOREM ClientTypeCorrect == ClientSpec => [](TypeOK /\ ClientTypeOK)
<1>1. CInv => TypeOK /\ ClientTypeOK
  BY DEF CInv, IInv
<1> QED
  BY <1>1, ClientInductive, PTL

\* Whatever threads do with their copies of a client, no object that can be
\* used has a closed descriptor or freed shared data (base_io.cpp:57-69, 170-183).
THEOREM ClientsUsable == ClientSpec => []UsableIsOpen
<1>1. CInv => UsableIsOpen
  BY OpenWhileUsable DEF CInv
<1> QED
  BY <1>1, ClientInductive, PTL

\* When the last handle of a descriptor is gone, in whatever thread, it has been
\* closed, if it was to be, and its shared data deleted.
THEOREM ClientsLeaveNothing == ClientSpec => []NothingLeft
<1>1. CInv => NothingLeft
  BY DEF CInv, IInv, CloseState, CountIsGroup, NothingLeft
<1> QED
  BY <1>1, ClientInductive, PTL

\* A connection that was sent with o_sock is not shut down by any thread that
\* destroys a client of it.
THEOREM SentClientSurvives == ClientSpec => []SentNotShut
<1>1. CInv => SentNotShut
  BY DEF CInv, IInv, TypeOK, ShutState, SentNotShut
<1> QED
  BY <1>1, ClientInductive, PTL

\* The client a new thread was given is there until it has copied it, for any
\* number of threads that end in any order (socket_server.hpp:148, 239-244).
THEOREM ThreadFindsItsClient == ClientSpec => []GivenIsThere
<1>1. CInv => GivenIsThere
  <2> SUFFICES ASSUME CInv PROVE GivenIsThere
    OBVIOUS
  <2>1. \A p \in starting : pc[p[1]] = "live" /\ IsClient(p[1])
    BY PlacesAreHandles DEF CInv, ThreadState, CountIsClients
  <2>2. made # NoHandle => pc[made] = "live" /\ IsClient(made)
    BY DEF CInv, ClientTypeOK, CallState, CountIsClients
  <2> QED
    BY <2>1, <2>2 DEF GivenIsThere
<1> QED
  BY <1>1, ClientInductive, PTL

\* The data of a client are there as long as a client has them and deleted once
\* when none has, but for the data that the attached ones replaced
\* (socket_server.hpp:79-80, 117-131).
THEOREM DataLive == ClientSpec => []DataLiveAsClients
<1>1. CInv => DataLiveAsClients
  <2> SUFFICES ASSUME CInv PROVE DataLiveAsClients
    OBVIOUS
  <2>1. \A x \in Data :
          deleted[x] = IF x \in created \ Replaced /\ \A h \in Handles : ~IsClient(h)
                         THEN 1 ELSE 0
    BY DEF CInv, DataState
  <2>2. created \subseteq Data
    BY DEF CInv, ClientTypeOK
  <2>3. \A h \in Handles : IsClient(h) => data[h] \in Data
    BY DEF CInv, ClientTypeOK, IsClient
  <2> QED
    BY <2>1, <2>2, <2>3 DEF DataLiveAsClients
<1> QED
  BY <1>1, ClientInductive, PTL

\* Clients and their threads use a descriptor as the abstract resource says: it
\* stays open while anyone holds it, and the last holder releases it, once.
THEOREM ClientsImplement == ClientSpec => ImplementsSharedResource
<1>1. ClientInit => Abstract!ResourceInit
  BY InitRefines DEF ClientInit
<1>2. CInv /\ [ClientNext]_allVars => [Abstract!ResourceNext]_(Abstract!rvars)
  BY ClientStep, NextRefines DEF CInv
<1> QED
  BY <1>1, <1>2, ClientInductive, PTL
  DEF ClientSpec, ImplementsSharedResource, Abstract!ResourceSpec
=============================================================================
