--------------------------- MODULE ClientThreads ---------------------------
(***************************************************************************)
(* The clients of a server and their threads, on top of the handles they   *)
(* are made of.  A _client is a handle with data of the program's own,     *)
(* _d, under a reference count of its own; ~_client runs before the        *)
(* destructors of Handle.  put_client_threaded() makes a copy for the new  *)
(* thread, which copies it onto its stack and deletes it;                  *)
(* wait_new_client_threaded() first exchanges the data for the caller's.   *)
(*                                                                         *)
(* A client that has travelled through o_sock comes back as a base_fd, so  *)
(* that the clients of a descriptor are all copies of the accepted one.    *)
(***************************************************************************)
EXTENDS Handle

CONSTANTS NoHandle,
          OwnData,       \* the data of the client that wait_new_client() returns
          AttachedData,  \* the copy of *attached_data
          NoData,
          ThreadsFail    \* whether pthread_create() may fail

ASSUME ClientAssumption ==
  /\ NoHandle \notin Handles
  /\ "base_socket" \in Classes
  /\ OwnData # AttachedData /\ NoData \notin {OwnData, AttachedData}
  /\ ThreadsFail \in BOOLEAN

Data == {OwnData, AttachedData}

VARIABLES
  data,      \* _d of each client; NoData for the other handles
  clients,   \* the count of the clients of each descriptor, _server_client
  created,   \* the data that were allocated
  deleted,   \* how often each was deleted
  call,      \* where wait_new_client_threaded is: "none", "accepted",
             \* "attached", "dropping" or "dropped"
  temp,      \* in it, the client that was accepted
  made,      \* and c, the one that is returned
  starting,  \* the threads that have to copy their client: its place on the
             \* heap (_c), and the place on the stack for the copy
  started,   \* those that have copied it and not deleted it yet
  running,   \* the clients on the stacks of the routines that run
  heap       \* the clients made with new, for a thread

counts == <<data, clients, created, deleted>>
calls == <<call, temp, made>>
threads == <<starting, started, running, heap>>
clientVars == <<data, clients, created, deleted, call, temp, made, starting, started,
                running, heap>>
allVars == <<pc, class, desc, valid, refs, autoclose, preserve, shared, closes, shut,
             origin, wire, leaked, data, clients, created, deleted, call, temp, made,
             starting, started, running, heap>>

IsClient(h) == data[h] # NoData
ClientsOf(d) == {h \in Handles : desc[h] = d /\ IsClient(h)}

\* The places on the stacks of the threads whose constructor has not returned:
\* they are not free even before there is an object.
NewPlaces == {p[2] : p \in starting \cup started}
Free(h) == pc[h] = "none" /\ h \notin NewPlaces

\* The objects that the program uses and destroys.  (A routine that copies the
\* client on its own stack adds nothing to what copies of the program's show.)
OfProgram(h) == h \notin {temp, made} \cup heap \cup running \cup NewPlaces

ClientTypeOK ==
  /\ data \in [Handles -> Data \cup {NoData}]
  /\ clients \in [Descs -> Nat]
  /\ created \in SUBSET Data
  /\ deleted \in [Data -> Nat]
  /\ call \in {"none", "accepted", "attached", "dropping", "dropped"}
  /\ temp \in Handles \cup {NoHandle} /\ made \in Handles \cup {NoHandle}
  /\ starting \in SUBSET (Handles \X Handles)
  /\ started \in SUBSET (Handles \X Handles)
  /\ running \in SUBSET Handles /\ heap \in SUBSET Handles

ClientInit ==
  /\ Init
  /\ data = [h \in Handles |-> NoData]
  /\ clients = [d \in Descs |-> 0]
  /\ created = {} /\ deleted = [x \in Data |-> 0]
  /\ call = "none" /\ temp = NoHandle /\ made = NoHandle
  /\ starting = {} /\ started = {} /\ running = {} /\ heap = {}

-----------------------------------------------------------------------------
\* REFCXX_COPY_CONSTRUCTOR(_server_client, other)
Counted(d) == [clients EXCEPT ![d] = @ + 1]

\* new _client(other), with _d of the other or with data of its own.
CopyClient(h, g, x) ==
  /\ IsClient(g) /\ Copy(h, "base_socket", g)
  /\ data' = [data EXCEPT ![h] = x]
  /\ clients' = Counted(desc[g])
  /\ created' = created \cup {x}
  /\ UNCHANGED deleted

LastClient_OffByOne(d) == clients[d] <= 2
\* REFCXX_DESTRUCT(_server_client) tells that this was the last.
LastClient(d) == clients[d] = 1

\* The destructors of an object start; that of a client is first, and deletes
\* the data of this client if it is the last of them.
DestroyObject(h) ==
  /\ Destroy(h)
  /\ IF IsClient(h)
       THEN /\ clients' = [clients EXCEPT ![desc[h]] = @ - 1]
            /\ deleted' = IF LastClient(desc[h])
                            THEN [deleted EXCEPT ![data[h]] = @ + 1] ELSE deleted
            /\ data' = [data EXCEPT ![h] = NoData]
       ELSE UNCHANGED <<clients, deleted, data>>
  /\ UNCHANGED created

-----------------------------------------------------------------------------
\* wait_new_client(), called by the program or by wait_new_client_threaded().
WaitNewClient(h, d) ==
  /\ Free(h)
  /\ Construct(h, "base_socket", d, TRUE)
  /\ data' = [data EXCEPT ![h] = OwnData]
  /\ clients' = [clients EXCEPT ![d] = 1]
  /\ created' = created \cup {OwnData}
  /\ \/ UNCHANGED calls
     \/ call' = "accepted" /\ temp' = h /\ UNCHANGED made
  /\ UNCHANGED <<deleted, threads>>

\* _client(other, data): a copy of *data, whatever the other has.
AttachedTo(g) == AttachedData

\* client c(wait_new_client(), attached_data)
AttachData(h) ==
  /\ call = "accepted" /\ Free(h)
  /\ CopyClient(h, temp, AttachedTo(temp))
  /\ call' = "attached" /\ made' = h
  /\ UNCHANGED <<temp, threads>>

\* At the end of that expression the accepted client is destroyed.
DropTemp ==
  /\ call = "attached"
  /\ DestroyObject(temp)
  /\ call' = "dropping"
  /\ UNCHANGED <<temp, made, threads>>

Copied_Given(g, h) == g
\* new client(cli): the thread gets a copy.
Copied(g, h) == h

\* put_client_threaded(): the result of pthread_create() is not looked at.
Put(g, h, l) ==
  /\ h # l /\ Free(h) /\ Free(l)
  /\ CopyClient(h, g, data[g])
  /\ heap' = heap \cup {h}
  /\ \/ starting' = starting \cup {<<Copied(g, h), l>>}
     \/ ThreadsFail /\ UNCHANGED starting
  /\ UNCHANGED <<started, running>>

\* By wait_new_client_threaded(), which then returns c, or by the program.
PutMade(h, l) ==
  /\ call = "dropped"
  /\ Put(made, h, l)
  /\ call' = "none" /\ temp' = NoHandle /\ made' = NoHandle
PutClient(g, h, l) == OfProgram(g) /\ Put(g, h, l) /\ UNCHANGED calls

\* client cli(thread_data) in the new thread: copies *_c, then deletes it.
ThreadCopies(n, l) ==
  /\ <<n, l>> \in starting
  /\ CopyClient(l, n, data[n])
  /\ starting' = starting \ {<<n, l>>}
  /\ started' = started \cup {<<n, l>>}
  /\ UNCHANGED <<calls, running, heap>>

ThreadDeletes(n, l) ==
  /\ <<n, l>> \in started
  /\ DestroyObject(n)
  /\ UNCHANGED <<calls, threads>>

\* The thread's routine ends, and with it the client on its stack.
ThreadEnds(l) ==
  /\ l \in running
  /\ DestroyObject(l)
  /\ running' = running \ {l}
  /\ UNCHANGED <<calls, starting, started, heap>>

\* The rest of the destructors; the last of them returns to the statement after
\* the one that destroyed the object.
ClientDestructor(h) ==
  \/ DtorSocket(h) /\ UNCHANGED clientVars
  \/ /\ DtorFd(h)
     /\ call' = IF call = "dropping" /\ h = temp THEN "dropped" ELSE call
     /\ started' = {p \in started : p[1] # h}
     /\ running' = running \cup {p[2] : p \in started \ started'}
     /\ heap' = heap \ {h}
     /\ UNCHANGED <<counts, temp, made, starting>>
-----------------------------------------------------------------------------
\* What the program does with its own objects, clients or not.
ProgramStep(h) ==
  \/ /\ Free(h)
     /\ \/ \E c \in Classes, d \in Descs, auto \in BOOLEAN : Construct(h, c, d, auto)
        \/ \E c \in Classes, g \in Handles : OfProgram(g) /\ Copy(h, c, g)
        \/ \E e \in Descs : RecvSock(h, e)
     /\ UNCHANGED clientVars
  \/ OfProgram(h) /\ SendSock(h) /\ UNCHANGED clientVars
  \/ OfProgram(h) /\ DestroyObject(h) /\ UNCHANGED <<calls, threads>>
  \/ /\ Free(h)
     /\ \E g \in Handles : OfProgram(g) /\ CopyClient(h, g, data[g])
     /\ UNCHANGED <<calls, threads>>
  \/ \E d \in Descs : WaitNewClient(h, d)
  \/ \E g, l \in Handles : PutClient(g, h, l)

\* The steps of the library's code in the calling thread, and of the new threads.
CallStep == (\E h \in Handles : AttachData(h) \/ \E l \in Handles : PutMade(h, l)) \/ DropTemp
ThreadStep(l) == (\E n \in Handles : ThreadCopies(n, l) \/ ThreadDeletes(n, l)) \/ ThreadEnds(l)

ClientNext ==
  \/ \E h \in Handles : ProgramStep(h) \/ ThreadStep(h) \/ ClientDestructor(h)
  \/ CallStep

\* Threads run, and their routines end.
ClientFairness ==
  \A h \in Handles : WF_allVars(ClientDestructor(h)) /\ WF_allVars(ThreadStep(h))
ClientSpec == ClientInit /\ [][ClientNext]_allVars /\ ClientFairness

-----------------------------------------------------------------------------
\* The data of wait_new_client() whose place the caller's data have taken
\* (socket_server.hpp:117, 244): nothing points to them any more.
Replaced == IF AttachedData \in created THEN {OwnData} ELSE {}

\* "The client object and its data are destructed when no longer used"
\* (socket_server.hpp:79-80): the data of a client that can be used are there,
\* and when the last client is gone they have been deleted once, by whichever
\* thread that was, but for the data that were replaced.
DataLiveAsClients ==
  /\ \A h \in Handles : IsClient(h) => deleted[data[h]] = 0
  /\ (\A h \in Handles : ~IsClient(h)) =>
       \A x \in created \ Replaced : deleted[x] = 1
  /\ \A x \in Data : deleted[x] <= 1

\* The library's own references to objects stay good: the client that a thread
\* was given is still there when the thread comes to copy it, and so is c while
\* its thread is made (socket_server.hpp:148, 239-244).
GivenIsThere ==
  /\ \A p \in starting : pc[p[1]] = "live" /\ IsClient(p[1])
  /\ made # NoHandle => pc[made] = "live" /\ IsClient(made)

\* A connection that only threads and destructors hold comes to its end: it is
\* closed when the last of them is through, in whatever order (base_io.cpp:57-69,
\* 170-183; socket_server.hpp:123, 131).  Not if a thread was not created: its
\* client is in nobody's hands.
HeldByThreads(d) ==
  /\ Group(d) # {}
  /\ \A h \in Group(d) : pc[h] = "live" => h \in running \/ \E p \in starting \cup started : h \in {p[1], p[2]}
ConnectionEnds ==
  \A d \in Descs : (d \in autoclose /\ HeldByThreads(d)) ~> closes[d] = 1
=============================================================================
