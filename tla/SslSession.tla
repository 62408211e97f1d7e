----------------------------- MODULE SslSession -----------------------------
(***************************************************************************)
(* base_ssl over one connection: both ends follow the same script, that    *)
(* says who writes the next message and when they switch SSL mode on and   *)
(* off.  Each end has its own ssl_sock, NULL in the plain mode, and tests  *)
(* it at each call; the two ends and the connection run at their own       *)
(* speed.  OpenSSL is modelled as base_ssl uses it: a handshake of three   *)
(* flights, records, and a notify at the end of a session.                 *)
(***************************************************************************)
EXTENDS Integers, SequencesExt

CONSTANT Script   \* what the users do: "client" or "server" writes a message that
                  \* the other reads; "on" and "off" switch

Ends == {"client", "server"}

ASSUME SslAssumption == Script \in Seq(Ends \cup {"on", "off"})

VARIABLES
  pos,      \* where each user is in the script
  status,   \* "running", "failed" (it got an exception that is not of its first
            \* stop_ssl() of a session), "left" (it had enough) or "destructed"
  ssl,      \* ssl_sock: "null", in a handshake ("waiting", "answered"), or "on"
  shut,     \* which notifies it has seen: a subset of {"sent", "got"}
  objects,  \* how many SSL it has allocated and not freed
  wire,     \* what each end has not read of what the other wrote
  got       \* the messages each has read

vars == <<pos, status, ssl, shut, objects, wire, got>>

TypeOK ==
  /\ pos \in [Ends -> 1..(Len(Script) + 1)]
  /\ status \in [Ends -> {"running", "failed", "left", "destructed"}]
  /\ ssl \in [Ends -> {"null", "waiting", "answered", "on"}]
  /\ shut \in [Ends -> SUBSET {"sent", "got"}]
  /\ objects \in [Ends -> 0..Len(Script)]
  /\ \A e \in Ends : Len(wire[e]) <= Len(Script) * 3

Init ==
  /\ pos = [e \in Ends |-> 1]
  /\ status = [e \in Ends |-> "running"]
  /\ ssl = [e \in Ends |-> "null"]
  /\ shut = [e \in Ends |-> {}]
  /\ objects = [e \in Ends |-> 0]
  /\ wire = [e \in Ends |-> <<>>]
  /\ got = [e \in Ends |-> <<>>]

-----------------------------------------------------------------------------
Other(e) == CHOOSE f \in Ends : f # e

At(e, steps) == status[e] = "running" /\ pos[e] <= Len(Script) /\ Script[pos[e]] \in steps
Arrived(e) == wire[e] # <<>>
Head1(e) == Head(wire[e])[1]

\* A message is its place in the script.
Message(e, kind) == <<kind, pos[e]>>

Kind_Plain(e) == "plain"
\* Each call tests ssl_sock.
Kind(e) == IF ssl[e] = "null" THEN "plain" ELSE "record"

Sending(e, item) == wire' = [wire EXCEPT ![Other(e)] = Append(@, item)]
Receiving(e) == wire' = [wire EXCEPT ![e] = Tail(@)]
Exchanging(e, item) == wire' = [wire EXCEPT ![e] = Tail(@), ![Other(e)] = Append(@, item)]

Advances(e) == pos' = [pos EXCEPT ![e] = @ + 1] /\ UNCHANGED status
Throws(e) == status' = [status EXCEPT ![e] = "failed"] /\ UNCHANGED pos

-----------------------------------------------------------------------------
\* _o: after its notify an end cannot write any more in the session.
Write(e) ==
  /\ At(e, {e})
  /\ IF ssl[e] # "null" /\ "sent" \in shut[e] THEN Throws(e) /\ UNCHANGED wire
     ELSE Advances(e) /\ Sending(e, Message(e, Kind(e)))
  /\ UNCHANGED <<ssl, shut, objects, got>>

\* _i: a plain read() takes whatever comes, SSL_read() a record of the session.
Read(e) ==
  /\ At(e, {Other(e)}) /\ Arrived(e)
  /\ Receiving(e)
  /\ IF Kind(e) = "plain" \/ Head1(e) = "record"
       THEN got' = [got EXCEPT ![e] = Append(@, Head(wire[e]))] /\ Advances(e)
       ELSE Throws(e) /\ UNCHANGED got
  /\ shut' = [shut EXCEPT ![e] = IF Kind(e) = "record" /\ Head1(e) = "notify" THEN @ \cup {"got"} ELSE @]
  /\ UNCHANGED <<ssl, objects>>

\* start_ssl: the client sends the first flight.  wait_for_ssl: the server waits.
Start(e) ==
  /\ At(e, {"on"}) /\ ssl[e] \in {"null", "on"}
  /\ ssl' = [ssl EXCEPT ![e] = "waiting"]
  /\ shut' = [shut EXCEPT ![e] = {}]
  /\ objects' = [objects EXCEPT ![e] = @ + 1]
  /\ IF e = "client" THEN Sending(e, <<"hello">>) ELSE UNCHANGED wire
  /\ UNCHANGED <<pos, status, got>>

Handshakes(e, kind) == At(e, {"on"}) /\ Arrived(e) /\ ssl[e] = kind

\* SSL_accept: the server answers the first flight ...
Answer ==
  /\ Handshakes("server", "waiting") /\ Head1("server") = "hello"
  /\ Exchanging("server", <<"answer">>)
  /\ ssl' = [ssl EXCEPT !["server"] = "answered"]
  /\ UNCHANGED <<pos, status, shut, objects, got>>

\* ... and has finished when it gets the third.
Accept ==
  /\ Handshakes("server", "answered") /\ Head1("server") = "finished"
  /\ Receiving("server")
  /\ ssl' = [ssl EXCEPT !["server"] = "on"]
  /\ Advances("server")
  /\ UNCHANGED <<shut, objects, got>>

\* SSL_connect: the client has finished when it sends it.
Connect ==
  /\ Handshakes("client", "waiting") /\ Head1("client") = "answer"
  /\ Exchanging("client", <<"finished">>)
  /\ ssl' = [ssl EXCEPT !["client"] = "on"]
  /\ Advances("client")
  /\ UNCHANGED <<shut, objects, got>>

-----------------------------------------------------------------------------
Freed_Pointer(e) == objects[e]
Freed(e) == objects[e] - 1

Ended_Sent(e) == TRUE
\* What the first SSL_shutdown() of an end returns: 1 if the notify of the other
\* was read before, 0 if not.  stop_ssl throws at 0.
Ended(e) == "got" \in shut[e]

Free(e) ==
  /\ ssl' = [ssl EXCEPT ![e] = "null"]
  /\ shut' = [shut EXCEPT ![e] = {}]
  /\ objects' = [objects EXCEPT ![e] = Freed(e)]

\* stop_ssl, the first call of a session.  When it throws the user has to catch that:
\* he may call it again, or give up.
Stop(e) ==
  /\ At(e, {"off"}) /\ ssl[e] = "on" /\ "sent" \notin shut[e]
  /\ Sending(e, <<"notify">>)
  /\ IF Ended(e) THEN Free(e) /\ Advances(e)
     ELSE /\ shut' = [shut EXCEPT ![e] = @ \cup {"sent"}]
          /\ UNCHANGED <<pos, status, ssl, objects>>
  /\ UNCHANGED got

\* Called again, SSL_shutdown() reads until the notify of the other.
StopAgain(e) ==
  /\ At(e, {"off"}) /\ ssl[e] = "on" /\ "sent" \in shut[e] /\ Arrived(e)
  /\ Receiving(e)
  /\ IF Head1(e) = "notify" THEN Free(e) /\ Advances(e)
     ELSE Throws(e) /\ UNCHANGED <<ssl, shut, objects>>
  /\ UNCHANGED got

\* What an end that is in a handshake waits for.
Flight(e) == IF e = "client" THEN "answer" ELSE IF ssl[e] = "waiting" THEN "hello" ELSE "finished"

InHandshake(e) == At(e, {"on"}) /\ ssl[e] \in {"waiting", "answered"}
Waits_Reading(e) == At(e, {Other(e)})
Waits(e) == At(e, {Other(e)}) \/ InHandshake(e) \/ (At(e, {"off"}) /\ "sent" \in shut[e])

\* A call finds the connection closed by the other, or gets another flight than it
\* waits for: the exception leaves ssl_sock as it is.
Fails(e) ==
  /\ Waits(e)
  /\ IF Arrived(e) THEN InHandshake(e) /\ Head1(e) # Flight(e) ELSE status[Other(e)] = "destructed"
  /\ Throws(e)
  /\ UNCHANGED <<ssl, shut, objects, wire, got>>

\* A call that writes finds the connection closed by the other; the first bytes may
\* still be taken.
Breaks(e) ==
  /\ status[Other(e)] = "destructed"
  /\ \/ At(e, {e})
     \/ At(e, {"on"}) /\ ssl[e] = "waiting"
     \/ At(e, {"off"}) /\ ssl[e] = "on" /\ "sent" \notin shut[e]
  /\ Throws(e)
  /\ UNCHANGED <<ssl, shut, objects, wire, got>>

\* The user destroys the object before the end of the script, also with an exception
\* of stop_ssl() in his hands.
GiveUp(e) ==
  /\ status[e] = "running"
  /\ status' = [status EXCEPT ![e] = "left"]
  /\ UNCHANGED <<pos, ssl, shut, objects, wire, got>>

-----------------------------------------------------------------------------
\* stop_ssl() in the destructor: in a session that it has not stopped it sends the
\* notify, and frees the objects if the other's was read before ...
LastStop(e) ==
  /\ ssl[e] = "on" /\ "sent" \notin shut[e]
  /\ Sending(e, <<"notify">>)
  /\ IF Ended(e) THEN Free(e) ELSE UNCHANGED <<ssl, shut, objects>>

\* ... and in one that it has, it waits for the other's.
LastRead(e) ==
  /\ ssl[e] = "on" /\ "sent" \in shut[e] /\ Arrived(e)
  /\ Receiving(e)
  /\ IF Head1(e) = "notify" THEN Free(e) ELSE UNCHANGED <<ssl, shut, objects>>

\* What it throws is ignored: in a handshake, or when the other is gone.
LastFails(e) ==
  /\ \/ ssl[e] # "on"
     \/ status[Other(e)] = "destructed" /\ ("sent" \in shut[e] => ~Arrived(e))
  /\ UNCHANGED <<wire, ssl, shut, objects>>

\* The destructor, which calls stop_ssl() if ssl_sock is not NULL.
Destruct(e) ==
  /\ status[e] # "destructed" /\ (status[e] \in {"failed", "left"} \/ pos[e] > Len(Script))
  /\ status' = [status EXCEPT ![e] = "destructed"]
  /\ LastStop(e) \/ LastRead(e) \/ LastFails(e)
  /\ UNCHANGED <<pos, got>>

Step(e) == Write(e) \/ Read(e) \/ Start(e) \/ Stop(e) \/ StopAgain(e) \/ Fails(e) \/ Destruct(e)
Handshake == Answer \/ Accept \/ Connect
Next == Handshake \/ \E e \in Ends : Step(e) \/ Breaks(e) \/ GiveUp(e)

\* Each end runs when it has something to do; no write has to fail.
Spec == Init /\ [][Next]_vars /\ \A e \in Ends : WF_vars(Step(e)) /\ WF_vars(Handshake)

-----------------------------------------------------------------------------
\* The mode of a message is the one that the script has switched to.
Mode(k) ==
  IF \E j \in 1..k : Script[j] = "on" /\ ~ \E i \in j..k : Script[i] = "off" THEN "record" ELSE "plain"

\* Each end has read the messages the other wrote, in order and all of them, each in
\* the mode it was written in: no call takes a part of a handshake, a notify or a
\* record for a message, though each end switches alone (base_ssl.hpp:86-91).
ReadsAreSent ==
  \A e \in Ends :
    /\ Range(got[e]) = {<<Mode(k), k>> : k \in {j \in 1..(pos[e] - 1) : Script[j] = Other(e)}}
    /\ \A i, j \in DOMAIN got[e] : i < j => got[e][i][2] < got[e][j][2]

\* The mode "can be switched on and off at any time" (base_io.hpp:23), but for the
\* exception of the first stop_ssl() of a session, which each end gets (base_ssl.cpp:88)
\* and has to catch.  No other call throws while the other end follows the script, or
\* when it has finished: not the second stop_ssl() nor a read or write in either mode.
OnlyStopThrows ==
  \A e \in Ends :
    status[e] = "failed" => status[Other(e)] # "running" /\ pos[Other(e)] <= Len(Script)

\* Both come to the end of their objects: no call, and not the stop_ssl() of the
\* destructor either, waits for an end that waits, or that is gone.
Completes == <>(\A e \in Ends : status[e] = "destructed")

\* ssl_sock is NULL when it has been freed, and only then: no call uses a session that
\* was freed, and no switch leaves one behind, though a call may throw in the middle of
\* it (base_io.hpp:14, base_ssl.cpp:90).  A destructor whose stop_ssl() throws leaves
\* ssl_sock as it is, and so its session (base_ssl.hpp:62).
OneObject == \A e \in Ends : objects[e] = IF ssl[e] = "null" THEN 0 ELSE 1

\* The sessions of an end that has come to the end of the script are freed.
NothingLeaks == \A e \in Ends : pos[e] > Len(Script) => objects[e] = 0

\* The invariant of the two ends.
SslInv == TypeOK /\ OneObject /\ NothingLeaks
=============================================================================
