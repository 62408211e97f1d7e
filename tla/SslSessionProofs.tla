-------------------------- MODULE SslSessionProofs --------------------------
(***************************************************************************)
(* Sessions for every script: what is on its way between the two ends, and *)
(* why a call never takes a part of a session for a message.               *)
(***************************************************************************)
EXTENDS SslSession, TLAPS, SequenceTheorems

Places == 1..Len(Script)

Items ==
  {<<"hello">>, <<"answer">>, <<"finished">>, <<"notify">>} \union ({"plain", "record"} \X Places)

Types ==
  /\ pos \in [Ends -> 1..(Len(Script) + 1)]
  /\ status \in [Ends -> {"running", "failed", "left", "destructed"}]
  /\ ssl \in [Ends -> {"null", "waiting", "answered", "on"}]
  /\ shut \in [Ends -> SUBSET {"sent", "got"}]
  /\ objects \in [Ends -> Int]
  /\ wire \in [Ends -> Seq(Items)] /\ got \in [Ends -> Seq(Items)]

\* What an end writes at a place of the script, when it has passed it.
Item(e, k) ==
  CASE Script[k] = e -> <<Mode(k), k>>
    [] Script[k] = "on" -> <<"finished">>
    [] OTHER -> <<"notify">>

\* How far the other end is ahead.
Lag(e) == IF pos[Other(e)] > pos[e] THEN pos[Other(e)] - pos[e] ELSE 0

\* ssl_sock is what the script says: NULL or not, or in a handshake.
SslState(e) ==
  /\ ssl[e] \in {"waiting", "answered"} => pos[e] \in Places /\ Script[pos[e]] = "on"
  /\ ssl[e] = "answered" => e = "server"
  /\ ssl[e] = "on" => Mode(pos[e] - 1) = "record"
  /\ ssl[e] = "null" /\ status[e] # "destructed" => Mode(pos[e] - 1) = "plain"
  /\ "sent" \in shut[e] => pos[e] \in Places /\ Script[pos[e]] = "off" /\ ssl[e] = "on"
  /\ "got" \in shut[e] => status[e] # "running" /\ "sent" \notin shut[e]

\* Where the other end passes an end that is still at the same place: it has all it
\* needs of it for the switch.
Crossing(e) ==
  /\ pos[e] \in Places
  /\ \/ Script[pos[e]] = "on" /\ ssl[e] = "answered"
     \/ Script[pos[e]] = "off" /\ "sent" \in shut[e]

\* An end is ahead of the other by messages that it writes, or by such a switch.
Ahead(e) ==
  status[Other(e)] # "destructed" =>
    \A k \in Places :
      pos[Other(e)] <= k /\ k < pos[e] =>
        Script[k] = e \/ (k = pos[Other(e)] /\ Crossing(Other(e)))

\* The server has answered the handshake of the client, that has the answer to read
\* or has read it.
Answered ==
  ssl["server"] = "answered" =>
    \/ pos["client"] > pos["server"]
    \/ pos["client"] = pos["server"] /\ ssl["client"] = "waiting"

Hello(e) ==
  /\ Other(e) = "client" /\ ssl["client"] = "waiting" /\ pos[e] <= pos["client"]
  /\ pos[e] = pos["client"] => ssl[e] # "answered"
Reply(e) == Other(e) = "server" /\ ssl["server"] = "answered" /\ pos[e] = pos["server"]
Notify(e) == "sent" \in shut[Other(e)] /\ pos[e] <= pos[Other(e)]
Farewell(e) ==
  /\ status[Other(e)] = "destructed"
  /\ Mode(pos[Other(e)] - 1) = "record"
  /\ pos[e] >= pos[Other(e)] => Mode(pos[e] - 1) = "record"

\* What an end has written for the switch it is at, or when it was destroyed.
Partial(e, item) ==
  \/ item = <<"hello">> /\ Hello(e)
  \/ item = <<"answer">> /\ Reply(e)
  \/ item = <<"notify">> /\ (Notify(e) \/ Farewell(e))

\* What is on its way to an end.
WireState(e) ==
  status[e] = "running" =>
    /\ Len(wire[e]) \in {Lag(e), Lag(e) + 1}
    /\ \A i \in 1..Lag(e) : wire[e][i] = Item(Other(e), pos[e] + i - 1)
    /\ Len(wire[e]) = Lag(e) + 1 => Partial(e, wire[e][Lag(e) + 1])
    /\ Notify(e) => Len(wire[e]) = Lag(e) + 1

SessionInv == Answered /\ \A e \in Ends : SslState(e) /\ Ahead(e) /\ WireState(e)

\* What an end has written: two items at most at each place it has passed, and one at
\* the place where it is.
Writing(e) ==
  \/ ssl[e] = "waiting" /\ e = "client"
  \/ ssl[e] = "answered" \/ "sent" \in shut[e] \/ status[e] = "destructed"
WireBound(e) ==
  /\ Len(wire[Other(e)]) <= 2 * pos[e] - 1
  /\ ~Writing(e) => Len(wire[Other(e)]) <= 2 * pos[e] - 2
  /\ ssl[e] = "null" /\ pos[e] = 1 => Len(wire[Other(e)]) = 0

\* What an end has allocated: an object at most for each "on" it has come to.
ObjectBound(e) ==
  /\ objects[e] >= 0
  /\ ssl[e] # "null" => objects[e] >= 1
  /\ objects[e] <= pos[e]
  /\ ssl[e] \in {"null", "on"} => objects[e] <= pos[e] - 1

Bounds == \A e \in Ends : WireBound(e) /\ ObjectBound(e)

\* A script that ends in the plain mode and never switches to SSL mode twice.
Balanced ==
  /\ Mode(Len(Script)) = "plain"
  /\ \A k \in Places : Script[k] = "on" => Mode(k - 1) = "plain"

-----------------------------------------------------------------------------
\* Each end has the other.
LEMMA TwoEnds ==
  /\ Other("client") = "server" /\ Other("server") = "client"
  /\ \A e \in Ends : Other(e) \in Ends /\ Other(e) # e /\ Other(Other(e)) = e /\ Ends = {e, Other(e)}
<1>1. ASSUME NEW e \in Ends PROVE Other(e) \in Ends /\ Other(e) # e
  BY <1>1 DEF Other, Ends
<1> QED
  BY <1>1 DEF Ends

\* The script is a sequence of its four steps.
LEMMA ScriptSteps ==
  /\ Len(Script) \in Nat
  /\ \A k \in Places : Script[k] \in Ends \/ Script[k] = "on" \/ Script[k] = "off"
BY SslAssumption DEF SslAssumption, Places

\* The mode after each step of the script.
LEMMA ModeAfter ==
  ASSUME NEW k \in Places
  PROVE  /\ Mode(k) \in {"plain", "record"} /\ Mode(k - 1) \in {"plain", "record"}
         /\ Script[k] = "on" => Mode(k) = "record"
         /\ Script[k] = "off" => Mode(k) = "plain"
         /\ Script[k] \in Ends => Mode(k) = Mode(k - 1)
<1>0. k \in Nat /\ k >= 1
  BY ScriptSteps DEF Places
<1>1. Mode(k) \in {"plain", "record"} /\ Mode(k - 1) \in {"plain", "record"}
  BY DEF Mode
<1>2. ASSUME Script[k] = "on" PROVE Mode(k) = "record"
  <2>1. k \in 1..k /\ Script[k] = "on" /\ ~ \E i \in k..k : Script[i] = "off"
    BY <1>0, <1>2
  <2> QED
    BY <2>1 DEF Mode
<1>3. ASSUME Script[k] = "off" PROVE Mode(k) = "plain"
  <2>1. \A j \in 1..k : k \in j..k
    BY <1>0
  <2> QED
    BY <1>3, <2>1 DEF Mode
<1>4. ASSUME Script[k] \in Ends PROVE Mode(k) = Mode(k - 1)
  <2>1. Script[k] # "on" /\ Script[k] # "off"
    BY <1>4 DEF Ends
  <2>2. \A j \in 1..k : Script[j] = "on" => j \in 1..(k - 1)
    BY <1>0, <2>1
  <2>3. \A j \in 1..(k - 1) : j \in 1..k
    BY <1>0
  <2>4. \A j \in 1..(k - 1) : (\E i \in j..k : Script[i] = "off") <=> \E i \in j..(k - 1) : Script[i] = "off"
    BY <1>0, <2>1
  <2> QED
    BY <2>2, <2>3, <2>4 DEF Mode
<1> QED
  BY <1>1, <1>2, <1>3, <1>4

\* The mode stays while the script only has messages.
LEMMA ModeKept ==
  ASSUME NEW a \in 1..(Len(Script) + 1), NEW b \in 1..(Len(Script) + 1), a <= b,
         \A k \in Places : a <= k /\ k < b => Script[k] \in Ends
  PROVE  Mode(a - 1) = Mode(b - 1)
<1>0. a \in Nat /\ b \in Nat /\ a >= 1 /\ \A k \in Nat : a <= k /\ k < b => k \in Places
  BY ScriptSteps DEF Places
<1>1. \A k \in Nat : a <= k /\ k < b => Script[k] # "on" /\ Script[k] # "off"
  BY <1>0 DEF Ends
<1>2. \A j \in 1..(b - 1) : Script[j] = "on" => j \in 1..(a - 1)
  BY <1>0, <1>1
<1>3. \A j \in 1..(a - 1) : j \in 1..(b - 1)
  BY <1>0
<1>4. \A j \in 1..(a - 1) : (\E i \in j..(b - 1) : Script[i] = "off") <=> \E i \in j..(a - 1) : Script[i] = "off"
  BY <1>0, <1>1
<1> QED
  BY <1>2, <1>3, <1>4 DEF Mode

-----------------------------------------------------------------------------
\* An end and the other.
Pair(e, o) == e \in Ends /\ o \in Ends /\ o = Other(e) /\ e = Other(o) /\ e # o /\ Ends = {e, o}

\* An end and the other one.
LEMMA PairOf == ASSUME NEW e \in Ends PROVE Pair(e, Other(e)) /\ Pair(Other(e), e)
BY TwoEnds DEF Pair

\* The types of an end, one by one.
LEMMA LagIs ==
  ASSUME Types, NEW e, NEW o, Pair(e, o)
  PROVE  /\ pos[e] \in 1..(Len(Script) + 1) /\ pos[o] \in 1..(Len(Script) + 1)
         /\ pos[e] \in Int /\ pos[o] \in Int /\ Lag(e) \in Nat
         /\ pos[o] > pos[e] => Lag(e) = pos[o] - pos[e]
         /\ pos[o] <= pos[e] => Lag(e) = 0
         /\ wire[e] \in Seq(Items) /\ Len(wire[e]) \in Nat
BY ScriptSteps DEF Types, Pair, Lag

\* What is first on its way to an end: what the other wrote at the same place, when it
\* is ahead, or what it has written so far.
LEMMA HeadIs ==
  ASSUME Types, NEW e, NEW o, Pair(e, o), WireState(e), Ahead(o), status[e] = "running", Arrived(e)
  PROVE  \/ /\ pos[e] < pos[o] /\ pos[e] \in Places
            /\ Head(wire[e]) = Item(o, pos[e])
            /\ Script[pos[e]] = o \/ Crossing(e)
         \/ /\ pos[o] <= pos[e]
            /\ Len(wire[e]) = 1 /\ Partial(e, Head(wire[e]))
<1>1. Len(wire[e]) >= 1 /\ Head(wire[e]) = wire[e][1]
  BY LagIs, EmptySeq DEF Arrived
<1>2. CASE pos[e] < pos[o]
  <2>1. pos[e] \in Places
    BY <1>2, LagIs DEF Places
  <2>2. wire[e][1] = Item(o, pos[e] + 1 - 1) /\ pos[e] + 1 - 1 = pos[e]
    BY <1>2, LagIs DEF WireState, Pair
  <2>3. Script[pos[e]] = o \/ Crossing(e)
    BY <1>2, <2>1, LagIs DEF Ahead, Pair
  <2> QED
    BY <1>1, <1>2, <2>1, <2>2, <2>3
<1>3. CASE pos[o] <= pos[e]
  <2>1. Lag(e) = 0 /\ Len(wire[e]) \in Nat
    BY <1>3, LagIs
  <2>2. Len(wire[e]) = 1 /\ wire[e][Lag(e) + 1] = wire[e][1]
    BY <1>1, <2>1 DEF WireState
  <2>3. Partial(e, wire[e][1])
    BY <2>1, <2>2 DEF WireState
  <2> QED
    BY <1>1, <1>3, <2>2, <2>3
<1> QED
  BY <1>2, <1>3, LagIs

\* An end that is not in a switch, and lives, has written nothing else.
LEMMA NothingPartial ==
  ASSUME Types, NEW e, NEW o, Pair(e, o), WireState(e), status[e] = "running",
         status[o] # "destructed", ssl[o] \notin {"waiting", "answered"}, "sent" \notin shut[o]
  PROVE  Len(wire[e]) = Lag(e)
<1>1. ~Hello(e) /\ ~Reply(e) /\ ~Notify(e) /\ ~Farewell(e)
  BY DEF Hello, Reply, Notify, Farewell, Pair
<1> QED
  BY <1>1, LagIs DEF WireState, Partial

\* The other has not passed an end that does something the other does not.
LEMMA NotPassed ==
  ASSUME Types, NEW e, NEW o, Pair(e, o), Ahead(o), status[e] # "destructed",
         pos[e] \in Places, Script[pos[e]] # o, ~Crossing(e)
  PROVE  pos[o] <= pos[e]
BY LagIs DEF Ahead, Pair

\* The state of an end, that only it changes.
Still(e) == pos'[e] = pos[e] /\ status'[e] = status[e] /\ ssl'[e] = ssl[e] /\ shut'[e] = shut[e]

\* An end reads what the other wrote at the same place, and advances.
LEMMA Consumes ==
  ASSUME Types, NEW e, NEW o, Pair(e, o), WireState(e), status[e] = "running", Arrived(e),
         pos[e] < pos[o], wire'[e] = Tail(wire[e]), pos'[e] = pos[e] + 1, Still(o),
         ssl'[e] # "answered"
  PROVE  WireState(e)'
<1>1. /\ Lag(e) >= 1 /\ Lag(e)' = Lag(e) - 1 /\ Lag(e) = pos[o] - pos[e]
      /\ pos[e] \in Int /\ pos[o] \in Int /\ Lag(e) \in Nat
  BY LagIs DEF Lag, Pair, Still
<1>2. /\ Len(wire'[e]) = Len(wire[e]) - 1
      /\ \A i \in 1..(Len(wire[e]) - 1) : wire'[e][i] = wire[e][i + 1]
  BY LagIs, HeadTailProperties, EmptySeq DEF Arrived
<1>3. Len(wire[e]) \in {Lag(e), Lag(e) + 1} /\ Len(wire[e]) \in Nat
  BY LagIs DEF WireState
<1>4. ASSUME NEW i \in 1..Lag(e)' PROVE (wire[e][i] = Item(Other(e), pos[e] + i - 1))'
  <2>1. i + 1 \in 1..Lag(e) /\ pos[e] + (i + 1) - 1 = pos'[e] + i - 1
    BY <1>1
  <2>2. wire[e][i + 1] = Item(o, pos[e] + (i + 1) - 1)
    BY <2>1 DEF WireState, Pair
  <2>3. wire'[e][i] = wire[e][i + 1]
    BY <1>1, <1>2, <1>3
  <2> QED
    BY <2>1, <2>2, <2>3 DEF Item, Mode, Pair
<1>5. ASSUME Len(wire'[e]) = Lag(e)' + 1 PROVE Partial(e, wire[e][Lag(e) + 1])'
  <2>1. Len(wire[e]) = Lag(e) + 1 /\ wire'[e][Lag(e)' + 1] = wire[e][Lag(e) + 1]
    BY <1>1, <1>2, <1>3, <1>5
  <2>2. Partial(e, wire[e][Lag(e) + 1])
    BY <2>1 DEF WireState
  <2>3. Hello(e) => Hello(e)'
    BY <1>1, TwoEnds DEF Hello, Pair, Still
  <2>4. ~Reply(e)
    BY <1>1 DEF Reply, Pair
  <2>5. Notify(e) => Notify(e)'
    BY <1>1 DEF Notify, Pair, Still
  <2>6. Farewell(e) => Farewell(e)'
    BY <1>1 DEF Farewell, Pair, Still, Mode
  <2> QED
    BY <2>1, <2>2, <2>3, <2>4, <2>5, <2>6 DEF Partial
<1>6. Notify(e)' => Len(wire'[e]) = Lag(e)' + 1
  <2>1. Notify(e)' => Notify(e)
    BY <1>1 DEF Notify, Pair, Still
  <2> QED
    BY <1>1, <1>2, <1>3, <2>1 DEF WireState
<1>7. Len(wire'[e]) \in {Lag(e)', Lag(e)' + 1}
  BY <1>1, <1>2, <1>3
<1> QED
  BY <1>4, <1>5, <1>6, <1>7, Zenon DEF WireState

\* Nothing is read or written that the end is to read.
LEMMA SameWire ==
  ASSUME Types, NEW e, NEW o, Pair(e, o), WireState(e), wire'[e] = wire[e],
         pos'[e] = pos[e], pos'[o] = pos[o], status'[e] \in {status[e], "failed", "left", "destructed"},
         Hello(e) => Hello(e)', Reply(e) => Reply(e)', Notify(e) <=> Notify(e)',
         Farewell(e) => Farewell(e)'
  PROVE  WireState(e)'
<1>1. Lag(e)' = Lag(e)
  BY DEF Lag, Pair
<1>2. Partial(e, wire[e][Lag(e) + 1]) => Partial(e, wire[e][Lag(e) + 1])'
  BY <1>1 DEF Partial
<1> QED
  BY <1>1, <1>2 DEF WireState, Pair

\* The other has advanced where this end was already: what it has written is read.
LEMMA OtherCatchesUp ==
  ASSUME Types, NEW e, NEW o, Pair(e, o), WireState(e), wire'[e] = wire[e], pos[o] < pos[e],
         Still(e), pos'[o] = pos[o] + 1, "sent" \notin shut'[o], status[o] = "running"
  PROVE  WireState(e)'
<1>1. Lag(e) = 0 /\ Lag(e)' = 0 /\ pos[e] \in Int /\ pos[o] \in Int
  BY LagIs DEF Lag, Pair, Still
<1>2. ~Hello(e) /\ ~Reply(e) /\ ~Notify(e) /\ ~Farewell(e) /\ ~Notify(e)'
  BY <1>1, TwoEnds DEF Hello, Reply, Notify, Farewell, Pair
<1>3. status[e] = "running" => Len(wire[e]) = 0
  BY <1>1, <1>2, LagIs DEF WireState, Partial
<1> QED
  BY <1>1, <1>2, <1>3 DEF WireState, Still

-----------------------------------------------------------------------------
\* Every step keeps the state well-formed.
LEMMA TypesKept ==
  ASSUME Types, [Next]_vars
  PROVE  Types'
<1> DEFINE Where == /\ pos \in [Ends -> 1..(Len(Script) + 1)]
                    /\ status \in [Ends -> {"running", "failed", "left", "destructed"}]
           Session == /\ ssl \in [Ends -> {"null", "waiting", "answered", "on"}]
                      /\ shut \in [Ends -> SUBSET {"sent", "got"}]
                      /\ objects \in [Ends -> Int]
<1>0. Len(Script) \in Nat /\ \A e \in Ends : Other(e) \in Ends
  BY ScriptSteps, TwoEnds
<1>1. ASSUME NEW e \in Ends, NEW steps, At(e, steps), Advances(e) PROVE Where'
  <2>1. pos[e] \in 1..(Len(Script) + 1) /\ pos[e] <= Len(Script)
    BY <1>1 DEF At, Types
  <2>2. pos[e] + 1 \in 1..(Len(Script) + 1)
    BY <1>0, <2>1
  <2> QED
    BY <1>1, <2>2 DEF Advances, Types
<1>2. ASSUME NEW e \in Ends, Throws(e) PROVE Where'
  BY <1>2 DEF Throws, Types
<1>3. ASSUME NEW e \in Ends, Free(e) PROVE Session'
  BY <1>3 DEF Free, Freed, Types
<1>4. ASSUME UNCHANGED <<pos, status>> PROVE Where'
  BY <1>4 DEF Types
<1>5. ASSUME UNCHANGED <<ssl, shut, objects>> PROVE Session'
  BY <1>5 DEF Types
<1>6. ASSUME Where', Session', wire' \in [Ends -> Seq(Items)], got' = got PROVE Types'
  BY <1>6 DEF Types
<1> HIDE DEF Where, Session
<1>7. ASSUME NEW e \in Ends, Receiving(e) PROVE Arrived(e) => wire' \in [Ends -> Seq(Items)]
  BY <1>7, HeadTailProperties DEF Receiving, Arrived, Types
<1>8. ASSUME NEW e \in Ends, NEW item \in Items, Sending(e, item) PROVE wire' \in [Ends -> Seq(Items)]
  BY <1>0, <1>8, AppendProperties DEF Sending, Types
<1>9. ASSUME NEW e \in Ends, NEW item \in Items, Exchanging(e, item), Arrived(e)
      PROVE  wire' \in [Ends -> Seq(Items)]
  <2>1. Tail(wire[e]) \in Seq(Items)
    BY <1>9, HeadTailProperties DEF Arrived, Types
  <2>2. Append(wire[Other(e)], item) \in Seq(Items)
    BY <1>0, <1>9, AppendProperties DEF Types
  <2> QED
    BY <1>9, <2>1, <2>2 DEF Exchanging, Types
<1>10. ASSUME UNCHANGED wire PROVE wire' \in [Ends -> Seq(Items)]
  BY <1>10 DEF Types
<1>11. ASSUME NEW e \in Ends, Write(e) PROVE Types'
  <2>1. CASE Throws(e) /\ UNCHANGED wire
    BY <1>11, <1>2, <1>5, <1>6, <1>10, <2>1 DEF Write
  <2>2. CASE Advances(e) /\ Sending(e, Message(e, Kind(e)))
    <3>1. Message(e, Kind(e)) \in Items
      <4>1. pos[e] \in Places
        BY <1>0, <1>11 DEF Write, At, Places, Types
      <4> QED
        BY <4>1 DEF Message, Kind, Items
    <3>2. wire' \in [Ends -> Seq(Items)]
      BY <1>8, <2>2, <3>1
    <3> QED
      BY <1>11, <1>1, <1>5, <1>6, <2>2, <3>2 DEF Write
  <2> QED
    BY <1>11, <2>1, <2>2 DEF Write
<1>12. ASSUME NEW e \in Ends, Read(e) PROVE Types'
  <2>1. wire' \in [Ends -> Seq(Items)]
    BY <1>7, <1>12 DEF Read
  <2>2. Append(got[e], Head(wire[e])) \in Seq(Items)
    <3>1. Head(wire[e]) \in Items
      BY <1>12, HeadTailProperties DEF Read, Arrived, Types
    <3> QED
      BY <3>1, AppendProperties DEF Types
  <2>3. got' \in [Ends -> Seq(Items)]
    BY <1>12, <2>2 DEF Read, Types
  <2>4. Where'
    BY <1>12, <1>1, <1>2 DEF Read
  <2>5. Session'
    BY <1>12 DEF Read, Session, Types
  <2> QED
    BY <2>1, <2>3, <2>4, <2>5 DEF Types, Where, Session
<1>13. ASSUME NEW e \in Ends, Start(e) PROVE Types'
  <2>1. wire' \in [Ends -> Seq(Items)]
    <3>1. <<"hello">> \in Items
      BY DEF Items
    <3> QED
      BY <1>8, <1>13, <1>10, <3>1 DEF Start
  <2>2. Session'
    BY <1>13 DEF Start, Session, Types
  <2> QED
    BY <1>13, <1>4, <1>6, <2>1, <2>2 DEF Start
<1>14. ASSUME Handshake PROVE Types'
  <2>1. {<<"answer">>, <<"finished">>} \subseteq Items
    BY DEF Items
  <2>2. {"client", "server"} \subseteq Ends
    BY DEF Ends
  <2>3. CASE Answer
    <3>1. wire' \in [Ends -> Seq(Items)]
      BY <1>9, <2>1, <2>2, <2>3 DEF Answer, Handshakes
    <3>2. Session'
      BY <2>3 DEF Answer, Session, Types
    <3> QED
      BY <1>4, <1>6, <2>3, <3>1, <3>2 DEF Answer
  <2>4. CASE Accept
    <3>1. wire' \in [Ends -> Seq(Items)]
      BY <1>7, <2>2, <2>4 DEF Accept, Handshakes
    <3>2. Session'
      BY <2>4 DEF Accept, Session, Types
    <3> QED
      BY <1>1, <1>6, <2>2, <2>4, <3>1, <3>2 DEF Accept, Handshakes
  <2>5. CASE Connect
    <3>1. wire' \in [Ends -> Seq(Items)]
      BY <1>9, <2>1, <2>2, <2>5 DEF Connect, Handshakes
    <3>2. Session'
      BY <2>5 DEF Connect, Session, Types
    <3> QED
      BY <1>1, <1>6, <2>2, <2>5, <3>1, <3>2 DEF Connect, Handshakes
  <2> QED
    BY <1>14, <2>3, <2>4, <2>5 DEF Handshake
<1>15. <<"notify">> \in Items
  BY DEF Items
<1>16. ASSUME NEW e \in Ends, Stop(e) PROVE Types'
  <2>1. wire' \in [Ends -> Seq(Items)]
    BY <1>8, <1>15, <1>16 DEF Stop
  <2>2. CASE Free(e) /\ Advances(e)
    BY <1>16, <1>1, <1>3, <1>6, <2>1, <2>2 DEF Stop
  <2>3. CASE ~(Free(e) /\ Advances(e))
    <3>1. Where'
      BY <1>16, <1>2, <1>4, <2>3 DEF Stop
    <3>2. Session'
      BY <1>16, <2>3 DEF Stop, Session, Types
    <3> QED
      BY <1>16, <1>6, <2>1, <3>1, <3>2 DEF Stop
  <2> QED
    BY <2>2, <2>3
<1>17. ASSUME NEW e \in Ends, StopAgain(e) PROVE Types'
  <2>1. wire' \in [Ends -> Seq(Items)]
    BY <1>7, <1>17 DEF StopAgain
  <2>2. Where' /\ Session'
    BY <1>17, <1>1, <1>2, <1>3, <1>5 DEF StopAgain
  <2> QED
    BY <1>17, <1>6, <2>1, <2>2 DEF StopAgain
<1>18. ASSUME NEW e \in Ends, Fails(e) \/ Breaks(e) \/ GiveUp(e) PROVE Types'
  BY <1>18 DEF Fails, Breaks, GiveUp, Throws, Types
<1>19. ASSUME NEW e \in Ends, Destruct(e) PROVE Types'
  <2>1. wire' \in [Ends -> Seq(Items)]
    BY <1>7, <1>8, <1>15, <1>19, <1>10 DEF Destruct, LastStop, LastRead, LastFails
  <2>2. Where'
    BY <1>19 DEF Destruct, Where, Types
  <2>3. Session'
    BY <1>19, <1>3, <1>5 DEF Destruct, LastStop, LastRead, LastFails
  <2> QED
    BY <1>19, <1>6, <2>1, <2>2, <2>3 DEF Destruct
<1>20. CASE UNCHANGED vars
  BY <1>20 DEF vars, Types
<1> QED
  BY <1>11, <1>12, <1>13, <1>14, <1>16, <1>17, <1>18, <1>19, <1>20 DEF Next, Step

-----------------------------------------------------------------------------
\* An end writes what its place asks for, and passes it.
LEMMA Passes ==
  ASSUME Types, NEW e, NEW o, Pair(e, o), WireState(o), status[o] = "running" => Len(wire[o]) = Lag(o),
         pos[o] <= pos[e], pos'[e] = pos[e] + 1, Still(o), NEW item, item = Item(e, pos[e]),
         wire'[o] = Append(wire[o], item), item \in Items, "sent" \notin shut'[e]
  PROVE  WireState(o)'
<1>1. /\ Lag(o) \in Nat /\ Lag(o)' = Lag(o) + 1 /\ pos[o] + (Lag(o) + 1) - 1 = pos[e]
      /\ pos'[o] = pos[o] /\ pos[o] \in Int
  <2>1. Pair(o, e)
    BY DEF Pair
  <2>2. /\ pos[e] \in Int /\ pos[o] \in Int /\ Lag(o) \in Nat
        /\ Lag(o) = pos[e] - pos[o]
    BY <2>1, LagIs
  <2>3. Lag(o)' = pos[e] + 1 - pos[o]
    BY <2>2 DEF Lag, Pair, Still
  <2> QED
    BY <2>2, <2>3 DEF Still
<1>2. ~Notify(o)'
  BY DEF Notify, Pair
<1>3. CASE status[o] = "running"
  <2>1. wire[o] \in Seq(Items) /\ Len(wire[o]) = Lag(o)
    BY <1>3 DEF Types, Pair
  <2>2. /\ Len(wire'[o]) = Lag(o) + 1
        /\ \A i \in 1..Lag(o) : wire'[o][i] = wire[o][i]
        /\ wire'[o][Lag(o) + 1] = item
    BY <2>1, AppendProperties
  <2>3. ASSUME NEW i \in 1..Lag(o)' PROVE (wire[o][i] = Item(Other(o), pos[o] + i - 1))'
    <3>1. wire'[o][i] = Item(e, pos[o] + i - 1)
      <4>1. CASE i = Lag(o) + 1
        BY <1>1, <2>2, <4>1
      <4>2. CASE i # Lag(o) + 1
        <5>1. i \in 1..Lag(o)
          BY <1>1, <4>2
        <5> QED
          BY <1>3, <2>2, <5>1 DEF WireState, Pair
      <4> QED
        BY <4>1, <4>2
    <3> QED
      BY <1>1, <3>1 DEF Item, Mode, Pair
  <2> QED
    BY <1>1, <1>2, <2>2, <2>3 DEF WireState
<1>4. CASE status[o] # "running"
  BY <1>4 DEF WireState, Still
<1> QED
  BY <1>3, <1>4

\* An end writes a part of a switch and stays.
LEMMA Adds ==
  ASSUME Types, NEW e, NEW o, Pair(e, o), status[o] = "running" => Len(wire[o]) = Lag(o),
         WireState(o), pos'[e] = pos[e], Still(o), NEW item \in Items,
         wire'[o] = Append(wire[o], item), status[o] = "running" => Partial(o, item)'
  PROVE  WireState(o)'
<1>1. Lag(o) \in Nat /\ Lag(o)' = Lag(o) /\ pos'[o] = pos[o]
  <2>1. Pair(o, e)
    BY DEF Pair
  <2> QED
    BY <2>1, LagIs DEF Lag, Pair, Still
<1>2. CASE status[o] = "running"
  <2>1. wire[o] \in Seq(Items) /\ Len(wire[o]) = Lag(o)
    BY <1>2 DEF Types, Pair
  <2>2. /\ Len(wire'[o]) = Lag(o) + 1
        /\ \A i \in 1..Lag(o) : wire'[o][i] = wire[o][i]
        /\ wire'[o][Lag(o) + 1] = item
    BY <2>1, AppendProperties
  <2>3. ASSUME NEW i \in 1..Lag(o)' PROVE (wire[o][i] = Item(Other(o), pos[o] + i - 1))'
    <3>1. wire'[o][i] = Item(e, pos[o] + i - 1)
      BY <1>1, <1>2, <2>2 DEF WireState, Pair
    <3> QED
      BY <1>1, <3>1 DEF Item, Mode, Pair
  <2>4. Partial(o, wire[o][Lag(o) + 1])'
    BY <1>1, <1>2, <2>2 DEF Partial
  <2> QED
    BY <1>1, <2>2, <2>3, <2>4 DEF WireState
<1>3. CASE status[o] # "running"
  BY <1>3 DEF WireState, Still
<1> QED
  BY <1>2, <1>3

\* An end writes, and stays or passes: nothing changes of what it has to read.
LEMMA WritesOnly ==
  ASSUME Types, NEW e, NEW o, Pair(e, o), WireState(e), SslState(o), Still(o), wire'[e] = wire[e],
         pos[o] <= pos[e], pos'[e] = pos[e] + 1, pos[e] \in Places, Script[pos[e]] = e,
         status[e] = "running"
  PROVE  WireState(e)'
<1>1. Lag(e) = 0 /\ Lag(e)' = 0 /\ pos[e] \in Int /\ pos[o] \in Int /\ pos'[o] = pos[o]
  BY LagIs DEF Lag, Pair, Still
<1>2. Script[pos[e]] # "on" /\ Script[pos[e]] # "off"
  BY DEF Pair, Ends
<1>3. ~Hello(e) /\ ~Reply(e) /\ ~Notify(e) /\ ~Notify(e)'
  BY <1>1, <1>2, TwoEnds DEF Hello, Reply, Notify, SslState, Pair, Still
<1>4. Farewell(e) => Farewell(e)'
  <2>1. Mode(pos[e]) = Mode(pos[e] - 1)
    BY ModeAfter DEF Pair
  <2> QED
    BY <1>1, <2>1 DEF Farewell, Pair, Still, Mode
<1>5. Partial(e, wire[e][Lag(e) + 1]) => Partial(e, wire[e][Lag(e) + 1])'
  BY <1>1, <1>3, <1>4 DEF Partial
<1> QED
  BY <1>1, <1>3, <1>5 DEF WireState

\* An end reads the last thing on its way to it.
LEMMA Empties ==
  ASSUME Types, NEW e, NEW o, Pair(e, o), Len(wire[e]) = 1, pos[o] <= pos[e], wire'[e] = Tail(wire[e]),
         pos'[e] \in {pos[e], pos[e] + 1}, Still(o), ~Notify(e)'
  PROVE  WireState(e)'
<1>1. Lag(e)' = 0
  BY LagIs DEF Lag, Pair, Still
<1>2. Len(wire'[e]) = 0
  BY LagIs, HeadTailProperties, EmptySeq
<1>3. /\ 1..Lag(e)' = {} /\ Len(wire'[e]) # Lag(e)' + 1
      /\ Len(wire'[e]) \in {Lag(e)', Lag(e)' + 1}
  BY <1>1, <1>2
<1> QED
  BY <1>3, Zenon DEF WireState

\* An end that has stopped passes its place: its notify is the other's to read there.
LEMMA NotifyPassed ==
  ASSUME Types, NEW e, NEW o, Pair(e, o), WireState(o), Still(o), wire'[o] = wire[o],
         SslState(e), "sent" \in shut[e], status[e] = "running", pos'[e] = pos[e] + 1,
         pos[o] <= pos[e], "sent" \notin shut'[e]
  PROVE  WireState(o)'
<1>1. /\ Lag(o) \in Nat /\ Lag(o)' = Lag(o) + 1 /\ pos[o] + (Lag(o) + 1) - 1 = pos[e]
      /\ pos'[o] = pos[o] /\ pos[o] \in Int
  <2>1. Pair(o, e)
    BY DEF Pair
  <2>2. /\ pos[e] \in Int /\ pos[o] \in Int /\ Lag(o) \in Nat
        /\ Lag(o) = pos[e] - pos[o]
    BY <2>1, LagIs
  <2>3. Lag(o)' = pos[e] + 1 - pos[o]
    BY <2>2 DEF Lag, Pair, Still
  <2> QED
    BY <2>2, <2>3 DEF Still
<1>2. ~Notify(o)' /\ Notify(o) /\ ~Hello(o) /\ ~Reply(o)
  BY TwoEnds DEF Notify, Hello, Reply, SslState, Pair
<1>3. CASE status[o] = "running"
  <2>1. Len(wire[o]) = Lag(o) + 1 /\ wire[o][Lag(o) + 1] = <<"notify">>
    BY <1>2, <1>3 DEF WireState, Partial
  <2>2. Item(e, pos[e]) = <<"notify">>
    <3>1. Script[pos[e]] = "off" /\ "off" # "on" /\ "off" # e
      BY DEF SslState, Pair, Ends
    <3> QED
      BY <3>1 DEF Item
  <2>3. ASSUME NEW i \in 1..Lag(o)' PROVE (wire[o][i] = Item(Other(o), pos[o] + i - 1))'
    <3>1. wire[o][i] = Item(e, pos[o] + i - 1)
      <4>1. CASE i = Lag(o) + 1
        BY <1>1, <2>1, <2>2, <4>1
      <4>2. CASE i # Lag(o) + 1
        <5>1. i \in 1..Lag(o)
          BY <1>1, <4>2
        <5> QED
          BY <1>3, <5>1 DEF WireState, Pair
      <4> QED
        BY <4>1, <4>2
    <3> QED
      BY <1>1, <3>1 DEF Item, Mode, Pair
  <2> QED
    BY <1>1, <1>2, <2>1, <2>3 DEF WireState
<1>4. CASE status[o] # "running"
  BY <1>4 DEF WireState, Still
<1> QED
  BY <1>3, <1>4

\* Who is ahead, when an end advances ...
LEMMA AheadMoves ==
  ASSUME Types, NEW e, NEW o, Pair(e, o), Ahead(e), Ahead(o), Still(o), pos'[e] = pos[e] + 1,
         status[e] # "destructed",
         \/ pos[e] < pos[o]
         \/ Script[pos[e]] = e
         \/ pos[o] = pos[e] /\ Crossing(o)
         \/ status[o] = "destructed"
  PROVE  Ahead(e)' /\ Ahead(o)'
<1>1. pos[e] \in Int /\ pos[o] \in Int /\ pos'[o] = pos[o] /\ status'[o] = status[o] /\ Places \subseteq Int
  BY LagIs, ScriptSteps DEF Still, Places
<1>2. Crossing(o)' <=> Crossing(o)
  BY DEF Crossing, Still, Places
<1>3. ASSUME status[o] # "destructed", NEW k \in Places, pos[o] <= k, k < pos[e] + 1
      PROVE  Script[k] = e \/ (k = pos[o] /\ Crossing(o))
  <2>1. CASE k < pos[e]
    BY <1>3, <2>1 DEF Ahead, Pair
  <2>2. CASE k = pos[e]
    BY <1>1, <1>3, <2>2
  <2> QED
    BY <1>1, <1>3, <2>1, <2>2
<1>4. ASSUME NEW k \in Places, pos[e] + 1 <= k, k < pos[o]
      PROVE  Script[k] = o
  BY <1>1, <1>4 DEF Ahead, Pair
<1>5. Ahead(e)'
  BY <1>1, <1>2, <1>3 DEF Ahead, Pair, Places
<1>6. Ahead(o)'
  BY <1>1, <1>4 DEF Ahead, Pair, Places
<1> QED
  BY <1>5, <1>6

\* ... and when none does.
LEMMA AheadStays ==
  ASSUME NEW e, NEW o, Pair(e, o), Ahead(e), Ahead(o), Still(o), pos'[e] = pos[e],
         status'[e] # "destructed" => status[e] # "destructed" /\ (Crossing(e) => Crossing(e)')
  PROVE  Ahead(e)' /\ Ahead(o)'
<1>1. Crossing(o)' <=> Crossing(o)
  BY DEF Crossing, Still, Places
<1> QED
  BY <1>1 DEF Ahead, Pair, Places, Still

\* The invariant is about the two ends.
LEMMA Assemble ==
  ASSUME NEW e, NEW o, Pair(e, o), SslState(o), Still(o), SslState(e)', Ahead(e)', Ahead(o)',
         WireState(e)', WireState(o)', Answered'
  PROVE  SessionInv'
<1>1. SslState(o)'
  BY DEF SslState, Still, Mode, Places
<1> QED
  BY <1>1 DEF SessionInv, Pair

-----------------------------------------------------------------------------
\* What is known of an end that is at a step of the script.
LEMMA AtPlace ==
  ASSUME Types, NEW e, NEW o, Pair(e, o), NEW steps, At(e, steps)
  PROVE  /\ status[e] = "running" /\ pos[e] \in Places /\ Script[pos[e]] \in steps
         /\ pos[e] \in Int /\ pos[e] >= 1
  BY ScriptSteps, LagIs DEF At, Places

\* An end that writes a message.
LEMMA WriteKeeps ==
  ASSUME Types, SessionInv, NEW e, NEW o, Pair(e, o), Write(e)
  PROVE  SessionInv'
<1>0. SslState(e) /\ SslState(o) /\ Ahead(e) /\ Ahead(o) /\ WireState(e) /\ WireState(o) /\ Answered
  BY DEF SessionInv, Pair
<1>1. /\ status[e] = "running" /\ pos[e] \in Places /\ Script[pos[e]] = e
      /\ Script[pos[e]] # "on" /\ Script[pos[e]] # "off" /\ Script[pos[e]] # o /\ pos[e] \in Int
  BY AtPlace DEF Write, Pair, Ends
<1>2. "sent" \notin shut[e] /\ ssl[e] \notin {"waiting", "answered"} /\ ~Crossing(e)
  BY <1>0, <1>1 DEF SslState, Crossing
<1>3. /\ pos'[e] = pos[e] + 1 /\ wire'[o] = Append(wire[o], Message(e, Kind(e))) /\ wire'[e] = wire[e]
      /\ UNCHANGED <<ssl, shut, status>> /\ Still(o)
  BY <1>2 DEF Write, Advances, Sending, Types, Pair, Still
<1>4. pos[o] <= pos[e]
  BY <1>0, <1>1, <1>2, NotPassed
<1>5. Mode(pos[e]) = Mode(pos[e] - 1) /\ Kind(e) = Mode(pos[e]) /\ Kind(e) \in {"plain", "record"}
  <2>1. Mode(pos[e]) = Mode(pos[e] - 1)
    BY <1>1, ModeAfter DEF Pair
  <2>2. ssl[e] \in {"null", "on"}
    BY <1>2 DEF Types, Pair
  <2> QED
    BY <1>0, <1>1, <2>1, <2>2 DEF SslState, Kind
<1>6. SslState(e)'
  BY <1>0, <1>1, <1>2, <1>3, <1>5 DEF SslState, Mode
<1>7. Ahead(e)' /\ Ahead(o)'
  BY <1>0, <1>1, <1>3, AheadMoves
<1>8. WireState(e)'
  BY <1>0, <1>1, <1>3, <1>4, WritesOnly
<1>9. WireState(o)'
  <2>1. Pair(o, e)
    BY DEF Pair
  <2>2. status[o] = "running" => Len(wire[o]) = Lag(o)
    BY <1>0, <1>1, <1>2, <2>1, NothingPartial
  <2>3. Message(e, Kind(e)) = Item(e, pos[e]) /\ Message(e, Kind(e)) \in Items
    BY <1>1, <1>5 DEF Item, Message, Items
  <2> QED
    BY <1>0, <1>2, <1>3, <1>4, <2>2, <2>3, Passes
<1>10. Answered'
  BY <1>0, <1>1, <1>2, <1>3, <1>4, TwoEnds, LagIs DEF Answered, Pair, Ends, Still
<1> QED
  BY <1>0, <1>3, <1>6, <1>7, <1>8, <1>9, <1>10, Assemble

\* What a read finds: the message of its place, or the notify of an end that was
\* destroyed before it.
LEMMA ReadIs ==
  ASSUME Types, SessionInv, NEW e, NEW o, Pair(e, o), Read(e)
  PROVE  /\ status[e] = "running" /\ pos[e] \in Places /\ Script[pos[e]] = o
         /\ ssl[e] \notin {"waiting", "answered"} /\ "sent" \notin shut[e]
         /\ Still(o) /\ wire' = [wire EXCEPT ![e] = Tail(wire[e])] /\ ssl' = ssl
         /\ \/ /\ pos[e] < pos[o] /\ Head(wire[e]) = <<Mode(pos[e]), pos[e]>>
               /\ got' = [got EXCEPT ![e] = Append(got[e], <<Mode(pos[e]), pos[e]>>)]
               /\ Advances(e) /\ shut' = shut
            \/ /\ status[o] = "destructed" /\ pos[o] <= pos[e]
               /\ Throws(e) /\ UNCHANGED got
               /\ \A x \in Ends : "sent" \in shut'[x] <=> "sent" \in shut[x]
<1>0. SslState(e) /\ WireState(e) /\ Ahead(o)
  BY DEF SessionInv, Pair
<1>1. /\ status[e] = "running" /\ pos[e] \in Places /\ Script[pos[e]] = o
      /\ Script[pos[e]] # "on" /\ Script[pos[e]] # "off" /\ Script[pos[e]] # e
  BY AtPlace DEF Read, Pair, Ends
<1>2. ssl[e] \in {"null", "on"} /\ "sent" \notin shut[e]
  BY <1>0, <1>1 DEF SslState, Types, Pair
<1>3. Still(o) /\ Arrived(e) /\ wire' = [wire EXCEPT ![e] = Tail(wire[e])] /\ ssl' = ssl
  BY DEF Read, Receiving, Still, Pair, Types, Advances, Throws
<1>4. \A x \in Ends : "sent" \in shut'[x] <=> "sent" \in shut[x]
  BY DEF Read, Types
<1>5. Mode(pos[e]) = Mode(pos[e] - 1) /\ Kind(e) = Mode(pos[e]) /\ Kind(e) \in {"plain", "record"}
  <2>1. Mode(pos[e]) = Mode(pos[e] - 1)
    BY <1>1, ModeAfter DEF Pair
  <2> QED
    BY <1>0, <1>1, <1>2, <2>1 DEF SslState, Kind
<1>6. CASE pos[e] < pos[o] /\ Head(wire[e]) = Item(o, pos[e])
  <2>1. Head(wire[e]) = <<Mode(pos[e]), pos[e]>> /\ Head1(e) = Mode(pos[e])
    BY <1>1, <1>6 DEF Item, Head1
  <2>2. Kind(e) = "plain" \/ Head1(e) = "record"
    BY <1>5, <2>1
  <2>3. Advances(e) /\ got' = [got EXCEPT ![e] = Append(got[e], <<Mode(pos[e]), pos[e]>>)]
    BY <2>1, <2>2 DEF Read
  <2>4. shut' = shut
    BY <1>5, <2>1 DEF Read, Types
  <2> QED
    BY <1>1, <1>2, <1>3, <1>6, <2>1, <2>3, <2>4
<1>7. CASE pos[o] <= pos[e] /\ Len(wire[e]) = 1 /\ Partial(e, Head(wire[e]))
  <2>1. SslState(o) /\ pos[o] \in Int /\ pos[e] \in Int
    BY LagIs DEF SessionInv, Pair
  <2>2. ~Hello(e) /\ ~Reply(e) /\ ~Notify(e)
    BY <1>1, <1>7, <2>1, TwoEnds DEF Hello, Reply, Notify, SslState, Pair
  <2>3. Head(wire[e]) = <<"notify">> /\ Farewell(e)
    BY <1>7, <2>2 DEF Partial
  <2>4. Head1(e) # "record" /\ Kind(e) = "record" /\ status[o] = "destructed"
    BY <1>5, <1>7, <2>3 DEF Head1, Farewell, Pair
  <2>5. Throws(e) /\ UNCHANGED got
    BY <2>4 DEF Read
  <2> QED
    BY <1>1, <1>2, <1>3, <1>4, <1>7, <2>4, <2>5
<1> QED
  BY <1>0, <1>1, <1>3, <1>6, <1>7, HeadIs

\* An end that reads a message.
LEMMA ReadKeeps ==
  ASSUME Types, SessionInv, NEW e, NEW o, Pair(e, o), Read(e)
  PROVE  SessionInv'
<1>0. SslState(e) /\ SslState(o) /\ Ahead(e) /\ Ahead(o) /\ WireState(e) /\ WireState(o) /\ Answered
  BY DEF SessionInv, Pair
<1>1. /\ status[e] = "running" /\ pos[e] \in Places /\ Script[pos[e]] = o
      /\ ssl[e] \notin {"waiting", "answered"} /\ "sent" \notin shut[e]
      /\ Still(o) /\ wire'[e] = Tail(wire[e]) /\ wire'[o] = wire[o] /\ ssl' = ssl /\ Arrived(e)
  <2>1. Arrived(e)
    BY DEF Read
  <2>2. wire' = [wire EXCEPT ![e] = Tail(wire[e])]
    BY ReadIs
  <2>3. wire'[e] = Tail(wire[e]) /\ wire'[o] = wire[o]
    BY <2>2 DEF Pair, Types
  <2> QED
    BY <2>1, <2>3, ReadIs
<1>2. Script[pos[e]] # "on" /\ Script[pos[e]] # "off" /\ ~Crossing(e) /\ Pair(o, e)
  BY <1>1 DEF Pair, Ends, Crossing
<1>3. CASE pos[e] < pos[o] /\ Advances(e) /\ shut' = shut
  <2>1. pos'[e] = pos[e] + 1 /\ status' = status /\ ssl'[e] # "answered"
    BY <1>1, <1>3 DEF Advances, Types, Pair
  <2>2. SslState(e)'
    <3>1. Mode(pos[e]) = Mode(pos[e] - 1) /\ pos[e] \in Int
      BY <1>1, ModeAfter, LagIs DEF Pair
    <3> QED
      BY <1>0, <1>1, <1>3, <2>1, <3>1 DEF SslState, Mode
  <2>3. Ahead(e)' /\ Ahead(o)'
    BY <1>0, <1>1, <1>3, <2>1, AheadMoves
  <2>4. WireState(e)'
    BY <1>0, <1>1, <1>3, <2>1, Consumes
  <2>5. WireState(o)'
    BY <1>0, <1>1, <1>2, <1>3, <2>1, OtherCatchesUp
  <2>6. Answered'
    BY <1>0, <1>1, <1>3, <2>1, TwoEnds, LagIs DEF Answered, Pair, Ends, Still
  <2> QED
    BY <1>0, <1>1, <2>2, <2>3, <2>4, <2>5, <2>6, Assemble
<1>4. CASE Throws(e) /\ \A x \in Ends : "sent" \in shut'[x] <=> "sent" \in shut[x]
  <2>1. pos' = pos /\ status'[e] = "failed"
    BY <1>4 DEF Throws, Types, Pair
  <2>2. SslState(e)'
    BY <1>0, <1>1, <1>4, <2>1 DEF SslState, Mode, Pair
  <2>3. Ahead(e)' /\ Ahead(o)'
    BY <1>0, <1>1, <1>2, <2>1, AheadStays
  <2>4. WireState(e)'
    BY <2>1 DEF WireState
  <2>5. WireState(o)'
    <3>1. (Hello(o) => Hello(o)') /\ (Reply(o) => Reply(o)')
      BY <1>1, <2>1 DEF Hello, Reply
    <3>2. Notify(o) <=> Notify(o)'
      BY <1>4, <2>1 DEF Notify, Pair
    <3>3. Farewell(o) => Farewell(o)'
      BY <1>1, <2>1 DEF Farewell, Pair
    <3> QED
      BY <1>0, <1>1, <1>2, <2>1, <3>1, <3>2, <3>3, SameWire DEF Still
  <2>6. Answered'
    BY <1>0, <1>1, <2>1 DEF Answered
  <2> QED
    BY <1>0, <1>1, <2>2, <2>3, <2>4, <2>5, <2>6, Assemble
<1> QED
  BY <1>3, <1>4, ReadIs

\* An end that starts a handshake.
LEMMA StartKeeps ==
  ASSUME Types, SessionInv, NEW e, NEW o, Pair(e, o), Start(e)
  PROVE  SessionInv'
<1>0. SslState(e) /\ SslState(o) /\ Ahead(e) /\ Ahead(o) /\ WireState(e) /\ WireState(o) /\ Answered
  BY DEF SessionInv, Pair
<1>1. /\ status[e] = "running" /\ pos[e] \in Places /\ Script[pos[e]] = "on" /\ ssl[e] \in {"null", "on"}
      /\ pos' = pos /\ status' = status /\ ssl'[e] = "waiting" /\ shut'[e] = {} /\ Still(o)
      /\ wire'[e] = wire[e] /\ Pair(o, e)
      /\ IF e = "client" THEN wire'[o] = Append(wire[o], <<"hello">>) ELSE wire'[o] = wire[o]
  <2>1. status[e] = "running" /\ pos[e] \in Places /\ Script[pos[e]] = "on" /\ ssl[e] \in {"null", "on"}
    BY AtPlace DEF Start
  <2>2. pos' = pos /\ status' = status /\ ssl'[e] = "waiting" /\ shut'[e] = {} /\ Still(o)
    BY DEF Start, Pair, Types, Still
  <2>3. /\ wire'[e] = wire[e]
        /\ IF e = "client" THEN wire'[o] = Append(wire[o], <<"hello">>) ELSE wire'[o] = wire[o]
    BY DEF Start, Pair, Types, Sending
  <2> QED
    BY <2>1, <2>2, <2>3 DEF Pair
<1>2. ~Crossing(e) /\ "sent" \notin shut[e] /\ Script[pos[e]] # o
  BY <1>0, <1>1 DEF Crossing, SslState, Pair, Ends
<1>3. SslState(e)'
  BY <1>0, <1>1 DEF SslState, Places
<1>4. Ahead(e)' /\ Ahead(o)'
  BY <1>0, <1>1, <1>2, AheadStays
<1>5. WireState(e)'
  <2>1. (Hello(e) => Hello(e)') /\ (Reply(e) => Reply(e)')
    BY <1>1, TwoEnds DEF Hello, Reply, Pair, Still
  <2>2. (Notify(e) <=> Notify(e)') /\ (Farewell(e) => Farewell(e)')
    BY <1>1 DEF Notify, Farewell, Pair, Still
  <2> QED
    BY <1>0, <1>1, <2>1, <2>2, SameWire
<1>6. pos[o] <= pos[e]
  BY <1>0, <1>1, <1>2, NotPassed
<1>7. WireState(o)'
  <2>1. CASE e = "client"
    <3>1. status[o] = "running" => Len(wire[o]) = Lag(o)
      BY <1>0, <1>1, <1>2, NothingPartial
    <3>2. pos[o] = pos[e] => ssl[o] # "answered"
      BY <1>0, <1>1, <2>1, TwoEnds, LagIs DEF Answered, Pair
    <3>3. Hello(o)'
      BY <1>1, <1>6, <2>1, <3>2 DEF Hello, Pair, Still
    <3>4. <<"hello">> \in Items /\ Partial(o, <<"hello">>)'
      BY <3>3 DEF Items, Partial
    <3> QED
      BY <1>0, <1>1, <2>1, <3>1, <3>4, Adds
  <2>2. CASE e # "client"
    <3>1. (Hello(o) => Hello(o)') /\ (Reply(o) => Reply(o)')
      BY <1>1, <2>2, TwoEnds DEF Hello, Reply, Pair, Still
    <3>2. (Notify(o) <=> Notify(o)') /\ (Farewell(o) => Farewell(o)')
      BY <1>1, <1>2 DEF Notify, Farewell, Pair, Still
    <3> QED
      BY <1>0, <1>1, <2>2, <3>1, <3>2, SameWire
  <2> QED
    BY <2>1, <2>2
<1>8. Answered'
  BY <1>0, <1>1, TwoEnds DEF Answered, Pair, Ends, Still
<1> QED
  BY <1>0, <1>1, <1>3, <1>4, <1>5, <1>7, <1>8, Assemble

\* The server that answers: the hello is of the place where it is too.
LEMMA AnswerKeeps ==
  ASSUME Types, SessionInv, Answer
  PROVE  SessionInv'
<1> DEFINE e == "server"
           o == "client"
<1>0. Pair(e, o) /\ Pair(o, e)
  BY TwoEnds DEF Pair, Ends
<1>1. SslState(e) /\ SslState(o) /\ Ahead(e) /\ Ahead(o) /\ WireState(e) /\ WireState(o) /\ Answered
  BY <1>0 DEF SessionInv, Pair
<1>2. /\ status[e] = "running" /\ pos[e] \in Places /\ Script[pos[e]] = "on" /\ ssl[e] = "waiting"
      /\ Arrived(e) /\ Head1(e) = "hello"
      /\ pos' = pos /\ status' = status /\ shut' = shut /\ ssl'[e] = "answered" /\ Still(o)
      /\ wire'[e] = Tail(wire[e]) /\ wire'[o] = Append(wire[o], <<"answer">>)
  <2>1. At(e, {"on"}) /\ Arrived(e) /\ ssl[e] = "waiting" /\ Head1(e) = "hello"
    BY DEF Answer, Handshakes
  <2>2. status[e] = "running" /\ pos[e] \in Places /\ Script[pos[e]] = "on"
    BY <1>0, <2>1, AtPlace
  <2>3. pos' = pos /\ status' = status /\ shut' = shut /\ ssl'[e] = "answered" /\ Still(o)
    BY <1>0 DEF Answer, Pair, Types, Still
  <2>4. wire'[e] = Tail(wire[e]) /\ wire'[o] = Append(wire[o], <<"answer">>)
    BY <1>0 DEF Answer, Exchanging, Pair, Types
  <2> QED
    BY <2>1, <2>2, <2>3, <2>4
<1>3. ~Crossing(e) /\ "sent" \notin shut[e] /\ Script[pos[e]] # o
  BY <1>0, <1>1, <1>2 DEF Crossing, SslState, Pair, Ends
<1>4. pos[o] <= pos[e] /\ Len(wire[e]) = 1 /\ Partial(e, Head(wire[e]))
  BY <1>0, <1>1, <1>2, <1>3, HeadIs
<1>5. Hello(e) /\ pos[o] = pos[e] /\ ssl[o] = "waiting"
  <2>1. Hello(e)
    BY <1>2, <1>4 DEF Partial, Head1
  <2> QED
    BY <1>0, <1>4, <2>1, LagIs DEF Hello, Pair
<1> HIDE DEF e, o
<1>6. SslState(e)'
  BY <1>1, <1>2, <1>3 DEF SslState, Places, e
<1>7. Ahead(e)' /\ Ahead(o)'
  BY <1>0, <1>1, <1>2, <1>3, AheadStays
<1>8. WireState(e)'
  <2>1. ~Notify(e)'
    BY <1>0, <1>1, <1>2, <1>5 DEF Notify, SslState, Pair, Still
  <2> QED
    BY <1>0, <1>2, <1>4, <2>1, Empties
<1>9. WireState(o)'
  <2>1. status[o] = "running" => Len(wire[o]) = Lag(o)
    <3>1. ~Hello(o) /\ ~Reply(o) /\ ~Notify(o) /\ ~Farewell(o)
      BY <1>0, <1>2, <1>3 DEF Hello, Reply, Notify, Farewell, Pair, e, o
    <3> QED
      BY <1>0, <1>1, <3>1, LagIs DEF WireState, Partial
  <2>2. Partial(o, <<"answer">>)' /\ <<"answer">> \in Items
    BY <1>0, <1>2, <1>5 DEF Partial, Reply, Items, Pair, e, o
  <2> QED
    BY <1>0, <1>1, <1>2, <2>1, <2>2, Adds
<1>10. Answered'
  BY <1>2, <1>5 DEF Answered, Still, e, o
<1> QED
  BY <1>0, <1>1, <1>2, <1>6, <1>7, <1>8, <1>9, <1>10, Assemble

\* The server whose handshake ends: the client has passed it.
LEMMA AcceptKeeps ==
  ASSUME Types, SessionInv, Accept
  PROVE  SessionInv'
<1> DEFINE e == "server"
           o == "client"
<1>0. Pair(e, o) /\ Pair(o, e)
  BY TwoEnds DEF Pair, Ends
<1>1. SslState(e) /\ SslState(o) /\ Ahead(e) /\ Ahead(o) /\ WireState(e) /\ WireState(o) /\ Answered
  BY <1>0 DEF SessionInv, Pair
<1>2. /\ status[e] = "running" /\ pos[e] \in Places /\ Script[pos[e]] = "on" /\ ssl[e] = "answered"
      /\ Arrived(e) /\ Head1(e) = "finished"
      /\ pos'[e] = pos[e] + 1 /\ status' = status /\ shut' = shut /\ ssl'[e] = "on" /\ Still(o)
      /\ wire'[e] = Tail(wire[e]) /\ wire'[o] = wire[o]
  <2>1. At(e, {"on"}) /\ Arrived(e) /\ ssl[e] = "answered" /\ Head1(e) = "finished"
    BY DEF Accept, Handshakes
  <2>2. status[e] = "running" /\ pos[e] \in Places /\ Script[pos[e]] = "on"
    BY <1>0, <2>1, AtPlace
  <2>3. /\ pos'[e] = pos[e] + 1 /\ status' = status /\ shut' = shut /\ ssl'[e] = "on" /\ Still(o)
    BY <1>0 DEF Accept, Advances, Pair, Types, Still
  <2>4. wire'[e] = Tail(wire[e]) /\ wire'[o] = wire[o]
    BY <1>0 DEF Accept, Receiving, Pair, Types
  <2> QED
    BY <2>1, <2>2, <2>3, <2>4
<1> HIDE DEF e, o
<1>3. pos[e] < pos[o] /\ "sent" \notin shut'[e] /\ pos[e] \in Int /\ pos[o] \in Int
  <2>1. ~Partial(e, Head(wire[e]))
    BY <1>2 DEF Partial, Head1
  <2> QED
    BY <1>0, <1>1, <1>2, <2>1, HeadIs, LagIs DEF SslState
<1>4. SslState(e)'
  <2>1. Mode(pos[e]) = "record"
    BY <1>2, ModeAfter
  <2> QED
    BY <1>1, <1>2, <1>3, <2>1 DEF SslState, Mode
<1>5. Ahead(e)' /\ Ahead(o)'
  BY <1>0, <1>1, <1>2, <1>3, AheadMoves
<1>6. WireState(e)'
  BY <1>0, <1>1, <1>2, <1>3, Consumes
<1>7. WireState(o)'
  BY <1>0, <1>1, <1>2, <1>3, OtherCatchesUp
<1>8. Answered'
  BY <1>2 DEF Answered, e
<1> QED
  BY <1>0, <1>1, <1>2, <1>4, <1>5, <1>6, <1>7, <1>8, Assemble

\* The client whose handshake ends: the server is at the same place and has answered.
LEMMA ConnectKeeps ==
  ASSUME Types, SessionInv, Connect
  PROVE  SessionInv'
<1> DEFINE e == "client"
           o == "server"
<1>0. Pair(e, o) /\ Pair(o, e)
  BY TwoEnds DEF Pair, Ends
<1>1. SslState(e) /\ SslState(o) /\ Ahead(e) /\ Ahead(o) /\ WireState(e) /\ WireState(o) /\ Answered
  BY <1>0 DEF SessionInv, Pair
<1>2. /\ status[e] = "running" /\ pos[e] \in Places /\ Script[pos[e]] = "on" /\ ssl[e] = "waiting"
      /\ Arrived(e) /\ Head1(e) = "answer"
      /\ pos'[e] = pos[e] + 1 /\ status' = status /\ shut' = shut /\ ssl'[e] = "on" /\ Still(o)
      /\ wire'[e] = Tail(wire[e]) /\ wire'[o] = Append(wire[o], <<"finished">>)
  <2>1. At(e, {"on"}) /\ Arrived(e) /\ ssl[e] = "waiting" /\ Head1(e) = "answer"
    BY DEF Connect, Handshakes
  <2>2. status[e] = "running" /\ pos[e] \in Places /\ Script[pos[e]] = "on"
    BY <1>0, <2>1, AtPlace
  <2>3. /\ pos'[e] = pos[e] + 1 /\ status' = status /\ shut' = shut /\ ssl'[e] = "on" /\ Still(o)
    BY <1>0 DEF Connect, Advances, Pair, Types, Still
  <2>4. wire'[e] = Tail(wire[e]) /\ wire'[o] = Append(wire[o], <<"finished">>)
    BY <1>0 DEF Connect, Exchanging, Pair, Types
  <2> QED
    BY <2>1, <2>2, <2>3, <2>4
<1>3. ~Crossing(e) /\ "sent" \notin shut[e] /\ Script[pos[e]] # o /\ Script[pos[e]] # e
  BY <1>0, <1>1, <1>2 DEF Crossing, SslState, Pair, Ends
<1>4. pos[o] <= pos[e] /\ Len(wire[e]) = 1 /\ Partial(e, Head(wire[e]))
  BY <1>0, <1>1, <1>2, <1>3, HeadIs
<1>5. pos[o] = pos[e] /\ ssl[o] = "answered" /\ Crossing(o) /\ pos[e] \in Int
  <2>1. Reply(e)
    BY <1>2, <1>4 DEF Partial, Head1
  <2> QED
    BY <1>0, <1>1, <1>2, <1>4, <2>1, LagIs DEF Reply, Crossing, Pair
<1> HIDE DEF e, o
<1>6. SslState(e)'
  <2>1. Mode(pos[e]) = "record"
    BY <1>2, ModeAfter
  <2> QED
    BY <1>1, <1>2, <1>3, <1>5, <2>1 DEF SslState, Mode
<1>7. Ahead(e)' /\ Ahead(o)'
  BY <1>0, <1>1, <1>2, <1>5, AheadMoves
<1>8. WireState(e)'
  <2>1. ~Notify(e)'
    BY <1>0, <1>2, <1>5 DEF Notify, Pair, Still
  <2> QED
    BY <1>0, <1>2, <1>4, <2>1, Empties
<1>9. WireState(o)'
  <2>1. status[o] = "running" => Len(wire[o]) = Lag(o)
    <3>1. ~Hello(o) /\ ~Reply(o) /\ ~Notify(o) /\ ~Farewell(o)
      BY <1>0, <1>2, <1>3, <1>5 DEF Hello, Reply, Notify, Farewell, Pair, e, o
    <3> QED
      BY <1>0, <1>1, <3>1, LagIs DEF WireState, Partial
  <2>2. Item(e, pos[e]) = <<"finished">> /\ <<"finished">> \in Items
    BY <1>2, <1>3 DEF Item, Items
  <2> QED
    BY <1>0, <1>1, <1>2, <1>3, <1>4, <2>1, <2>2, Passes
<1>10. Answered'
  BY <1>2, <1>5 DEF Answered, Still, e, o
<1> QED
  BY <1>0, <1>1, <1>2, <1>6, <1>7, <1>8, <1>9, <1>10, Assemble

-----------------------------------------------------------------------------
\* An end that stops the session: the notify of the other is never there before.
LEMMA StopKeeps ==
  ASSUME Types, SessionInv, NEW e, NEW o, Pair(e, o), Stop(e)
  PROVE  /\ SessionInv'
         /\ objects' = objects /\ pos' = pos /\ status' = status
         /\ "sent" \in shut'[e] /\ ssl' = ssl
<1>0. SslState(e) /\ SslState(o) /\ Ahead(e) /\ Ahead(o) /\ WireState(e) /\ WireState(o) /\ Answered
  BY DEF SessionInv, Pair
<1>1. /\ status[e] = "running" /\ pos[e] \in Places /\ Script[pos[e]] = "off" /\ ssl[e] = "on"
      /\ "sent" \notin shut[e] /\ Pair(o, e)
  BY AtPlace DEF Stop, Pair
<1>2. ~Ended(e) /\ ~Crossing(e) /\ Script[pos[e]] # o
  BY <1>0, <1>1 DEF Ended, SslState, Crossing, Pair, Ends
<1>3. /\ shut' = [shut EXCEPT ![e] = @ \cup {"sent"}]
      /\ UNCHANGED <<pos, status, ssl, objects>>
  BY <1>2 DEF Stop
<1>4. pos' = pos /\ status' = status /\ Still(o) /\ shut'[e] = shut[e] \cup {"sent"}
  BY <1>3 DEF Types, Pair, Still
<1>5. wire'[e] = wire[e] /\ wire'[o] = Append(wire[o], <<"notify">>)
  BY DEF Stop, Sending, Pair, Types
<1>6. SslState(e)'
  BY <1>0, <1>1, <1>3, <1>4 DEF SslState, Mode, Places
<1>7. Ahead(e)' /\ Ahead(o)'
  BY <1>0, <1>1, <1>2, <1>4, AheadStays
<1>8. WireState(e)'
  <2>1. (Hello(e) => Hello(e)') /\ (Reply(e) => Reply(e)')
    BY <1>3, <1>4 DEF Hello, Reply
  <2>2. (Notify(e) <=> Notify(e)') /\ (Farewell(e) => Farewell(e)')
    BY <1>4 DEF Notify, Farewell, Pair, Still
  <2> QED
    BY <1>0, <1>1, <1>4, <1>5, <2>1, <2>2, SameWire
<1>9. WireState(o)'
  <2>1. pos[o] <= pos[e]
    BY <1>0, <1>1, <1>2, NotPassed
  <2>2. status[o] = "running" => Len(wire[o]) = Lag(o)
    BY <1>0, <1>1, NothingPartial
  <2>3. Partial(o, <<"notify">>)' /\ <<"notify">> \in Items
    BY <1>4, <2>1 DEF Partial, Notify, Items, Pair
  <2> QED
    BY <1>0, <1>4, <1>5, <2>2, <2>3, Adds
<1>10. Answered'
  BY <1>0, <1>3, <1>4 DEF Answered
<1> QED
  BY <1>0, <1>3, <1>4, <1>6, <1>7, <1>8, <1>9, <1>10, Assemble

\* Called again, stop_ssl finds the notify of the other.
LEMMA StopAgainIs ==
  ASSUME Types, SessionInv, NEW e, NEW o, Pair(e, o), StopAgain(e)
  PROVE  /\ status[e] = "running" /\ pos[e] \in Places /\ Script[pos[e]] = "off" /\ ssl[e] = "on"
         /\ "sent" \in shut[e] /\ Arrived(e)
         /\ Free(e) /\ Advances(e) /\ Receiving(e)
         /\ \/ pos[e] < pos[o]
            \/ /\ pos[o] <= pos[e] /\ Len(wire[e]) = 1
               /\ (pos[o] = pos[e] /\ Crossing(o)) \/ status[o] = "destructed"
<1>0. SslState(e) /\ SslState(o) /\ WireState(e) /\ Ahead(o)
  BY DEF SessionInv, Pair
<1>1. /\ status[e] = "running" /\ pos[e] \in Places /\ Script[pos[e]] = "off" /\ ssl[e] = "on"
      /\ "sent" \in shut[e] /\ Arrived(e) /\ Receiving(e)
      /\ Script[pos[e]] # "on" /\ Script[pos[e]] # o
  BY AtPlace DEF StopAgain, Pair, Ends
<1>2. CASE pos[e] < pos[o] /\ Head(wire[e]) = Item(o, pos[e])
  <2>1. Head1(e) = "notify"
    BY <1>1, <1>2 DEF Item, Head1
  <2> QED
    BY <1>1, <1>2, <2>1 DEF StopAgain
<1>3. CASE pos[o] <= pos[e] /\ Len(wire[e]) = 1 /\ Partial(e, Head(wire[e]))
  <2>1. pos[o] \in Int /\ pos[e] \in Int
    BY LagIs
  <2>2. ~Hello(e) /\ ~Reply(e)
    BY <1>0, <1>1, <1>3, <2>1, TwoEnds DEF Hello, Reply, SslState, Pair
  <2>3. Head(wire[e]) = <<"notify">> /\ (Notify(e) \/ Farewell(e))
    BY <1>3, <2>2 DEF Partial
  <2>4. Head1(e) = "notify"
    BY <2>3 DEF Head1
  <2>5. (pos[o] = pos[e] /\ Crossing(o)) \/ status[o] = "destructed"
    BY <1>0, <1>3, <2>1, <2>3 DEF Notify, Farewell, Crossing, SslState, Pair
  <2> QED
    BY <1>1, <1>3, <2>4, <2>5 DEF StopAgain
<1> QED
  BY <1>0, <1>1, <1>2, <1>3, HeadIs

\* An end whose session is stopped at last.
LEMMA StopAgainKeeps ==
  ASSUME Types, SessionInv, NEW e, NEW o, Pair(e, o), StopAgain(e)
  PROVE  SessionInv'
<1>0. SslState(e) /\ SslState(o) /\ Ahead(e) /\ Ahead(o) /\ WireState(e) /\ WireState(o) /\ Answered
  BY DEF SessionInv, Pair
<1>1. /\ status[e] = "running" /\ pos[e] \in Places /\ Script[pos[e]] = "off" /\ ssl[e] = "on"
      /\ "sent" \in shut[e] /\ Arrived(e) /\ Pair(o, e)
      /\ \/ pos[e] < pos[o]
         \/ /\ pos[o] <= pos[e] /\ Len(wire[e]) = 1
            /\ (pos[o] = pos[e] /\ Crossing(o)) \/ status[o] = "destructed"
  BY StopAgainIs DEF Pair
<1>2. /\ pos'[e] = pos[e] + 1 /\ status' = status /\ shut'[e] = {} /\ ssl'[e] = "null" /\ Still(o)
      /\ wire'[e] = Tail(wire[e]) /\ wire'[o] = wire[o]
  <2>1. Free(e) /\ Advances(e) /\ Receiving(e)
    BY StopAgainIs
  <2>2. /\ pos'[e] = pos[e] + 1 /\ status' = status /\ shut'[e] = {} /\ ssl'[e] = "null" /\ Still(o)
    BY <2>1 DEF Free, Advances, Types, Pair, Still
  <2>3. wire'[e] = Tail(wire[e]) /\ wire'[o] = wire[o]
    BY <2>1 DEF Receiving, Types, Pair
  <2> QED
    BY <2>2, <2>3
<1>3. pos[e] \in Int /\ pos[o] \in Int
  BY LagIs
<1>4. SslState(e)'
  <2>1. Mode(pos[e]) = "plain"
    BY <1>1, ModeAfter
  <2> QED
    BY <1>2, <1>3, <2>1 DEF SslState, Mode
<1>5. Ahead(e)' /\ Ahead(o)'
  BY <1>0, <1>1, <1>2, AheadMoves
<1>6. WireState(e)'
  <2>1. CASE pos[e] < pos[o]
    BY <1>0, <1>1, <1>2, <2>1, Consumes
  <2>2. CASE pos[o] <= pos[e] /\ Len(wire[e]) = 1
    <3>1. ~Notify(e)'
      BY <1>2, <1>3, <2>2 DEF Notify, Pair, Still
    <3> QED
      BY <1>2, <2>2, <3>1, Empties
  <2> QED
    BY <1>1, <2>1, <2>2
<1>7. WireState(o)'
  <2>1. CASE pos[e] < pos[o]
    BY <1>0, <1>1, <1>2, <2>1, OtherCatchesUp
  <2>2. CASE pos[o] <= pos[e]
    BY <1>0, <1>1, <1>2, <2>2, NotifyPassed
  <2> QED
    BY <1>3, <2>1, <2>2
<1>8. Answered'
  BY <1>0, <1>1, <1>2, <1>3, TwoEnds DEF Answered, Pair, Ends, Still
<1> QED
  BY <1>0, <1>2, <1>4, <1>5, <1>6, <1>7, <1>8, Assemble

\* An end that gets an exception or has enough: only its status changes.
LEMMA FailsKeeps ==
  ASSUME Types, SessionInv, NEW e, NEW o, Pair(e, o), Fails(e) \/ Breaks(e) \/ GiveUp(e)
  PROVE  SessionInv'
<1>0. SslState(e) /\ SslState(o) /\ Ahead(e) /\ Ahead(o) /\ WireState(e) /\ WireState(o) /\ Answered
  BY DEF SessionInv, Pair
<1>1. /\ status[e] = "running" /\ status'[e] \in {"failed", "left"} /\ Still(o) /\ Pair(o, e)
      /\ UNCHANGED <<pos, ssl, shut, wire>>
  BY DEF Fails, Breaks, GiveUp, Waits, InHandshake, At, Throws, Types, Pair, Still
<1>2. SslState(e)'
  BY <1>0, <1>1 DEF SslState, Mode, Places
<1>3. Ahead(e)' /\ Ahead(o)'
  <2>1. Crossing(e) => Crossing(e)'
    BY <1>1 DEF Crossing, Places
  <2> QED
    BY <1>0, <1>1, <2>1, AheadStays
<1>4. WireState(e)'
  BY <1>1 DEF WireState
<1>5. WireState(o)'
  <2>1. (Hello(o) => Hello(o)') /\ (Reply(o) => Reply(o)') /\ (Notify(o) <=> Notify(o)')
    BY <1>1 DEF Hello, Reply, Notify
  <2>2. Farewell(o) => Farewell(o)'
    BY <1>1 DEF Farewell, Pair
  <2> QED
    BY <1>0, <1>1, <2>1, <2>2, SameWire DEF Still
<1>6. Answered'
  BY <1>0, <1>1 DEF Answered
<1> QED
  BY <1>0, <1>1, <1>2, <1>3, <1>4, <1>5, <1>6, Assemble

\* A destructor that frees the session: the notify that was on its way is its farewell.
LEMMA LastNotify ==
  ASSUME Types, NEW e, NEW o, Pair(e, o), Pair(o, e), WireState(o), SslState(e), Still(o),
         ssl[e] = "on", "sent" \in shut[e], shut'[e] = {}, wire'[o] = wire[o], pos' = pos,
         status[e] # "destructed", status'[e] = "destructed"
  PROVE  WireState(o)'
<1>1. Lag(o)' = Lag(o) /\ pos[o] \in Int /\ pos[e] \in Int
  BY LagIs DEF Lag, Pair
<1>2. ~Hello(o) /\ ~Reply(o) /\ ~Farewell(o) /\ ~Notify(o)'
  BY DEF Hello, Reply, Farewell, Notify, Pair
<1>3. Notify(o) => Farewell(o)'
  <2>1. Mode(pos[e] - 1) = "record"
    BY DEF SslState
  <2>2. pos[o] <= pos[e] /\ pos[o] >= pos[e] => pos[o] = pos[e]
    BY <1>1
  <2> QED
    BY <2>1, <2>2 DEF Notify, Farewell, Pair, Mode
<1>4. Partial(o, wire[o][Lag(o) + 1]) => Partial(o, wire[o][Lag(o) + 1])'
  BY <1>1, <1>2, <1>3 DEF Partial
<1>5. \A i \in 1..Lag(o) :
        wire[o][i] = Item(Other(o), pos[o] + i - 1) => (wire[o][i] = Item(Other(o), pos[o] + i - 1))'
  BY DEF Item, Mode
<1> QED
  BY <1>1, <1>2, <1>4, <1>5 DEF WireState, Still

\* An end that is destroyed, and that stops its session if it has to.
LEMMA DestructKeeps ==
  ASSUME Types, SessionInv, NEW e, NEW o, Pair(e, o), Destruct(e)
  PROVE  SessionInv'
<1>0. SslState(e) /\ SslState(o) /\ Ahead(e) /\ Ahead(o) /\ WireState(e) /\ WireState(o) /\ Answered
  BY DEF SessionInv, Pair
<1>1. /\ status[e] # "destructed" /\ status'[e] = "destructed" /\ pos' = pos /\ Still(o) /\ Pair(o, e)
  <2>1. LastStop(e) \/ LastRead(e) \/ LastFails(e)
    BY DEF Destruct
  <2>2. ssl'[o] = ssl[o] /\ shut'[o] = shut[o]
    BY <2>1 DEF LastStop, LastRead, LastFails, Free, Types, Pair
  <2> QED
    BY <2>2 DEF Destruct, Types, Pair, Still
<1>2. \/ ssl' = ssl /\ shut' = shut
      \/ ssl[e] = "on" /\ ssl'[e] = "null" /\ shut'[e] = {}
  BY DEF Destruct, LastStop, LastRead, LastFails, Free, Types, Pair
<1>3. SslState(e)'
  BY <1>0, <1>1, <1>2 DEF SslState, Mode, Places
<1>4. Ahead(e)' /\ Ahead(o)'
  BY <1>0, <1>1, AheadStays
<1>5. WireState(e)'
  BY <1>1 DEF WireState
<1>6. WireState(o)'
  <2>1. CASE LastStop(e)
    <3>1. wire'[o] = Append(wire[o], <<"notify">>) /\ ssl[e] = "on" /\ "sent" \notin shut[e]
      BY <2>1 DEF LastStop, Sending, Types, Pair
    <3>2. status[o] = "running" => Len(wire[o]) = Lag(o)
      BY <1>0, <1>1, <3>1, NothingPartial
    <3>3. Mode(pos[e] - 1) = "record" /\ (pos[o] >= pos[e] => Mode(pos[o] - 1) = "record")
      <4>1. ASSUME pos[o] >= pos[e] PROVE Mode(pos[o] - 1) = Mode(pos[e] - 1)
        <5>1. ~Crossing(e)
          BY <1>0, <3>1 DEF Crossing, SslState
        <5>2. \A k \in Places : pos[e] <= k /\ k < pos[o] => Script[k] \in Ends
          BY <1>0, <1>1, <5>1 DEF Ahead, Pair
        <5>3. pos[e] \in 1..(Len(Script) + 1) /\ pos[o] \in 1..(Len(Script) + 1) /\ pos[e] <= pos[o]
          BY <4>1, LagIs
        <5> QED
          BY <5>2, <5>3, ModeKept
      <4> QED
        BY <1>0, <3>1, <4>1 DEF SslState
    <3>4. Partial(o, <<"notify">>)' /\ <<"notify">> \in Items
      BY <1>1, <3>3 DEF Partial, Farewell, Items, Pair, Mode
    <3> QED
      BY <1>0, <1>1, <3>1, <3>2, <3>4, Adds
  <2>2. CASE wire'[o] = wire[o] /\ ssl' = ssl /\ shut' = shut
    <3>1. wire'[o] = wire[o] /\ ssl' = ssl /\ shut' = shut
      BY <2>2
    <3>2. (Hello(o) => Hello(o)') /\ (Reply(o) => Reply(o)') /\ (Notify(o) <=> Notify(o)')
      BY <1>1, <3>1 DEF Hello, Reply, Notify
    <3>3. Farewell(o) => Farewell(o)'
      BY <1>1 DEF Farewell, Pair
    <3> QED
      BY <1>0, <1>1, <3>1, <3>2, <3>3, SameWire DEF Still
  <2>3. CASE LastRead(e) /\ Free(e)
    <3>1. /\ ssl[e] = "on" /\ "sent" \in shut[e] /\ shut'[e] = {} /\ wire'[o] = wire[o]
      BY <2>3 DEF LastRead, Free, Receiving, Types, Pair
    <3> QED
      BY <1>0, <1>1, <3>1, LastNotify
  <2>4. LastStop(e) \/ (LastRead(e) /\ Free(e)) \/ (wire'[o] = wire[o] /\ ssl' = ssl /\ shut' = shut)
    BY DEF Destruct, LastRead, LastFails, Receiving, Types, Pair
  <2> QED
    BY <2>1, <2>2, <2>3, <2>4
<1>7. Answered'
  BY <1>0, <1>1, <1>2, TwoEnds DEF Answered, Pair, Ends, Still
<1> QED
  BY <1>0, <1>1, <1>3, <1>4, <1>5, <1>6, <1>7, Assemble

\* No step disturbs the invariant.
LEMMA SessionKept ==
  ASSUME Types, SessionInv, [Next]_vars
  PROVE  SessionInv'
<1>1. ASSUME NEW e \in Ends, Step(e) \/ Breaks(e) \/ GiveUp(e) PROVE SessionInv'
  <2>1. Pair(e, Other(e))
    BY PairOf
  <2> QED
    BY <1>1, <2>1, WriteKeeps, ReadKeeps, StartKeeps, StopKeeps, StopAgainKeeps, FailsKeeps,
       DestructKeeps DEF Step
<1>2. CASE Handshake
  BY <1>2, AnswerKeeps, AcceptKeeps, ConnectKeeps DEF Handshake
<1>3. CASE UNCHANGED vars
  <2>1. UNCHANGED <<pos, status, ssl, shut, wire>>
    BY <1>3 DEF vars
  <2>2. ASSUME NEW e \in Ends PROVE SslState(e)' /\ Ahead(e)' /\ WireState(e)'
    <3>1. Pair(e, Other(e)) /\ SslState(e) /\ Ahead(e) /\ Ahead(Other(e)) /\ WireState(e)
      BY PairOf DEF SessionInv, Pair
    <3>2. SslState(e)'
      BY <2>1, <3>1 DEF SslState, Mode, Places
    <3>3. Ahead(e)'
      BY <2>1, <3>1, AheadStays DEF Still, Crossing, Places
    <3>4. /\ (Hello(e) => Hello(e)') /\ (Reply(e) => Reply(e)')
          /\ (Notify(e) <=> Notify(e)') /\ (Farewell(e) => Farewell(e)')
      BY <2>1 DEF Hello, Reply, Notify, Farewell, Mode
    <3>5. WireState(e)'
      BY <2>1, <3>1, <3>4, SameWire
    <3> QED
      BY <3>2, <3>3, <3>5
  <2>3. Answered'
    BY <2>1 DEF SessionInv, Answered
  <2> QED
    BY <2>2, <2>3 DEF SessionInv
<1> QED
  BY <1>1, <1>2, <1>3 DEF Next

\* Two ends that have done nothing.
LEMMA SessionInit == Init => Types /\ SessionInv
<1> SUFFICES ASSUME Init PROVE Types /\ SessionInv
  OBVIOUS
<1>0. Len(Script) \in Nat /\ Mode(0) = "plain"
  BY ScriptSteps DEF Mode
<1>1. Types
  BY <1>0 DEF Init, Types
<1>2. ASSUME NEW e \in Ends PROVE SslState(e) /\ Ahead(e) /\ WireState(e)
  <2>1. Other(e) \in Ends
    BY TwoEnds
  <2>2. SslState(e)
    BY <1>0 DEF Init, SslState
  <2>3. Ahead(e)
    BY <2>1, ScriptSteps DEF Init, Ahead, Places
  <2>4. Lag(e) = 0 /\ Len(wire[e]) = 0 /\ ~Notify(e)
    BY <2>1 DEF Init, Lag, Notify
  <2> QED
    BY <2>2, <2>3, <2>4 DEF WireState
<1>3. Answered
  BY DEF Init, Answered, Ends
<1> QED
  BY <1>1, <1>2, <1>3 DEF SessionInv

SessionIInv == Types /\ SessionInv

\* The state of both ends and what is on its way between them, for every script.
THEOREM SessionInductive == Spec => []SessionIInv
<1>1. Init => SessionIInv
  BY SessionInit DEF SessionIInv
<1>2. SessionIInv /\ [Next]_vars => SessionIInv'
  BY TypesKept, SessionKept DEF SessionIInv
<1> QED
  BY <1>1, <1>2, PTL DEF Spec

-----------------------------------------------------------------------------
\* A message read is the one of its place.
LEMMA ReadsKept ==
  ASSUME Types, SessionInv, ReadsAreSent, [Next]_vars
  PROVE  ReadsAreSent'
<1> DEFINE Sent(e, p) == {<<Mode(k), k>> : k \in {j \in 1..(p - 1) : Script[j] = Other(e)}}
           Grows(e) == \A i, j \in DOMAIN got[e] : i < j => got[e][i][2] < got[e][j][2]
<1>1. ASSUME NEW e \in Ends PROVE Range(got[e]) = Sent(e, pos[e]) /\ Grows(e)
  BY DEF ReadsAreSent
<1>2. ASSUME NEW e \in Ends, got'[e] = got[e],
             \/ pos'[e] = pos[e]
             \/ pos'[e] = pos[e] + 1 /\ Script[pos[e]] # Other(e)
      PROVE  Range(got'[e]) = Sent(e, pos'[e]) /\ Grows(e)'
  <2>1. pos[e] \in Int /\ pos[e] >= 1
    BY ScriptSteps DEF Types
  <2>2. {j \in 1..(pos'[e] - 1) : Script[j] = Other(e)} = {j \in 1..(pos[e] - 1) : Script[j] = Other(e)}
    BY <1>2, <2>1
  <2>3. Sent(e, pos'[e]) = Sent(e, pos[e])
    BY <2>2
  <2>4. Range(got'[e]) = Range(got[e])
    BY <1>2
  <2> QED
    BY <1>1, <1>2, <2>3, <2>4
<1>3. ASSUME NEW e \in Ends, pos'[e] = pos[e] + 1, Script[pos[e]] = Other(e), pos[e] \in Places,
             got'[e] = Append(got[e], <<Mode(pos[e]), pos[e]>>)
      PROVE  Range(got'[e]) = Sent(e, pos'[e]) /\ Grows(e)'
  <2> DEFINE m == <<Mode(pos[e]), pos[e]>>
             n == Len(got[e])
  <2>1. pos[e] \in Int /\ pos[e] >= 1 /\ got[e] \in Seq(Items) /\ m[2] = pos[e]
    BY ScriptSteps DEF Types
  <2>2. m \in Items
    BY <1>3, ModeAfter DEF Items
  <2>3. /\ n \in Nat /\ DOMAIN got[e] = 1..n /\ DOMAIN got'[e] = 1..(n + 1)
        /\ \A i \in 1..n : got'[e][i] = got[e][i]
        /\ got'[e][n + 1] = m
    <3>1. /\ Append(got[e], m) \in Seq(Items) /\ Len(Append(got[e], m)) = n + 1
          /\ \A i \in 1..n : Append(got[e], m)[i] = got[e][i]
          /\ Append(got[e], m)[n + 1] = m
      BY <2>1, <2>2, AppendProperties
    <3>2. n \in Nat /\ DOMAIN got[e] = 1..n
      BY <2>1, LenProperties
    <3>3. DOMAIN Append(got[e], m) = 1..(n + 1)
      BY <3>1, LenProperties
    <3> HIDE DEF m, n
    <3> QED
      BY <1>3, <3>1, <3>2, <3>3 DEF m
  <2>4. Range(got'[e]) = Range(got[e]) \union {m}
    <3> HIDE DEF m, n
    <3>1. ASSUME NEW x \in Range(got'[e]) PROVE x \in Range(got[e]) \union {m}
      <4>1. PICK i \in 1..(n + 1) : x = got'[e][i]
        BY <2>3, <3>1 DEF Range
      <4>2. i \in 1..n \/ i = n + 1
        BY <2>3
      <4> QED
        BY <2>3, <4>1, <4>2 DEF Range
    <3>2. ASSUME NEW x \in Range(got[e]) PROVE x \in Range(got'[e])
      <4>1. PICK i \in 1..n : x = got[e][i]
        BY <2>3, <3>2 DEF Range
      <4>2. i \in 1..(n + 1)
        BY <2>3
      <4> QED
        BY <2>3, <4>1, <4>2 DEF Range
    <3>3. m \in Range(got'[e])
      <4>1. n + 1 \in 1..(n + 1)
        BY <2>3
      <4> QED
        BY <2>3, <4>1 DEF Range
    <3> QED
      BY <3>1, <3>2, <3>3
  <2>5. Sent(e, pos'[e]) = Sent(e, pos[e]) \union {m}
    <3>1. {j \in 1..(pos'[e] - 1) : Script[j] = Other(e)}
            = {j \in 1..(pos[e] - 1) : Script[j] = Other(e)} \union {pos[e]}
      BY <1>3, <2>1
    <3> QED
      BY <3>1
  <2>6. \A i \in 1..n : got[e][i][2] < pos[e]
    <3>1. ASSUME NEW i \in 1..n PROVE got[e][i][2] < pos[e]
      <4>1. got[e][i] \in Sent(e, pos[e])
        BY <1>1, <2>3 DEF Range
      <4>2. PICK k \in 1..(pos[e] - 1) : got[e][i] = <<Mode(k), k>>
        BY <4>1
      <4> QED
        BY <2>1, <4>2
    <3> QED
      BY <3>1
  <2>7. Grows(e)'
    <3>1. SUFFICES ASSUME NEW i \in 1..(n + 1), NEW j \in 1..(n + 1), i < j
                   PROVE  got'[e][i][2] < got'[e][j][2]
      BY <2>3
    <3>2. i \in 1..n
      BY <2>3, <3>1
    <3>3. CASE j = n + 1
      BY <2>1, <2>3, <2>6, <3>2, <3>3
    <3>4. CASE j # n + 1
      <4>1. j \in 1..n
        BY <2>3, <3>1, <3>4
      <4> QED
        BY <1>1, <2>3, <3>1, <3>2, <4>1
    <3> QED
      BY <3>3, <3>4
  <2> QED
    BY <1>1, <2>4, <2>5, <2>7
<1>4. SUFFICES ASSUME NEW x \in Ends PROVE Range(got'[x]) = Sent(x, pos'[x]) /\ Grows(x)'
  BY <1>4 DEF ReadsAreSent, Mode
<1> HIDE DEF Sent, Grows
<1>5. ASSUME got' = got, NEW e \in Ends, pos' = pos \/ Advances(e), pos[e] \in Places,
             Script[pos[e]] # Other(e)
      PROVE  Range(got'[x]) = Sent(x, pos'[x]) /\ Grows(x)'
  BY <1>2, <1>5 DEF Advances, Types
<1>6. ASSUME got' = got, pos' = pos
      PROVE  Range(got'[x]) = Sent(x, pos'[x]) /\ Grows(x)'
  BY <1>2, <1>6
<1>7. ASSUME NEW e \in Ends, Read(e) PROVE Range(got'[x]) = Sent(x, pos'[x]) /\ Grows(x)'
  <2>1. Pair(e, Other(e))
    BY PairOf
  <2>2. CASE got' = got /\ pos' = pos
    BY <1>6, <2>2
  <2>3. CASE /\ got' = [got EXCEPT ![e] = Append(got[e], <<Mode(pos[e]), pos[e]>>)]
             /\ Advances(e)
    <3>1. pos[e] \in Places /\ Script[pos[e]] = Other(e)
      BY <1>7, <2>1, ReadIs
    <3>2. CASE x = e
      <4>1. pos'[e] = pos[e] + 1 /\ got'[e] = Append(got[e], <<Mode(pos[e]), pos[e]>>)
        BY <2>3 DEF Advances, Types
      <4> QED
        BY <1>3, <3>1, <3>2, <4>1
    <3>3. CASE x # e
      BY <1>2, <2>3, <3>3 DEF Advances, Types
    <3> QED
      BY <3>2, <3>3
  <2> QED
    BY <1>7, <2>1, <2>2, <2>3, ReadIs DEF Throws
<1>8. ASSUME NEW e \in Ends, Write(e) \/ Stop(e) \/ StopAgain(e)
      PROVE  Range(got'[x]) = Sent(x, pos'[x]) /\ Grows(x)'
  <2>1. Pair(e, Other(e))
    BY PairOf
  <2>2. pos[e] \in Places /\ Script[pos[e]] # Other(e)
    BY <1>8, <2>1, AtPlace DEF Write, Stop, StopAgain, Pair, Ends
  <2>3. got' = got /\ (pos' = pos \/ Advances(e))
    BY <1>8 DEF Write, Stop, StopAgain, Throws
  <2> QED
    BY <1>5, <2>2, <2>3
<1>9. ASSUME NEW e \in Ends, Start(e) \/ Fails(e) \/ Breaks(e) \/ GiveUp(e) \/ Destruct(e)
      PROVE  Range(got'[x]) = Sent(x, pos'[x]) /\ Grows(x)'
  BY <1>6, <1>9 DEF Start, Fails, Breaks, GiveUp, Destruct, Throws
<1>10. ASSUME Handshake PROVE Range(got'[x]) = Sent(x, pos'[x]) /\ Grows(x)'
  <2>1. CASE Answer
    BY <1>6, <2>1 DEF Answer
  <2>2. ASSUME NEW e \in Ends, At(e, {"on"}), got' = got, Advances(e)
        PROVE  Range(got'[x]) = Sent(x, pos'[x]) /\ Grows(x)'
    <3>1. Pair(e, Other(e))
      BY PairOf
    <3>2. pos[e] \in Places /\ Script[pos[e]] # Other(e)
      BY <2>2, <3>1, AtPlace DEF Pair, Ends
    <3> QED
      BY <1>5, <2>2, <3>2
  <2> QED
    BY <1>10, <2>1, <2>2 DEF Handshake, Accept, Connect, Handshakes, Ends
<1>11. CASE UNCHANGED vars
  BY <1>6, <1>11 DEF vars
<1> QED
  BY <1>7, <1>8, <1>9, <1>10, <1>11 DEF Next, Step

\* For every script, whoever gives up and whenever: the messages read are those
\* written, in order and each in its mode.
THEOREM EveryReadIsSent == Spec => []ReadsAreSent
<1>1. Init => ReadsAreSent
  BY DEF Init, ReadsAreSent, Range
<1>2. SessionIInv /\ ReadsAreSent /\ [Next]_vars => ReadsAreSent'
  BY ReadsKept DEF SessionIInv
<1> QED
  BY <1>1, <1>2, SessionInductive, PTL DEF Spec

-----------------------------------------------------------------------------
\* A call that fails has found that the other was destroyed, at this place or before.
LEMMA FailsIs ==
  ASSUME Types, SessionInv, NEW e, NEW o, Pair(e, o), Fails(e)
  PROVE  status[o] = "destructed" /\ pos[o] <= pos[e] /\ pos[e] \in Places
<1>0. SslState(e) /\ SslState(o) /\ WireState(e) /\ Ahead(o)
  BY DEF SessionInv, Pair
<1>1. status[e] = "running" /\ pos[e] \in Places /\ pos[e] \in Int /\ pos[o] \in Int
  <2>1. \E steps : At(e, steps)
    BY DEF Fails, Waits, InHandshake
  <2> QED
    BY <2>1, AtPlace, LagIs
<1>2. CASE ~Arrived(e)
  <2>1. status[o] = "destructed" /\ Len(wire[e]) = 0
    BY <1>2, EmptySeq DEF Fails, Pair, Arrived
  <2>2. Lag(e) = 0
    BY <1>0, <1>1, <2>1, LagIs DEF WireState
  <2> QED
    BY <1>1, <2>1, <2>2, LagIs
<1>3. CASE Arrived(e)
  <2>1. /\ Script[pos[e]] = "on" /\ ssl[e] \in {"waiting", "answered"} /\ Head1(e) # Flight(e)
        /\ Script[pos[e]] # o
    BY <1>3, AtPlace DEF Fails, InHandshake, Pair, Ends
  <2>2. CASE pos[e] < pos[o] /\ Head(wire[e]) = Item(o, pos[e]) /\ Crossing(e)
    <3>1. ssl[e] = "answered" /\ e = "server"
      BY <1>0, <2>1, <2>2 DEF Crossing, SslState
    <3>2. Head1(e) = "finished"
      BY <2>1, <2>2 DEF Item, Head1
    <3> QED
      BY <2>1, <3>1, <3>2 DEF Flight
  <2>3. CASE pos[o] <= pos[e] /\ Len(wire[e]) = 1 /\ Partial(e, Head(wire[e]))
    <3>1. ~(Head(wire[e]) = <<"hello">> /\ Hello(e))
      <4>1. ASSUME Hello(e), Head(wire[e]) = <<"hello">> PROVE FALSE
        <5>1. e = "server" /\ pos[o] = pos[e] /\ ssl[e] = "waiting"
          BY <1>1, <2>1, <2>3, <4>1, TwoEnds DEF Hello, Pair
        <5> QED
          BY <2>1, <4>1, <5>1 DEF Flight, Head1
      <4> QED
        BY <4>1
    <3>2. ~(Head(wire[e]) = <<"answer">> /\ Reply(e))
      <4>1. ASSUME Reply(e), Head(wire[e]) = <<"answer">> PROVE FALSE
        <5>1. e = "client" /\ Head1(e) = "answer"
          BY <4>1, TwoEnds DEF Reply, Pair, Head1
        <5>2. Flight(e) = "answer"
          BY <5>1 DEF Flight
        <5> QED
          BY <2>1, <5>1, <5>2
      <4> QED
        BY <4>1
    <3>3. ~Notify(e)
      BY <1>0, <1>1, <2>1, <2>3 DEF Notify, SslState, Pair
    <3>4. Farewell(e)
      BY <2>3, <3>1, <3>2, <3>3 DEF Partial
    <3> QED
      BY <1>1, <2>3, <3>4 DEF Farewell, Pair
  <2> QED
    BY <1>0, <1>1, <1>3, <2>1, <2>2, <2>3, HeadIs
<1> QED
  BY <1>2, <1>3

\* So has one that fails to write: the other has not passed it.
LEMMA BreaksIs ==
  ASSUME Types, SessionInv, NEW e, NEW o, Pair(e, o), Breaks(e)
  PROVE  status[o] = "destructed" /\ pos[o] <= pos[e] /\ pos[e] \in Places
<1>0. Ahead(o) /\ status[o] = "destructed"
  BY DEF SessionInv, Pair, Breaks
<1>1. \E steps : At(e, steps) /\ o \notin steps
  BY DEF Breaks, Pair, Ends
<1>2. status[e] = "running" /\ pos[e] \in Places /\ Script[pos[e]] # o
  BY <1>1, AtPlace
<1>3. ~Crossing(e)
  <2>1. CASE At(e, {e})
    BY <2>1, AtPlace DEF Crossing, Pair, Ends
  <2>2. CASE At(e, {"on"}) /\ ssl[e] = "waiting"
    BY <2>2, AtPlace DEF Crossing
  <2>3. CASE At(e, {"off"}) /\ "sent" \notin shut[e]
    BY <2>3, AtPlace DEF Crossing
  <2> QED
    BY <2>1, <2>2, <2>3 DEF Breaks
<1> QED
  BY <1>0, <1>2, <1>3, NotPassed

\* Nothing happens any more in an end that is not running, but its destruction.
LEMMA Frozen ==
  ASSUME Types, [Next]_vars, NEW e \in Ends, status[e] # "running"
  PROVE  status'[e] # "running" /\ pos'[e] = pos[e]
<1>1. ASSUME NEW x \in Ends, Step(x) \/ Breaks(x) \/ GiveUp(x)
      PROVE  status'[e] # "running" /\ pos'[e] = pos[e]
  <2>1. CASE status[x] = "running"
    <3>1. x # e
      BY <2>1
    <3> QED
      BY <1>1, <3>1 DEF Step, GiveUp, Write, Read, Start, Stop, StopAgain, Fails, Breaks, Destruct,
         Advances, Throws, Types
  <2>2. CASE status[x] # "running"
    <3>1. Destruct(x)
      BY <1>1, <2>2 DEF Step, GiveUp, Write, Read, Start, Stop, StopAgain, Fails, Breaks, Waits,
         InHandshake, At
    <3> QED
      BY <3>1 DEF Destruct, Types
  <2> QED
    BY <2>1, <2>2
<1>2. ASSUME Handshake PROVE status'[e] # "running" /\ pos'[e] = pos[e]
  BY <1>2 DEF Handshake, Answer, Accept, Connect, Handshakes, At, Advances, Types, Ends
<1>3. CASE UNCHANGED vars
  BY <1>3 DEF vars
<1> QED
  BY <1>1, <1>2, <1>3 DEF Next

\* Who gets an exception that is not of its first stop_ssl(): an end whose other is gone.
LEMMA OnlyStopThrowsKept ==
  ASSUME Types, SessionInv, OnlyStopThrows, [Next]_vars
  PROVE  OnlyStopThrows'
<1> SUFFICES ASSUME NEW x \in Ends, status'[x] = "failed"
             PROVE  status'[Other(x)] # "running" /\ pos'[Other(x)] <= Len(Script)
  BY DEF OnlyStopThrows
<1>1. Pair(x, Other(x))
  BY PairOf
<1>2. SUFFICES status[Other(x)] # "running" /\ pos[Other(x)] <= Len(Script)
  BY <1>1, <1>2, Frozen DEF Pair
<1>3. CASE status[x] = "failed"
  BY <1>3 DEF OnlyStopThrows
<1>4. CASE status[x] # "failed"
  <2>1. Read(x) \/ Fails(x) \/ Breaks(x)
    <3>1. ASSUME NEW e \in Ends, Write(e) \/ Start(e) \/ Stop(e) \/ StopAgain(e) \/ GiveUp(e) \/ Destruct(e)
          PROVE  FALSE
      <4>1. Pair(e, Other(e))
        BY PairOf
      <4>2. CASE Write(e)
        <5>1. "sent" \notin shut[e]
          <6>1. SslState(e) /\ Script[pos[e]] = e /\ e # "off"
            BY <4>1, <4>2, AtPlace DEF SessionInv, Pair, Write, Ends
          <6> QED
            BY <6>1 DEF SslState
        <5> QED
          BY <1>4, <4>2, <5>1 DEF Write, Advances
      <4>3. CASE Start(e)
        BY <1>4, <4>3 DEF Start
      <4>4. CASE Stop(e)
        BY <1>4, <4>1, <4>4, StopKeeps
      <4>5. CASE StopAgain(e)
        BY <1>4, <4>1, <4>5, StopAgainIs DEF Advances
      <4>6. CASE GiveUp(e)
        BY <1>4, <4>6 DEF GiveUp, Types
      <4>7. CASE Destruct(e)
        BY <1>4, <4>7 DEF Destruct, Types
      <4> QED
        BY <3>1, <4>2, <4>3, <4>4, <4>5, <4>6, <4>7
    <3>2. ASSUME Handshake PROVE FALSE
      BY <1>4, <3>2 DEF Handshake, Answer, Accept, Connect, Advances
    <3>3. ASSUME UNCHANGED vars PROVE FALSE
      BY <1>4, <3>3 DEF vars
    <3>4. ASSUME NEW e \in Ends, Read(e) \/ Fails(e) \/ Breaks(e) PROVE e = x
      BY <1>4, <3>4 DEF Read, Fails, Breaks, Throws, Advances, Types
    <3> QED
      BY <3>1, <3>2, <3>3, <3>4 DEF Next, Step
  <2>2. CASE Read(x)
    <3>1. status[Other(x)] = "destructed" /\ pos[Other(x)] <= pos[x] /\ pos[x] \in Places
      BY <1>1, <1>4, <2>2, ReadIs DEF Advances
    <3> QED
      BY <1>1, <3>1, LagIs, ScriptSteps DEF Places
  <2>3. CASE Fails(x)
    <3>1. status[Other(x)] = "destructed" /\ pos[Other(x)] <= pos[x] /\ pos[x] \in Places
      BY <1>1, <2>3, FailsIs
    <3> QED
      BY <1>1, <3>1, LagIs, ScriptSteps DEF Places
  <2>4. CASE Breaks(x)
    <3>1. status[Other(x)] = "destructed" /\ pos[Other(x)] <= pos[x] /\ pos[x] \in Places
      BY <1>1, <2>4, BreaksIs
    <3> QED
      BY <1>1, <3>1, LagIs, ScriptSteps DEF Places
  <2> QED
    BY <2>1, <2>2, <2>3, <2>4
<1> QED
  BY <1>3, <1>4

\* For every script, and without a hypothesis on what the users do with the exception
\* of their first stop_ssl(): no other call throws while the other end follows the script
\* or when it has finished.
THEOREM NothingElseThrows == Spec => []OnlyStopThrows
<1>1. Init => OnlyStopThrows
  BY DEF Init, OnlyStopThrows
<1>2. SessionIInv /\ OnlyStopThrows /\ [Next]_vars => OnlyStopThrows'
  BY OnlyStopThrowsKept DEF SessionIInv
<1> QED
  BY <1>1, <1>2, SessionInductive, PTL DEF Spec

-----------------------------------------------------------------------------
\* The ways the list of what an end has written changes: it passes a place having written
\* all that it needs there, or it begins to write, or nothing is written.
LEMMA WireBoundMoves ==
  ASSUME NEW e \in Ends, WireBound(e), NEW n \in Nat, NEW m \in Nat, NEW p \in Nat, p >= 1,
         pos[e] = p, Len(wire[Other(e)]) = n, Len(wire'[Other(e)]) = m,
         \/ pos'[e] = p + 1 /\ m <= n + 1
         \/ /\ pos'[e] = p /\ m <= n
            /\ Writing(e) => Writing(e)'
            /\ p = 1 /\ ssl'[e] = "null" => ssl[e] = "null"
         \/ /\ pos'[e] = p /\ m <= n + 1
            /\ ~Writing(e) /\ Writing(e)' /\ ~(p = 1 /\ ssl'[e] = "null")
  PROVE  WireBound(e)'
<1>1. n <= 2 * p - 1 /\ (~Writing(e) => n <= 2 * p - 2) /\ (ssl[e] = "null" /\ p = 1 => n = 0)
  BY DEF WireBound
<1>2. CASE pos'[e] = p + 1 /\ m <= n + 1
  <2>1. m <= 2 * pos'[e] - 2 /\ m <= 2 * pos'[e] - 1 /\ pos'[e] # 1
    BY <1>1, <1>2
  <2> QED
    BY <2>1 DEF WireBound
<1>3. CASE pos'[e] = p /\ m <= n /\ (Writing(e) => Writing(e)') /\ (p = 1 /\ ssl'[e] = "null" => ssl[e] = "null")
  <2>1. m <= 2 * pos'[e] - 1
    BY <1>1, <1>3
  <2>2. ~Writing(e)' => m <= 2 * pos'[e] - 2
    BY <1>1, <1>3
  <2>3. ssl'[e] = "null" /\ pos'[e] = 1 => m = 0
    BY <1>1, <1>3
  <2> QED
    BY <2>1, <2>2, <2>3 DEF WireBound
<1>4. CASE pos'[e] = p /\ m <= n + 1 /\ ~Writing(e) /\ Writing(e)' /\ ~(p = 1 /\ ssl'[e] = "null")
  <2>1. m <= 2 * pos'[e] - 1
    BY <1>1, <1>4
  <2> QED
    BY <1>4, <2>1 DEF WireBound
<1> QED
  BY <1>2, <1>3, <1>4

\* What the steps of an end add to what the other has to read.
LEMMA OwnWireBound ==
  ASSUME Types, SessionInv, NEW e, NEW o, Pair(e, o), WireBound(e),
         \/ Step(e)
         \/ Breaks(e) \/ GiveUp(e)
         \/ e = "server" /\ (Answer \/ Accept)
         \/ e = "client" /\ Connect
  PROVE  WireBound(e)'
<1>0. /\ pos[e] \in Nat /\ pos[e] >= 1 /\ wire[o] \in Seq(Items) /\ Len(wire[o]) \in Nat
      /\ SslState(e) /\ e \in Ends /\ o = Other(e)
  BY LagIs DEF Types, SessionInv, Pair
<1>1. \A item : Len(Append(wire[o], item)) = Len(wire[o]) + 1
  BY <1>0
<1>2. ssl[e] = "on" => pos[e] # 1
  <2>1. Mode(0) = "plain"
    BY DEF Mode
  <2> QED
    BY <1>0, <2>1 DEF SslState
<1>3. CASE Write(e)
  <2>1. CASE Throws(e) /\ UNCHANGED wire
    <3>1. pos' = pos /\ ssl' = ssl /\ shut' = shut /\ wire' = wire
      BY <1>3, <2>1 DEF Write, Throws
    <3>2. status[e] = "running"
      BY <1>3, AtPlace DEF Write
    <3>3. Writing(e) => Writing(e)'
      BY <3>1, <3>2 DEF Writing
    <3> QED
      BY <1>0, <3>1, <3>3, WireBoundMoves
  <2>2. CASE Advances(e) /\ Sending(e, Message(e, Kind(e)))
    <3>1. pos'[e] = pos[e] + 1 /\ Len(wire'[o]) = Len(wire[o]) + 1
      BY <1>1, <2>2 DEF Advances, Sending, Types, Pair
    <3> QED
      BY <1>0, <3>1, WireBoundMoves
  <2> QED
    BY <1>3, <2>1, <2>2 DEF Write
<1>4. CASE Read(e)
  <2>1. wire'[o] = wire[o]
    BY <1>4, ReadIs DEF Types, Pair
  <2>2. CASE Advances(e)
    BY <1>0, <2>1, <2>2, WireBoundMoves DEF Advances, Types
  <2>3. CASE Throws(e)
    <3>1. ~Writing(e) /\ ssl' = ssl
      BY <1>4, ReadIs DEF Writing
    <3> QED
      BY <1>0, <2>1, <2>3, <3>1, WireBoundMoves DEF Throws
  <2> QED
    BY <1>4, <2>2, <2>3 DEF Read
<1>5. CASE Start(e)
  <2>1. /\ ssl[e] \in {"null", "on"} /\ "sent" \notin shut[e] /\ status[e] = "running"
        /\ pos' = pos /\ status' = status /\ ssl'[e] = "waiting"
    BY <1>0, <1>5, AtPlace DEF SslState, Start, Types
  <2>2. ~Writing(e)
    BY <2>1 DEF Writing
  <2>3. CASE e = "client"
    <3>1. Len(wire'[o]) = Len(wire[o]) + 1 /\ Writing(e)'
      BY <1>1, <1>5, <2>1, <2>3 DEF Start, Sending, Writing, Types, Pair
    <3> QED
      BY <1>0, <2>1, <2>2, <3>1, WireBoundMoves
  <2>4. CASE e # "client"
    BY <1>0, <1>5, <2>1, <2>2, <2>4, WireBoundMoves DEF Start
  <2> QED
    BY <2>3, <2>4
<1>6. CASE e = "server" /\ Answer
  <2>1. /\ pos' = pos /\ ssl'[e] = "answered" /\ ssl[e] = "waiting" /\ status[e] = "running"
        /\ "sent" \notin shut[e] /\ Len(wire'[o]) = Len(wire[o]) + 1
    BY <1>0, <1>1, <1>6, AtPlace DEF Answer, Handshakes, Exchanging, SslState, Types, Pair
  <2> QED
    BY <1>0, <1>6, <2>1, WireBoundMoves DEF Writing
<1>7. CASE e = "server" /\ Accept
  <2>1. pos'[e] = pos[e] + 1 /\ wire'[o] = wire[o]
    BY <1>7 DEF Accept, Receiving, Advances, Types, Pair
  <2> QED
    BY <1>0, <2>1, WireBoundMoves
<1>8. CASE e = "client" /\ Connect
  <2>1. pos'[e] = pos[e] + 1 /\ Len(wire'[o]) = Len(wire[o]) + 1
    BY <1>1, <1>8 DEF Connect, Exchanging, Advances, Types, Pair
  <2> QED
    BY <1>0, <2>1, WireBoundMoves
<1>9. CASE Stop(e)
  <2>1. /\ ssl[e] = "on" /\ "sent" \notin shut[e] /\ status[e] = "running"
        /\ pos' = pos /\ ssl' = ssl /\ "sent" \in shut'[e]
    BY <1>9, AtPlace, StopKeeps DEF Stop
  <2>2. Len(wire'[o]) = Len(wire[o]) + 1
    BY <1>1, <1>9 DEF Stop, Sending, Types, Pair
  <2> QED
    BY <1>0, <2>1, <2>2, WireBoundMoves DEF Writing
<1>10. CASE StopAgain(e)
  <2>1. pos'[e] = pos[e] + 1 /\ wire'[o] = wire[o]
    BY <1>10, StopAgainIs DEF Advances, Receiving, Types, Pair
  <2> QED
    BY <1>0, <2>1, WireBoundMoves
<1>11. CASE Fails(e) \/ Breaks(e) \/ GiveUp(e)
  <2>1. status[e] = "running" /\ UNCHANGED <<pos, ssl, shut, wire>>
    BY <1>11 DEF Fails, Breaks, GiveUp, Waits, InHandshake, At, Throws
  <2> QED
    BY <1>0, <2>1, WireBoundMoves DEF Writing
<1>12. CASE Destruct(e)
  <2>1. pos' = pos /\ status[e] # "destructed" /\ status'[e] = "destructed" /\ Writing(e)'
    BY <1>12 DEF Destruct, Writing, Types, Pair
  <2>2. ssl'[e] = ssl[e] \/ ssl[e] = "on"
    BY <1>12 DEF Destruct, LastStop, LastRead, LastFails
  <2>3. CASE LastStop(e)
    <3>1. Len(wire'[o]) = Len(wire[o]) + 1 /\ ~Writing(e) /\ ssl[e] = "on"
      BY <1>1, <2>1, <2>3 DEF LastStop, Sending, Writing, Types, Pair
    <3> QED
      BY <1>0, <1>2, <2>1, <3>1, WireBoundMoves
  <2>4. CASE LastRead(e) \/ LastFails(e)
    <3>1. wire'[o] = wire[o]
      BY <2>4 DEF LastRead, LastFails, Receiving, Types, Pair
    <3> QED
      BY <1>0, <1>2, <2>1, <2>2, <3>1, WireBoundMoves
  <2> QED
    BY <1>12, <2>3, <2>4 DEF Destruct
<1> QED
  BY <1>3, <1>4, <1>5, <1>6, <1>7, <1>8, <1>9, <1>10, <1>11, <1>12 DEF Step

\* What the steps of an end add to what it has allocated.
LEMMA OwnObjectBound ==
  ASSUME Types, SessionInv, NEW e, NEW o, Pair(e, o), ObjectBound(e),
         \/ Step(e)
         \/ Breaks(e) \/ GiveUp(e)
         \/ e = "server" /\ (Answer \/ Accept)
         \/ e = "client" /\ Connect
  PROVE  ObjectBound(e)'
<1>0. /\ pos[e] \in Int /\ objects[e] \in Int /\ SslState(e) /\ e \in Ends
      /\ pos \in [Ends -> 1..(Len(Script) + 1)] /\ objects \in [Ends -> Int]
      /\ ssl \in [Ends -> {"null", "waiting", "answered", "on"}]
  BY LagIs DEF Types, SessionInv, Pair
<1>1. ASSUME ssl'[e] = ssl[e], objects'[e] = objects[e], pos'[e] = pos[e] \/ pos'[e] = pos[e] + 1
      PROVE  ObjectBound(e)'
  BY <1>0, <1>1 DEF ObjectBound
<1>2. ASSUME ssl[e] = "on", objects'[e] = objects[e] - 1, pos'[e] = pos[e] \/ pos'[e] = pos[e] + 1,
             ssl'[e] = "null"
      PROVE  ObjectBound(e)'
  BY <1>0, <1>2 DEF ObjectBound
<1>3. CASE Write(e) \/ Read(e) \/ Fails(e) \/ Breaks(e) \/ GiveUp(e)
  <2>1. ssl' = ssl /\ objects' = objects
    BY <1>3 DEF Write, Read, Fails, Breaks, GiveUp
  <2>2. pos'[e] = pos[e] \/ pos'[e] = pos[e] + 1
    BY <1>0, <1>3 DEF Write, Read, Fails, Breaks, GiveUp, Advances, Throws
  <2> QED
    BY <1>1, <2>1, <2>2
<1>4. CASE Start(e)
  <2>1. ssl[e] \in {"null", "on"} /\ pos'[e] = pos[e] /\ ssl'[e] = "waiting" /\ objects'[e] = objects[e] + 1
    BY <1>0, <1>4 DEF Start
  <2> QED
    BY <1>0, <2>1 DEF ObjectBound
<1>5. CASE e = "server" /\ Answer
  <2>1. ssl[e] = "waiting" /\ pos'[e] = pos[e] /\ ssl'[e] = "answered" /\ objects'[e] = objects[e]
    BY <1>0, <1>5 DEF Answer, Handshakes
  <2> QED
    BY <1>0, <2>1 DEF ObjectBound
<1>6. CASE (e = "server" /\ Accept) \/ (e = "client" /\ Connect)
  <2>1. /\ ssl[e] \in {"waiting", "answered"} /\ pos'[e] = pos[e] + 1 /\ ssl'[e] = "on"
        /\ objects'[e] = objects[e]
    BY <1>0, <1>6 DEF Accept, Connect, Handshakes, Advances
  <2> QED
    BY <1>0, <2>1 DEF ObjectBound
<1>7. CASE Stop(e)
  BY <1>1, <1>7, StopKeeps
<1>8. CASE StopAgain(e)
  BY <1>0, <1>2, <1>8, StopAgainIs DEF Free, Freed, Advances
<1>9. CASE Destruct(e)
  <2>1. CASE ssl[e] = "on" /\ Free(e)
    BY <1>0, <1>2, <1>9, <2>1 DEF Destruct, Free, Freed
  <2>2. CASE UNCHANGED <<ssl, objects>>
    BY <1>1, <1>9, <2>2 DEF Destruct
  <2> QED
    BY <1>9, <2>1, <2>2 DEF Destruct, LastStop, LastRead, LastFails
<1> QED
  BY <1>3, <1>4, <1>5, <1>6, <1>7, <1>8, <1>9 DEF Step

\* The other only takes from it.
LEMMA OtherBound ==
  ASSUME Types, NEW e, NEW o, Pair(e, o), WireBound(e), ObjectBound(e),
         \/ Step(o)
         \/ Breaks(o) \/ GiveUp(o)
         \/ o = "server" /\ (Answer \/ Accept)
         \/ o = "client" /\ Connect
  PROVE  WireBound(e)' /\ ObjectBound(e)'
<1>1. Still(e) /\ objects'[e] = objects[e]
  <2>1. CASE Step(o) \/ Breaks(o) \/ GiveUp(o)
    BY <2>1 DEF Step, GiveUp, Write, Read, Start, Stop, StopAgain, Fails, Breaks, Destruct, LastStop,
       LastRead, LastFails, Free, Advances, Throws, Types, Pair, Still
  <2>2. CASE o = "server" /\ (Answer \/ Accept)
    BY <2>2 DEF Answer, Accept, Advances, Types, Pair, Still
  <2>3. CASE o = "client" /\ Connect
    BY <2>3 DEF Connect, Advances, Types, Pair, Still
  <2> QED
    BY <2>1, <2>2, <2>3
<1>2. wire'[o] = wire[o] \/ (wire[o] # <<>> /\ wire'[o] = Tail(wire[o]))
  <2>1. CASE Step(o) \/ Breaks(o) \/ GiveUp(o)
    BY <2>1, TwoEnds DEF Step, GiveUp, Write, Read, Start, Stop, StopAgain, Fails, Breaks, Destruct,
       LastStop, LastRead, LastFails, Sending, Receiving, Arrived, Types, Pair
  <2>2. CASE o = "server" /\ (Answer \/ Accept)
    BY <2>2, TwoEnds DEF Answer, Accept, Handshakes, Arrived, Exchanging, Receiving, Types, Pair
  <2>3. CASE o = "client" /\ Connect
    BY <2>3, TwoEnds DEF Connect, Handshakes, Arrived, Exchanging, Types, Pair
  <2> QED
    BY <2>1, <2>2, <2>3
<1>3. wire[o] \in Seq(Items) /\ Len(wire[o]) \in Nat /\ pos[e] \in Nat /\ pos[e] >= 1 /\ o = Other(e) /\ e \in Ends
  <2>1. wire[o] \in Seq(Items)
    BY DEF Types, Pair
  <2> QED
    BY <2>1, LagIs, LenProperties DEF Pair
<1>4. Len(wire'[o]) \in Nat /\ Len(wire'[o]) <= Len(wire[o])
  <2>1. CASE wire'[o] = wire[o]
    BY <1>3, <2>1
  <2>2. CASE wire[o] # <<>> /\ wire'[o] = Tail(wire[o])
    <3>1. Len(Tail(wire[o])) = Len(wire[o]) - 1 /\ Tail(wire[o]) \in Seq(Items)
      BY <1>3, <2>2, HeadTailProperties
    <3>2. Len(Tail(wire[o])) \in Nat
      BY <3>1, LenProperties
    <3> QED
      BY <1>3, <2>2, <3>1, <3>2
  <2> QED
    BY <1>2, <2>1, <2>2
<1>5. WireBound(e)'
  BY <1>1, <1>3, <1>4, WireBoundMoves DEF Writing, Still
<1> QED
  BY <1>1, <1>5 DEF ObjectBound, Still

\* The bounds of both ends.
LEMMA BoundsKept ==
  ASSUME Types, SessionInv, Bounds, [Next]_vars
  PROVE  Bounds'
<1> SUFFICES ASSUME NEW e \in Ends PROVE WireBound(e)' /\ ObjectBound(e)'
  BY DEF Bounds
<1>1. Pair(e, Other(e)) /\ WireBound(e) /\ ObjectBound(e)
  BY PairOf DEF Bounds
<1>2. CASE \E x \in Ends : Step(x) \/ Breaks(x) \/ GiveUp(x)
  <2>1. PICK x \in Ends : Step(x) \/ Breaks(x) \/ GiveUp(x)
    BY <1>2
  <2>2. x = e \/ x = Other(e)
    BY <1>1 DEF Pair
  <2> QED
    BY <1>1, <2>1, <2>2, OwnWireBound, OwnObjectBound, OtherBound
<1>3. CASE Handshake
  <2>1. \/ e = "server" /\ Other(e) = "client"
        \/ e = "client" /\ Other(e) = "server"
    BY <1>1, TwoEnds DEF Ends
  <2>2. CASE (e = "server" /\ (Answer \/ Accept)) \/ (e = "client" /\ Connect)
    BY <1>1, <2>2, OwnWireBound, OwnObjectBound
  <2>3. CASE (Other(e) = "server" /\ (Answer \/ Accept)) \/ (Other(e) = "client" /\ Connect)
    <3>1. Other(e) \in Ends /\ Pair(e, Other(e))
      BY <1>1 DEF Pair
    <3> QED
      BY <1>1, <2>3, <3>1, OtherBound
  <2> QED
    BY <1>3, <2>1, <2>2, <2>3 DEF Handshake
<1>4. CASE UNCHANGED vars
  BY <1>1, <1>4 DEF vars, WireBound, Writing, ObjectBound
<1> QED
  BY <1>2, <1>3, <1>4 DEF Next

SslIInv == SessionIInv /\ Bounds

\* The invariant of the two ends and the bounds of what they keep, for every script.
LEMMA SslInductive == Spec => []SslIInv
<1>1. Init => SslIInv
  <2>1. ASSUME Init, NEW e \in Ends PROVE WireBound(e) /\ ObjectBound(e)
    <3>1. Other(e) \in Ends
      BY TwoEnds
    <3> QED
      BY <2>1, <3>1 DEF Init, WireBound, Writing, ObjectBound
  <2> QED
    BY <2>1, SessionInit DEF SslIInv, SessionIInv, Bounds
<1>2. SslIInv /\ [Next]_vars => SslIInv'
  BY TypesKept, SessionKept, BoundsKept DEF SslIInv, SessionIInv
<1> QED
  BY <1>1, <1>2, PTL DEF Spec

\* The bounds of TypeOK: an object at most for each step of the script, three items for
\* each on their way.
LEMMA BoundsTypeOK == SslIInv => TypeOK
<1> SUFFICES ASSUME SslIInv PROVE TypeOK
  OBVIOUS
<1>1. ASSUME NEW e \in Ends PROVE objects[e] \in 0..Len(Script) /\ Len(wire[Other(e)]) <= Len(Script) * 3
  <2>1. /\ WireBound(e) /\ ObjectBound(e) /\ SslState(e) /\ Pair(e, Other(e)) /\ Pair(Other(e), e)
    BY <1>1, PairOf DEF SslIInv, SessionIInv, Bounds, SessionInv
  <2>2. /\ pos[e] \in 1..(Len(Script) + 1) /\ Len(Script) \in Nat /\ objects[e] \in Int
        /\ ssl[e] \in {"null", "waiting", "answered", "on"} /\ Len(wire[Other(e)]) \in Nat
    BY <1>1, <2>1, LagIs, ScriptSteps DEF SslIInv, SessionIInv, Types
  <2>3. objects[e] \in 0..Len(Script)
    BY <2>1, <2>2 DEF ObjectBound, SslState, Places
  <2>4. Len(wire[Other(e)]) <= Len(Script) * 3
    <3>1. CASE Len(Script) = 0
      <4>1. pos[e] = 1 /\ ssl[e] = "null"
        BY <2>1, <2>2, <3>1 DEF SslState, Places, Mode
      <4> QED
        BY <2>1, <2>2, <3>1, <4>1 DEF WireBound
    <3>2. CASE Len(Script) # 0
      BY <2>1, <2>2, <3>2 DEF WireBound
    <3> QED
      BY <3>1, <3>2
  <2> QED
    BY <2>3, <2>4
<1>2. \A e \in Ends : Len(wire[e]) <= Len(Script) * 3
  BY <1>1, TwoEnds
<1>3. Types
  BY DEF SslIInv, SessionIInv
<1> QED
  BY <1>1, <1>2, <1>3 DEF Types, TypeOK

\* Under a balanced script an end allocates when it has nothing, and frees all it has.
LEMMA OneObjectKept ==
  ASSUME Balanced, Types, SessionInv, OneObject, [Next]_vars
  PROVE  OneObject'
<1> SUFFICES ASSUME NEW x \in Ends PROVE objects'[x] = IF ssl'[x] = "null" THEN 0 ELSE 1
  BY DEF OneObject
<1>1. objects[x] = (IF ssl[x] = "null" THEN 0 ELSE 1) /\ objects \in [Ends -> Int]
  BY DEF OneObject, Types
<1>2. ASSUME NEW e \in Ends, Start(e) PROVE objects'[x] = IF ssl'[x] = "null" THEN 0 ELSE 1
  <2>1. ssl[e] = "null"
    <3>1. SslState(e) /\ pos[e] \in Places /\ Script[pos[e]] = "on" /\ ssl[e] \in {"null", "on"}
      BY <1>2, PairOf, AtPlace DEF SessionInv, Start
    <3> QED
      BY <3>1 DEF Balanced, SslState
  <2> QED
    BY <1>1, <1>2, <2>1 DEF Start, OneObject, Types
<1>3. ASSUME NEW e \in Ends, StopAgain(e) PROVE objects'[x] = IF ssl'[x] = "null" THEN 0 ELSE 1
  <2>1. ssl[e] = "on" /\ Free(e)
    BY <1>3, PairOf, StopAgainIs
  <2> QED
    BY <1>1, <2>1 DEF Free, Freed, OneObject, Types
<1>4. ASSUME NEW e \in Ends, Stop(e) PROVE objects'[x] = IF ssl'[x] = "null" THEN 0 ELSE 1
  <2>1. UNCHANGED <<ssl, objects>>
    BY <1>4, PairOf, StopKeeps
  <2> QED
    BY <1>1, <2>1
<1>5. ASSUME NEW e \in Ends, Destruct(e) PROVE objects'[x] = IF ssl'[x] = "null" THEN 0 ELSE 1
  <2>1. UNCHANGED <<ssl, objects>> \/ (ssl[e] = "on" /\ Free(e))
    BY <1>5 DEF Destruct, LastStop, LastRead, LastFails
  <2> QED
    BY <1>1, <2>1 DEF Free, Freed, OneObject, Types
<1>6. ASSUME NEW e \in Ends, Write(e) \/ Read(e) \/ Fails(e) \/ Breaks(e) \/ GiveUp(e)
      PROVE  objects'[x] = IF ssl'[x] = "null" THEN 0 ELSE 1
  BY <1>1, <1>6 DEF Write, Read, Fails, Breaks, GiveUp
<1>7. ASSUME Handshake PROVE objects'[x] = IF ssl'[x] = "null" THEN 0 ELSE 1
  BY <1>1, <1>7 DEF Handshake, Answer, Accept, Connect, Handshakes, Types
<1>8. CASE UNCHANGED vars
  BY <1>1, <1>8 DEF vars
<1> QED
  BY <1>2, <1>3, <1>4, <1>5, <1>6, <1>7, <1>8 DEF Next, Step

\* The state is well-typed, for every script, and what an end keeps is bounded by it.
THEOREM SslTypeCorrect == Spec => []TypeOK
BY SslInductive, BoundsTypeOK, PTL

\* For every script that ends in the plain mode and does not switch to SSL mode twice,
\* whoever fails, gives up and is destroyed, and whenever: ssl_sock is NULL exactly when
\* its session is freed, so that none is used after that; none is left by a switch, nor
\* when an end has come to the end of the script.
THEOREM SslSafe == ASSUME Balanced PROVE Spec => []SslInv
<1>1. Init => OneObject
  BY DEF Init, OneObject
<1>2. SslIInv /\ OneObject /\ [Next]_vars => OneObject'
  BY OneObjectKept DEF SslIInv, SessionIInv
<1>3. SslIInv /\ OneObject => SslInv
  <2>1. ASSUME SslIInv, OneObject, NEW e \in Ends, pos[e] > Len(Script) PROVE objects[e] = 0
    <3>1. /\ SslState(e) /\ pos[e] \in 1..(Len(Script) + 1) /\ Len(Script) \in Nat
          /\ ssl[e] \in {"null", "waiting", "answered", "on"}
      BY <2>1, ScriptSteps DEF SslIInv, SessionIInv, SessionInv, Types
    <3>2. pos[e] - 1 = Len(Script) /\ pos[e] \notin Places
      BY <2>1, <3>1 DEF Places
    <3>3. ssl[e] = "null"
      BY <3>1, <3>2 DEF SslState, Balanced
    <3> QED
      BY <2>1, <3>3 DEF OneObject
  <2> QED
    BY <2>1, BoundsTypeOK DEF SslInv, NothingLeaks
<1> QED
  BY <1>1, <1>2, <1>3, SslInductive, PTL DEF Spec

=============================================================================
