------------------------------- MODULE Handle -------------------------------
(***************************************************************************)
(* Reference-counted descriptor handles: base_fd, base_socket, and the     *)
(* socket-sending operations of simple_socket.                             *)
(*                                                                         *)
(* A handle is a C++ object.  Handles copied from one another share one    *)
(* reference count and one _shrd_data (autoclose, preserve_fd); each has   *)
(* its own copy of the descriptor number.  A destructor is not atomic: it  *)
(* runs ~base_socket, which acts if REFCXX_WILL_DESTRUCT sees that it will *)
(* be the last, then ~base_fd, which decrements and acts if it was.        *)
(* Handles that share a descriptor may be destroyed by different threads   *)
(* (wait_new_client_threaded hands one copy to the new thread and returns  *)
(* another), so the stages of their destructors interleave.                *)
(*                                                                         *)
(* All descriptors of the model refer to one connection: the first one is  *)
(* given by the program, the others are dup()ed from it by o_sock.         *)
(***************************************************************************)
EXTENDS Naturals, FiniteSets

CONSTANTS Handles,      \* the C++ objects
          Descs,        \* descriptor numbers; each is used at most once
          NoDesc,       \* SOCKETXX_INVALID_HANDLE, and "no group yet"
          Wire,         \* stands for a descriptor travelling in a message
          Classes       \* the classes the program's handles have

ASSUME HandleAssumption ==
  /\ IsFiniteSet(Handles)
  /\ NoDesc \notin Descs
  /\ Wire \notin Handles
  /\ "base_fd" \in Classes
  /\ Classes \subseteq {"base_fd", "base_socket"}

VARIABLES
  pc,        \* "none", "live", or the destructor the handle has to run next
  class,     \* the class of each handle, which decides its destructors
  desc,      \* the group (count, shared data) of a handle
  valid,     \* the handle's own fd field is not SOCKETXX_INVALID_HANDLE
  refs,      \* the reference count of each group
  autoclose, \* the groups created with autoclose
  preserve,  \* the groups with preserve_fd
  shared,    \* the groups whose _shrd_data is allocated
  closes,    \* how often ::close() was called on each descriptor
  shut,      \* the descriptors through which ::shutdown() was called
  origin,    \* the descriptor each was dup()ed from, itself for the first
  wire,      \* the descriptors sent by o_sock and not yet received
  leaked     \* the descriptors whose o_sock threw after dup()

vars == <<pc, class, desc, valid, refs, autoclose, preserve, shared, closes, shut,
          origin, wire, leaked>>
system == <<origin, wire, leaked>>

TypeOK ==
  /\ pc \in [Handles -> {"none", "live", "base_socket", "base_fd"}]
  /\ class \in [Handles -> Classes]
  /\ desc \in [Handles -> Descs \cup {NoDesc}]
  /\ valid \in [Handles -> BOOLEAN]
  /\ refs \in [Descs -> Nat]
  /\ autoclose \in SUBSET Descs
  /\ preserve \in SUBSET Descs
  /\ shared \in SUBSET Descs
  /\ closes \in [Descs -> Nat]
  /\ shut \in SUBSET Descs
  /\ origin \in [Descs -> Descs \cup {NoDesc}]
  /\ wire \in SUBSET Descs
  /\ leaked \in SUBSET Descs

-----------------------------------------------------------------------------
Group(d) == {h \in Handles : desc[h] = d}
Unborn(d) == origin[d] = NoDesc

\* The descriptors the library closes: one in a message is received as an
\* autoclose one.
Managed == autoclose \cup {d \in Descs : origin[d] \notin {d, NoDesc}}

\* A live object can be used by the thread that owns it, whatever the
\* destructors of its copies are doing in other threads.
Usable(h) == pc[h] = "live"

Init ==
  /\ pc = [h \in Handles |-> "none"]
  /\ class = [h \in Handles |-> "base_fd"]
  /\ desc = [h \in Handles |-> NoDesc]
  /\ valid = [h \in Handles |-> FALSE]
  /\ refs = [d \in Descs |-> 0]
  /\ autoclose = {} /\ preserve = {} /\ shared = {}
  /\ closes = [d \in Descs |-> 0]
  /\ shut = {}
  /\ origin = [d \in Descs |-> NoDesc]
  /\ wire = {} /\ leaked = {}

-----------------------------------------------------------------------------
(***************************************************************************)
(* The steps the destructors are made of.  Each is preceded by what a slip *)
(* in the code would make of it, for the runs that test the properties.    *)
(***************************************************************************)
WillDestruct_OffByOne(h) == refs[desc[h]] <= 2
\* REFCXX_WILL_DESTRUCT(base_fd)
WillDestruct(h) == refs[desc[h]] = 1

\* REFCXX_COPY_CONSTRUCTOR(base_fd, h)
Shared(h) == [refs EXCEPT ![desc[h]] = @ + 1]

Released_IfValid(h) == IF valid[h] THEN [refs EXCEPT ![desc[h]] = @ - 1] ELSE refs
\* REFCXX_DESTRUCT(base_fd)
Released(h) == [refs EXCEPT ![desc[h]] = @ - 1]

MustClose_FirstOnly(h) == desc[h] \in autoclose /\ valid[h] /\ pc[h] = class[h]
\* The condition both fd_close() functions start with.
MustClose(h) == desc[h] \in autoclose /\ valid[h]

\* fd = SOCKETXX_INVALID_HANDLE
Invalidated(h) == [valid EXCEPT ![h] = FALSE]

Preserved_Not(h) == preserve
\* set_preserved()
Preserved(h) == preserve \cup {desc[h]}

-----------------------------------------------------------------------------
\* REFCXX_CONSTRUCTOR and new _shrd_data: a new group of one handle.
NewGroup(h, c, d, auto) ==
  /\ pc[h] = "none"
  /\ pc' = [pc EXCEPT ![h] = "live"]
  /\ class' = [class EXCEPT ![h] = c]
  /\ desc' = [desc EXCEPT ![h] = d]
  /\ valid' = [valid EXCEPT ![h] = TRUE]
  /\ refs' = [refs EXCEPT ![d] = 1]
  /\ shared' = shared \cup {d}
  /\ autoclose' = IF auto THEN autoclose \cup {d} ELSE autoclose

\* base_fd(handle, autoclose_handle) and base_socket(...) on the descriptor
\* of the connection.
Construct(h, c, d, auto) ==
  /\ \A e \in Descs : Unborn(e)
  /\ NewGroup(h, c, d, auto)
  /\ origin' = [origin EXCEPT ![d] = d]
  /\ UNCHANGED <<preserve, closes, shut, wire, leaked>>

\* base_fd(const base_fd&): share the count, the data and the fd number.  A
\* base_socket can be made from a base_fd that is a socket, as here, and a
\* base_fd from a base_socket.
Copy(h, c, g) ==
  /\ Usable(g)
  /\ pc[h] = "none"
  /\ pc' = [pc EXCEPT ![h] = "live"]
  /\ class' = [class EXCEPT ![h] = c]
  /\ desc' = [desc EXCEPT ![h] = desc[g]]
  /\ valid' = [valid EXCEPT ![h] = valid[g]]
  /\ refs' = Shared(g)
  /\ UNCHANGED <<autoclose, preserve, shared, closes, shut, system>>

\* The object's lifetime ends: its destructors start, the derived one first.
Destroy(h) ==
  /\ Usable(h)
  /\ pc' = [pc EXCEPT ![h] = class[h]]
  /\ UNCHANGED <<class, desc, valid, refs, autoclose, preserve, shared, closes,
                 shut, system>>

\* ~base_socket: if it will be the last, base_socket::fd_close(), which shuts
\* the connection down unless preserved; then on to ~base_fd.
DtorSocket(h) ==
  /\ pc[h] = "base_socket"
  /\ pc' = [pc EXCEPT ![h] = "base_fd"]
  /\ IF WillDestruct(h) /\ MustClose(h)
       THEN /\ closes' = [closes EXCEPT ![desc[h]] = @ + 1]
            /\ shut' = IF desc[h] \in preserve THEN shut ELSE shut \cup {desc[h]}
            /\ valid' = Invalidated(h)
       ELSE UNCHANGED <<closes, shut, valid>>
  /\ UNCHANGED <<class, desc, refs, autoclose, preserve, shared, system>>

\* ~base_fd: REFCXX_DESTRUCT decrements; if it was the last, base_fd::fd_close()
\* closes what is still open, and the shared data is deleted.  The object is gone.
DtorFd(h) ==
  LET d == desc[h] IN
  /\ pc[h] = "base_fd"
  /\ refs' = Released(h)
  /\ closes' = IF refs'[d] = 0 /\ MustClose(h)
                 THEN [closes EXCEPT ![d] = @ + 1] ELSE closes
  /\ shared' = IF refs'[d] = 0 THEN shared \ {d} ELSE shared
  /\ pc' = [pc EXCEPT ![h] = "none"]
  /\ class' = [class EXCEPT ![h] = "base_fd"]
  /\ desc' = [desc EXCEPT ![h] = NoDesc]
  /\ valid' = [valid EXCEPT ![h] = FALSE]
  /\ UNCHANGED <<autoclose, preserve, shut, system>>

\* o_sock: set_preserved(), dup_fd(), then o_int() of the new number.  dup()
\* may fail and throw, and so may o_int(): the new descriptor then has no owner.
SendSock(h) ==
  /\ Usable(h)
  /\ preserve' = Preserved(h)
  /\ \/ UNCHANGED system
     \/ \E e \in Descs :
          /\ Unborn(e)
          /\ origin' = [origin EXCEPT ![e] = desc[h]]
          /\ \/ wire' = wire \cup {e} /\ UNCHANGED leaked
             \/ leaked' = leaked \cup {e} /\ UNCHANGED wire
  /\ UNCHANGED <<pc, class, desc, valid, refs, autoclose, shared, closes, shut>>

\* i_sock: base_fd(fd, true) on the number read from the message.
RecvSock(h, e) ==
  /\ e \in wire
  /\ NewGroup(h, "base_fd", e, TRUE)
  /\ wire' = wire \ {e}
  /\ UNCHANGED <<preserve, closes, shut, origin, leaked>>

Destructor(h) == DtorSocket(h) \/ DtorFd(h)

Next ==
  \E h \in Handles :
    \/ \E c \in Classes, d \in Descs, auto \in BOOLEAN : Construct(h, c, d, auto)
    \/ \E c \in Classes, g \in Handles : Copy(h, c, g)
    \/ Destroy(h)
    \/ Destructor(h)
    \/ SendSock(h)
    \/ \E e \in Descs : RecvSock(h, e)

\* A destructor that has started runs to its end.
Fairness == \A h \in Handles : WF_vars(Destructor(h))
Spec == Init /\ [][Next]_vars /\ Fairness

-----------------------------------------------------------------------------
\* No use after close: as long as an object can be used, the descriptor it
\* names is open and the shared data it points to is allocated, whatever the
\* destructors of its copies do meanwhile (base_io.cpp:57-69 and 170-183).
UsableIsOpen ==
  \A h \in Handles :
    pc[h] = "live" => /\ valid[h]
                      /\ closes[desc[h]] = 0
                      /\ desc[h] \in shared

\* Both destructors may close, each on its own condition: no interleaving makes
\* them close the number twice, which could by then name another connection.
ClosedAtMostOnce == \A d \in Descs : closes[d] <= 1

\* Nothing is left behind: once an autoclose descriptor has no handle left it
\* has been closed and its shared data deleted, whichever handle was the last.
NothingLeft ==
  \A d \in Descs :
    (~Unborn(d) /\ Group(d) = {} /\ d \notin wire \cup leaked) =>
      /\ d \in autoclose => closes[d] = 1
      /\ d \notin shared

\* The connection a socket was sent over is not shut down by the sender: o_sock
\* preserves the whole group before it dup()s, "sock can be closed after"
\* (simple_socket.hpp:101), even if a copy of it is being destroyed.
SentNotShut ==
  \A d \in shut, e \in Descs : e # d => origin[e] # d

-----------------------------------------------------------------------------
\* The holders of a descriptor: the handles that have not given it up, and the
\* message (or the failed message) that carries it.
HoldersOf(d) ==
  {h \in Handles : desc[h] = d /\ valid[h]}
    \cup (IF d \in wire \cup leaked THEN {Wire} ELSE {})

Phase(d) ==
  IF Unborn(d) THEN "absent" ELSE IF closes[d] > 0 THEN "released" ELSE "held"

Abstract == INSTANCE SharedResource WITH
  Resources <- Descs,
  Holders <- Handles \cup {Wire},
  phase <- [d \in Descs |-> Phase(d)],
  holders <- [d \in Descs |-> HoldersOf(d)],
  managed <- Managed

ImplementsSharedResource == Abstract!ResourceSpec
=============================================================================
