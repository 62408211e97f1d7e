# A verification project for socket++

socket++ (`src/socket++`) is a C++ library over POSIX descriptors and sockets. A usable object is
`Handler<Protocol<BaseIO>>`: a *BaseIO* class holds a descriptor, a *protocol* reads and writes on it, a
*handler* listens, accepts or connects. This directory holds TLA+ models of the parts whose behaviour depends
on the order of events, TLC runs over small instances of them, and proofs that TLAPS checks for every value of
the constants. Paths below are relative to `src/socket++/`.

## 1. Inventory

| Part | State it keeps | Operations | What is hard | What makes it correct |
|---|---|---|---|---|
| Handles (`base_fd`, `base_socket`: `base_io.*`) | `fd` of each object; a count and `_shrd_data` (autoclose, preserve_fd) shared by its copies | construction, copy, cast to `base_fd`, the chain of destructors, `set_preserved`, `o_sock`/`i_sock` (`io/simple_socket.hpp:89,101`) | copies destroyed by several threads, each destructor of the chain testing the count by itself; a descriptor that travels in a message | open as long as an object can be used; closed once, by the last; nothing left behind; a sent socket survives its sender |
| Strict reads (`base_io.cpp:83-98,142-153,248-269`, `base_ssl.cpp:113-126`) | what is left of the message, the place in the buffer | `_i_fixsize` of plain descriptors, pipes, sockets with and without `MSG_WAITALL`, SSL | the stream is cut anywhere; timeouts; the unsigned count | a read returns its message, the whole of it and nothing else |
| UNIX sockets (`base_unixsock.*`) | `autodel_path` | `use`, `unuse`, `del_sock_file`, the destructor | the file outlives the process; several servers share a path | the file is that of a server that will delete it |
| Listening (`handler/socket_server.hpp:195-218`) | `listening`, the descriptor | `listening_start`, `listening_stop`, construction, destruction | each is several system calls that may throw | the flag agrees with the socket; stop and start alternate |
| Waiting for connections (`socket_server.hpp:229-235`, `socket_server.cpp:29-93`) | none between calls; the kernel's queue, the timeout | `wait_new_client`, `_timeout`, `_stoppable` | `select()` then `accept()` are two steps; signals; peers that give up | a call returns by its timeout, hears the monitored descriptor; a connection has one owner |
| Retained clients (`socket_server.hpp:221-250,289-308`) | `retained_clients`, `mutex` | `retain_client`, `release_client`, `wait_new_client_retained`, `wait_client_activity`, `_fair` | methods that lock call methods that lock; what locking twice does depends on the platform | the list changes under the mutex only, a poller returns when there is something, iterators are valid, all are served |
| Activity loop (`socket_server.hpp:310-354`) | the `fd_set` and its copy, the place in the list | `wait_activity_loop` and its callbacks | the set is made once and the callbacks change the list; a result ends the scan | waits for the clients it has; calls nothing that blocks; serves all |
| Client threads and data (`socket_server.hpp:105-150,239-244`, `socket_server.cpp:36-41`) | `_d` of each client and the count of the clients; what the thread was given | `put_client_threaded`, `wait_new_client_threaded`, the thread's copy, its routine | a client made for a thread is copied, deleted and outlived by others; two data under one count | the data live as long as the clients; the thread finds its client; the connection is closed in the end |
| Client (`handler/socket_client.*`) | none | connect, connect with a timeout | non-blocking connect, signals, a timeout that meets the answer | what the constructor tells is so; it returns by its timeout |
| Files (`io/simple_socket.*`) | bytes left, hashes, the temporary file | `o_file`, `i_file` | short reads and writes, a file that changes, failures half way | what is reported as received is whole, and what the sender hashed; no file is left by a failure |
| Values (`io/simple_socket.hpp:79-214`) | none; the thread's `errno` | `o_str`/`i_str`, integers, floats, `o_bin`/`i_bin`, polyvars, `is_timeout_error` | the width of lengths, byte orders, recursion; what is read next depends on what was read; reads that are tried again | values read are values written |
| Text (`io/text_buffered.*`) | `buffer`, `line_sep` | `i_line`, `o_line`, `o_txt` | a separator cut by reads; 8-bit counters; timeouts between reads | lines read are lines written |
| Tunnel (`io/tunnel.*`) | one buffer, the result of `select()` | `start_tunneling` | one thread, two directions, blocking writes | transparent; ends when a side closes |
| SSL (`base_ssl.*`) | `ssl_sock`, `ssl_ctx` | `start_ssl`, `wait_for_ssl`, `stop_ssl`, reads, writes, the destructor | two ends switch modes at their own speed | no read takes what belongs to the other mode; nothing leaks |
| TCP addresses (`base_inet.*`) | the static result of `gethostbyname()` | parsing `HOST[:PORT]`, resolving | `atoi` before the range test; two threads that resolve | an address is what its string means |
| Descriptor options and flags, definitions, build | - | one system call each | nothing that interacts | - |

The parts meet in the shared descriptor (the count of the handles), in the stream (a strict read must leave it at
the start of the next message for whatever protocol comes next), in `retained_clients` (threads, the pool
methods and the callbacks of the loop) and in the listening socket (the waiting methods, the loop, start and
stop). There are no threads inside the library but `put_client_threaded`; concurrency is the program's, and the
library is documented for it: "you are free to copy socket objects", `retained_clients` is "protected by a mutex".

`PROJECT.json` lists the hazards, each with its line and the properties that cover it or the reason why none does.

## 2. Modules

Each component has a module; `MC<module>.tla` and its configurations instantiate it for TLC. A comment at each
action names the code step; `map` in `PROJECT.json` gives the lines. Operators with an underscore
(`Asked_Chunk`) are changed forms of the definition next to them: replacing the one by the other makes a
property of the runs fail, which shows that the property depends on it.

* **Handle.** A step is what a thread does between two looks at the count: a constructor, or one destructor of
  the chain `~base_socket`, `~base_fd`. `WILL_DESTRUCT` reads the count and `DESTRUCT` lowers it in separate
  steps, between which the destructors of the copies take theirs. A group of copies is identified by its
  descriptor. A descriptor number is not used twice in a behaviour, so a use after close cannot be hidden by a
  reuse. **SharedResource** says what the class promises: a resource held by a set of holders and, when managed,
  released exactly when the last drops it; the refinement maps the one to the other (the message that
  carries a descriptor is a holder).
* **ClientThreads** extends Handle. A `_client` is a handle with data under a second count; `~_client` is the first
  of its destructors and runs with the step that starts them (`DestroyObject`). `wait_new_client_threaded()` is
  followed statement by statement in `call`: the accepted client (`temp`), its copy with the caller's data
  (`made`), the end of the first. A thread passes through `starting` (it has to copy `*_c`), `started` (it has to
  delete it) and `running`; `heap` are the clients made for threads, also those whose thread was never created.
  Places on the stacks of threads are not free for others. Nothing of Handle is repeated: each step is one of its
  steps, which the proof of `ClientsImplement` uses.
* **StreamIO.** A sender writes messages, the kernel delivers any part of them, the reader calls `_i_fixsize`.
  Bytes are positions in the stream. `Reader` selects the implementation; `Requested`, `Enough`, `Complete` and
  `Remaining` hold all that differs between the five. `rest` is modulo `SizeMax`, as `size_t` is.
* **Values** extends StreamIO: its messages are the `_o()` calls that write the values of a script, and its reader
  is the `i_` method of the next value, whose `_i_fixsize()` calls depend on the bytes it has read (`todo` is what it
  will still read). Bytes are digits of a base and integers a number of them, in the order of the writer's host;
  `Value` is what a read gives, `Leaves` what the value is, without bytes. `Out` and `Leaves` are recursive functions
  over `Vals`, the values and those inside them; `WellTyped` says what the types of C++ do: `Nesting` is less inside
  a value than of it. A buffer is not empty, and the script holds no bare VOID, for which there is no method. After a timeout the program goes on as
  `is_timeout_error()` tells it, with the `errno` that the exception carries and resets.
* **Listener.** Servers of one or several processes on one path. A step is a system call (`bind`, `listen`,
  `close`, `unlink`) with the assignments around it; a file is an inode, so that deleting somebody else's file
  can be told. `bind` fails by what is in the file system and in the server's socket. A crash closes the
  sockets and leaves the file, which `orphans` remembers for the properties only.
* **RetainedPool.** Threads call the pool methods; a step is a lock, an unlock, a list operation, `select()` or
  the scan. `MutexKind` is what `PTHREAD_MUTEX_INITIALIZER` makes on the platform: locking twice blocks
  (normal), fails and is not noticed because the result is not looked at (error-checking), or counts (recursive).
  `clients_foreach` takes no lock: what it does after its element was erased is not followed.
  The server listens: the methods' check of it, which reads the flag of Listener and throws, is left out here.
* **ActivityLoop.** One thread in `_wait_activity_loop`, with the set, its copy, and a place in the list that
  callbacks may change. Callbacks that change the list return `POOL_RESCAN`, as the comment at
  `socket_server.hpp:254` asks. A connection may be reset before it is accepted (`Drop`); `gone` remembers, for the
  properties only, that one was since the last `select()`.
* **Acceptor.** Threads that wait on one listening socket. `Tick` is the passing of time for those that wait;
  `SelectUpdates` says whether `select()` takes what it waited off its timeout (Linux) or not. `accept()` may fail
  (`AcceptFails`), and blocks when the connection that `select()` saw is gone.
* **NetAddress.** The parser of addresses, character by character since what it does depends on them: `Parsed` is
  the code, `Meanings` the form that `base_inet.hpp:84` documents.
* **Connection** puts the clients at the other end of Acceptor, with NetAddress for what they are given: a step of
  the constructor of `socket_client` is a system call, or the copy of the result of `gethostbyname()`. The kernel
  completes a connection while its queue has room, also one whose client gives up in that moment. `gethostbyname()`
  has one result, `hostent`, which every call overwrites; `overtaken` remembers, for the properties only, who has not
  copied it when another calls.
* **Tunnel.** The two sides, four kernel buffers and the copying thread. A write takes as much as fits and
  blocks with the rest. `send()` to a side that has closed may succeed or throw.
* **TextSocket.** Bytes are members of a small set, so the search for the separator is the real one. `SizeMod` is
  the modulus of its counters.
* **FileTransfer.** A byte of the file is its place and its version. The sender sends the mapped chunk and then
  hashes the mapping; the receiver reads any part of a chunk, hashes and writes it. A hash is the bytes hashed. `wrote`
  remembers, for the properties only, whether a `write()` was cut or failed.
* **SslSession.** Both ends follow a script of messages and switches. OpenSSL is modelled as far as `base_ssl`
  sees it: three flights, records, a notify. The first `SSL_shutdown()` of an end sends its notify and returns 0 or 1 by
  whether that of the other was read, and `stop_ssl()` throws at 0 (`Stop`); the second reads until the other's
  (`StopAgain`). The user catches the exception and calls again, or gives up (`GiveUp`). The destructor calls
  `stop_ssl()` whatever came before: it sends the notify (`LastStop`), waits for the other's when its own was sent
  (`LastRead`), and ignores what is thrown (`LastFails`). A write may fail when the other end is gone (`Breaks`).

## 3. Runs

One run per component, each of all its actions, and two in which the code does not do what its documentation says:

| Run | What it shows |
|---|---|
| `client_threads` | Clients and other handles in several threads, destructors in any order, `o_sock` and `pthread_create` that may fail: no use after close, nothing left, a sent socket is not shut down by its sender, a thread finds the client it was given, data are deleted once with the last client, connections that only threads hold come to their end, and all of it implements SharedResource. |
| `values_retry` | Integers, strings with both forms of length, binary data, floats and nested polyvars from a big-endian writer to a little-endian reader, cut anywhere, with timeouts after which single reads are tried again and a writer that fails: what is read is what was written, no read takes from the next message, and everything written is read unless it is cut short for a cause. |
| `listener_shared` | Several servers on one path, failing starts and crashes: the file at the path has an owner who will delete it unless it died, and the flag agrees with the socket. |
| `pool_recursive` | On a recursive mutex the nested locks protect the list to the end of each method: scans find a client, the iterator that the fair method moves is valid, pollers return, and the fair method serves everyone, while `clients_foreach` walks the list without the mutex. |
| `connections` | Clients with and without a timeout, with good, bad and wrong addresses, against threads of the server that wait in different ways on a queue of one, with an `accept()` that may fail: addresses are what they mean, also while the other client resolves a name, unless its `gethostbyname()` comes between the call and the copy; what a constructor tells is so, no end waits past its timeout in spite of signals, and the monitored descriptor is heard, unless `accept()` blocks on a connection that is gone. |
| `loop_callbacks` | Callbacks that keep the rule of the loop: its set is that of the clients, no call it makes blocks but an `accept()` after a connection was reset, every client is served unless scans are abandoned, or an `accept()` blocks, for ever. |
| `tunnel_both` | Bytes arrive in order, none is lost before the end is reported, the tunnel ends when a side closes and delivers everything while none does. |
| `text_lines` | Lines and closed texts survive any cuts, timeouts and a failing writer. |
| `file_transfer` | An accepted file is whole and is what the sender hashed, no temporary file is left by a failure, a file is refused only if it was changed or the sender failed, writing fails only after a `write()` that failed or was cut, the receiver ends. |
| `ssl_sessions` | Two sessions, users giving up anywhere: no read takes what is of the other mode; beyond the first `stop_ssl()` of a session nothing throws while the other end follows the script or has finished it; `ssl_sock` is NULL exactly when its session is freed, and a finished end has none; both get out, though their destructors stop the session again. |
| `pool_self_deadlock` (violation) | On a normal mutex `wait_client_activity` waits for itself at its second lock. |
| `stream_overread` (violation) | The loop of plain descriptors asks for the rest of a message with the whole length and takes bytes of the next one. |

### Divergences met

Where a property needs a condition, the code without it does not do what its documentation says. These were met
while the models were written; each can be seen by changing a constant or by dropping the condition named.

| Where | What happens | In the models |
|---|---|---|
| `base_io.cpp:180` | Two threads destroy the last two copies of a socket: both `~base_socket` see a count of two, and `~base_fd` closes without `shutdown()`. | A behaviour of Handle; the properties ask for the closing, not for who does it. |
| `socket_server.hpp:117,244` | `client(other, data)` takes the count of the other client with data of its own: the data of `wait_new_client()` are never deleted by `wait_new_client_threaded`. Without `attached_data` the default copies `*NULL`. | `Replaced`, which `DataLiveAsClients` excepts; the proof names exactly these. |
| `socket_server.cpp:39` | When `pthread_create` fails nobody owns the copy: its connection is never closed. | `ThreadsFail = TRUE`; `HeldByThreads` in `ConnectionEnds`. |
| `io/simple_socket.hpp:101` | `o_sock` leaks its `dup()` when writing its number throws. | `leaked`, which `NothingLeft` and the refinement except. |
| `base_io.cpp:92`, `base_ssl.cpp:121` | Over-read of a message. | Run `stream_overread`; `Reader = "ssl"` fails in the same way. |
| `base_io.cpp:93` | A last byte that comes alone is taken for an error. | `Reader = "base_fd"`: `NoFalseError` fails. |
| `base_io.cpp:265-269` | A `recv(MSG_WAITALL)` that times out throws away what it has: a read that is tried again is in the middle of a value. | `CutShort` in `AllRead`. A timeout inside a method of several reads (`i_str`, `i_bin`, `i_var`) cannot be told from one before it: `Single` in `Retry`. |
| `base_io.cpp:145` | A pipe's read timeout may expire between two reads of one message and throws a timeout error all the same: the read that is tried again loses the part it had. | `Reader = "pipe"` with `TimeoutSet = TRUE` in MCValues: `ValuesAgree` fails. |
| `base_io.hpp:140` | An end of the stream sets no `errno`: with one that an earlier timeout left it would look like a timeout. The exceptions reset it. | `AfterCatch`; without the reset (`AfterCatch_Kept`) a short read looks like a timeout: the reader tries again in the middle of a value. |
| `io/simple_socket.hpp:210` | Key and value of a map are read by two arguments of one constructor, whose order is the compiler's. | `KeyFirst = FALSE`: `ValuesAgree` fails. |
| `io/simple_socket.hpp:82` | "Endianness is already converted by sender": to little-endian, whatever the receiver is. | `ReaderBig = TRUE`: `ValuesAgree` fails. |
| `io/simple_socket.hpp:87,100` | The length of binary data is cut to 32 bits, the data are not; `i_bin` loses its buffer when the read throws. | Data of `Base^W32` bytes in `Script`: `ValuesAgree` fails; `Compatible` in the proofs excludes them. The buffer is not modelled. |
| `base_inet.cpp:20` | `gethostbyname()` has one result for all threads. | A client in `overtaken` may get the address of another's name; `AddressIsMeant` excepts it, and fails without that. |
| `base_inet.cpp:48` | `atoi` takes a port of anything that ends with a digit ("h:x1" is port 0), and of one beyond an `int` what is left of it. | Strings of another form have no meaning (`WellFormed`), nor has a number beyond an `int` that is in the range of ports once it is cut to one (`Aliased`). |
| `socket_server.hpp:198`, `base_unixsock.cpp:51` | A server that cannot bind deletes the file of the one that listens. | A behaviour of Listener: `FileHasOwner` holds since no file is left. |
| `socket_server.hpp:205` | `listening_start` after `listening_stop` can only fail: its descriptor is invalid. | `CanBind` is false for ever. |
| `socket_server.hpp:302,250,307` | The second lock of the thread: it waits for itself; or, with error checking, the fair method changes the list without the mutex. Two pollers are given the same client. | `MutexKind = "normal"`, run `pool_self_deadlock`; `"errorcheck"` with two pollers: `ListProtected` fails. `IteratorsValid` stops at the end of the method. |
| `socket_server.hpp:265` | `clients_foreach` takes no lock: an element may be erased, or moved to the end by the fair method, while it is there. | `ForeachNext` ends in "undefined", or skips. |
| `socket_server.hpp:234` | A connection seen by `select()` is gone at `accept()`, which blocks without hearing the descriptor or the timeout. | `Lost`, which `StopIsHeard` and `TimesOut` except. |
| `socket_server.hpp:339` | The same in the activity loop, for a connection that is reset between `select()` and `accept()`, while callbacks of the monitored descriptors run: the whole loop blocks. | `Drop`; `gone` in `NothingBlocks` and `AcceptsReturn` in `AllServed` except it. |
| `socket_server.hpp:230` | `wait_new_client_retained` binds a temporary to the `client&` of `retain_client`: it does not compile when it is instantiated. | RetainedPool has it as it would be with a client of its own. |
| `socket_server.cpp:58,101` | A signal makes the whole timeout start again where `select()` does not update it. | `SelectUpdates = FALSE`: `BothWaitAtMost` fails, for the server and for the client (`socket_client.cpp:45`). |
| `socket_client.cpp:17` | A signal makes `connect()` without a timeout throw, though the connection goes on in the kernel. | `at = "signal"` in `ConstructorTells`. |
| `socket_client.cpp:33` | A connection that is completed while the client's timeout expires is accepted by the server: its client is gone. | `ConnectTimesOut` with `Queued`. |
| `socket_server.cpp:56` | A null timeout makes the wait return at once; "Null timeout disable it" (`socket_server.hpp:225`). | `PoolTimeout = 0`. |
| `socket_server.hpp:350,339` | A callback that always returns POOL_RESCAN, or an `accept()` that always fails, keeps clients from being served. | `ScansEnd` in `AllServed`. |
| `io/tunnel.cpp:42` | A blocked write hides the end of the other side. | `Readers = {1}`: `EndsOnClose` fails. |
| `io/text_buffered.cpp:45` | The text after the last line feed is dropped. | A text without a final line feed in `Texts`: `LinesAreWritten` fails. |
| `io/text_buffered.cpp:12` | A separator of 256 characters is never found. | `SizeMod` equal to the length of `Sep`: `AllLinesRead` fails. |
| `io/simple_socket.cpp:106` | After a short `write()` what it wrote is taken off twice: reported as a failure, or undefined. | `rpc` becomes "unwritten" or "undefined" without `WriteFails`; `FailsForACause` takes a cut `write()` (`wrote`) for a cause and shows that there is no other. |
| `base_ssl.cpp:88` | The first `stop_ssl` of a session throws at each end, unless an earlier read has met the other's notify; the caller cannot tell that from an error, and has to call it again. | `Stop` with `Ended`; the only exception that `OnlyStopThrows` excepts. |
| `base_ssl.hpp:62` | The destructor ignores the exception of `stop_ssl`: an object destroyed in SSL mode never frees its session; one destroyed after a `stop_ssl` that threw waits for the other end. | `LastStop`, `LastRead`, `LastFails`; a script that ends in SSL mode: `NothingLeaks` fails. |

### Bounds

Nothing bounds the executions but what is named here.

* ClientThreads: three handles and two descriptors are the client that is returned, the one made for its thread and
  the one on the thread's stack, or two copies and a received duplicate: both counts go through 3, 2, 1, and the
  races need two. The proofs cover any number.
* Values: each kind of value, both forms of string length on either side of the border, empty strings and data, a
  list in a map. `Base = 8` scales 256, with which the border would be at 254; `W32 = 2` and `W64 = 3` digits.
* StreamIO (`stream_overread`): messages of 1, 3, 2 and 1 bytes: one that cannot be cut, one cut in three, one whose
  last byte comes alone, and one that can be taken by mistake. `SizeMax` is above every length, so only a wrong
  count wraps.
* Listener: three servers, two files; `Inodes` bounds the number of successful binds. The proofs cover any number.
* RetainedPool: two threads, which both poll, and two clients. The network may make a connected client readable
  any number of times.
* ActivityLoop: three clients' descriptors, which are reused, one monitored, two connections in the queue.
* Connection: two clients, a thread that waits with a timeout and a descriptor to monitor, and one that just
  accepts; a queue of one. `MaxSignals` bounds signals and failing `accept()`s together, `MaxTime` the count of waited time (above the timeouts, so
  that passing them can be seen). The strings are all of up to five characters of a small alphabet, with both borders
  of the port, and three with ports about and beyond an `int`; `PortMax` and `IntMax` are scaled.
* Tunnel: four bytes each way through a buffer of two and kernel buffers of three: a message needs two turns and
  a write may block with its last byte.
* TextSocket: up to three calls, reads of up to three bytes, a two-character separator whose first character also
  occurs in lines.
* FileTransfer: a file of two chunks, the second not full; `SizeMax = 16` is above the size, so that only the
  wrong subtraction wraps. `version` changes once.
* SslSession: a script of two sessions with messages both ways in each mode.

### Fairness

A thread that can take a step takes it (weak fairness on the steps of each thread or of the loop): the operating
system schedules threads. Users who are not obliged to do anything (constructing, releasing, closing, sending)
have no fairness, with named exceptions: the callers of Acceptor, the reader of Values (also after a timeout) and
that of TextSocket call again, the threads of Acceptor until they are interrupted, and the receivers of Tunnel read
what they are sent when they are in `Readers`. Threads come to the end of their routines (`ClientFairness`):
programs whose threads never end keep their connections. The read of Values has strong fairness: what is there is
read at some time, though timeouts may come before. Time passes for those who wait in `select()` (`BothTick`). The
timeouts of RetainedPool and of Tunnel may happen and are never counted on; nor is any failing `accept()`, and no write
of SslSession has to fail when the other end is gone.
`select()` needs no more than weak fairness since what it waits for stays ready until it is read. No lock is
assumed fair: `FairTurn` says what follows if the fair method returns again and again, and `AllServed` what follows
if scans come to their end (`ScansEnd`) and accepts to theirs (`AcceptsReturn`).

## 4. Proofs

| Module | Theorems | Argument |
|---|---|---|
| `HandleProofs` | `TypeCorrect`, `NoUseAfterClose`, `NoDoubleClose`, `NoLeftover`, `SentSurvives` | The count of a group is the number of its handles that have not finished `~base_fd` (`CountIsGroup`), and a handle's own `fd` tells whether the descriptor is open for all of them at once (`ValidIsOpen`). So a destructor that reads one is alone, and what it closes nobody can use. Neither property is inductive without the other, nor without what is known of descriptors that are not open yet or are in a message (`UnbornState`, `WireState`). |
| `HandleProofs`, the refinement | `Implements` | Initial states map to initial states; each action is an acquisition, a share, a transfer, a drop or a stutter of SharedResource, under the same invariant. |
| `HandleProofs`, the clients | `ClientTypeCorrect`, `ClientsUsable`, `ClientsLeaveNothing`, `SentClientSurvives`, `ThreadFindsItsClient`, `DataLive`, `ClientsImplement` | Each step of the clients is a step of the handles or none (`ClientStep`), so the invariant of Handle carries over (`NextIInv`, `NextRefines`) and with it the refinement. Of its own the proof has: the clients of a descriptor are counted (`CountIsClients`) and all have the same data but in the moment when `wait_new_client_threaded` exchanges them, when nobody else can copy a client (`NotWhileAttaching`); data are deleted exactly when no client is left (`DataState`); the objects of a call and of each thread are nobody else's (`CallState`, `ThreadState`). |
| `ConnectionProofs` | `ConnectionSafe`, `WaitsAreBounded`, `ConstructorsTell` | A client that is not answered has never been in the queue (`LinkState`), so a connection enters it once and leaves it for one thread. What was waited and what is left add up to the timeout (`ThreadWait`, `ConnectWait`): to no more of it where `select()` updates the timeout, which `WaitsAreBounded` assumes, and to no less in any case, which is what a constructor that timed out tells. |
| `ConnectionProofs`, the listener | `ListenerTypeCorrect`, `FlagCorrect`, `FileIsOwned` | What holds of the socket, the flag and the path at each point between two system calls (`ServerState`, `OwnerState`): a server has a path to delete from before its `bind()` until it has unlinked, so a file loses its owner only with it, or by a crash. |
| `ConnectionProofs`, the addresses | `AddressesAgree`, `AddressMeant` | For every string: in one of the documented form the colon that the loop finds from the end is the only one, so the parts are what it means (`HostAndPort`), and `atoi` takes the whole of the port (`AtoiOfDigits`), whose number is natural (`DecimalIsNat`, by induction) and, unless it is `Aliased`, itself or refused as it must be. The static result is that of the name of each client that is at its copy and was not overtaken (`ResolverState`): a call of `gethostbyname()` makes all others that have not copied overtaken, whoever they are. |
| `StreamIOProofs` | `TypeCorrect`, `ReadsAreExact`, `NoOverRead`, `ErrorsAreReal` | For `Reader \in {"pipe", "waitall"}` (`ExactReader`): inside a read, what was got and what is left add up to the end of the message (`ReaderState`), so the request never reaches past it and the unsigned count never passes zero (`RemainingFact`). |
| `StreamIOProofs`, the lines | `TextInductive`, `TextCorrect` | What is in the stream and what the call under way still has to give to `_o()` are together the lines that were asked for, each with its separator (`WriterState`), so the first separator that the reader finds in its buffer is that of its next line (`FirstLine`, `NextLine`): no line is ambiguous. `SizeFits`: a separator whose size is no `uint8_t` would end nothing and be found nowhere. `TextCorrect` assumes `WholeTexts`, that each text ends with a line feed, since `o_txt` drops what follows the last. |
| `StreamIOProofs`, the values | `ValuesInductive`, `ValuesCorrect`, `ValuesStayInMessage`, `ValuesTypeCorrect` | What the reader has to read is known to it as kinds and lengths (`todo`). Behind each there is a job, the part of a value that it will turn out to be: `CallsOf` are its messages and `GivesOf` what it gives. The messages of the jobs that are left are those after the ones that were read, and what they give is what was not shown yet (`AtJobs`). A read gets the first message of its job because the stream is exact and the bounds are those of the calls (`MessageAt`); from it the reader makes out which jobs remain (`EachGoes`, one case for each kind), for which a number must come out of its bytes as it went in, whatever the writer's byte order (`AsIntIs`). A read that is tried again had taken nothing of its message (`ErrorState`). |
| `SslSessionProofs` | `SessionInductive`, `EveryReadIsSent`, `NothingElseThrows`, `SslTypeCorrect`, `SslSafe` | For every script. An end is ahead of the other by messages that it writes itself, or by one switch for which it has got all that the other writes in it (`Ahead`, `Answered`); what is on its way to an end is what the other wrote at each place that it is ahead by, and at most one item of a switch under way (`WireState`, `Partial`). So whatever a call takes from the stream is what the other end wrote at the same place, in the same mode. `NothingElseThrows` has no hypothesis: an end that finds something else than it waits for is at another place of the script than the other, which `Ahead` excludes, or the other has failed or left; and the notify of a destructor is the last item of its stream (`LastNotify`). `SslSafe` assumes `Balanced`, a script that ends in the plain mode and starts SSL only where it is stopped: a second `start_ssl()` loses the first object, and an end whose script ends in SSL mode keeps it. Its `OneObject` is of every state, also of ends that gave up: `ssl_sock` is NULL exactly when its session is freed. A destroyed object whose `stop_ssl()` threw is left with both. |
| `RetainedPoolProofs`, the mutex | `HeldInside`, `OnlyOwnerChanges` | Who has locked how many times at each point of a method, for each kind of mutex. `HeldInside` goes both ways: a thread inside a method holds the mutex, but on an error-checking one after the nested unlock (`GivenUp`), and nobody else does. `OnlyOwnerChanges` excludes exactly the case of the fair method on an error-checking mutex, where it fails. |
| `RetainedPoolProofs`, the list | `PoolCorrect`, `FoundStays` | The list grows, is put into another order, or loses a client in the hands of the holder of the mutex (`ListChanges`). A thread that scans holds the mutex since it made its set, so it finds a client of the set in the list (`ScanFinds`), on every kind of mutex. What it has found stays until it returns, as releasing needs the mutex: `FoundStays` assumes that the mutex is not an error-checking one, which the inner unlock gives up, or that the program releases nobody. |
| `ActivityLoopProofs` | `LoopCorrect`, `NothingBlocksAlways` | From `select()` to the end of the scan the set is that of the clients, the listening socket and the monitored descriptors, because the callbacks that change the list ask for a rescan. What `select()` found and was not served yet is still to be read (`FoundClients`, `FoundConnection`, `FoundMonitors`), because the loop alone reads; a connection may also go by itself, which `gone` tells. `NothingBlocksAlways` assumes that no monitored descriptor is given twice: it would be read twice. |
| `FileTransferProofs` | `FileCorrect`, `ReceivedIsWhole`, `ReceivedIsHashed`, `FailureHasACause` | Each byte is in its place in the stream (`StreamState`), in the receiver's chunk or in the file (`ReceiverState`), and what is written, under way and left adds up to the size. After a `write()` that was cut, from which what was written is taken off twice, the counts still stay in their ranges and the file is never received; that it was cut is what `wrote` says (`EndState`), so `FailureHasACause` can name it. |
| `TunnelProofs` | `TunnelCorrect` | What a side sent is, in this order, what the other got, its outbox, the buffer if it is that side's turn, and its inbox (`Line`): each step moves a byte from the head of one to the end of the one before. |

The assumptions on constants are the `ASSUME` of each module (TLC evaluates them in every run) and the hypotheses
written in the theorems. `StreamIO` assumes `Bound` increasing for every pair of messages, which is the same as
for every two neighbours and needs no induction.

Induction is used where it is needed in the form that a set of natural numbers has a least element (`LeastNumber`,
`MinIsLeast`), which `WFMin` gives; the induction theorems of the library have an operator for a parameter, which
the provers cannot instantiate. For nested values it is `AllByNesting`. For sequences it is `AllByAppend`: a set that
has the empty one, and each one longer than one it has, has all of them. That a recursive function is what its equation says is then proved for it (`NumbersExist`,
`JoinedExists`, `CutExists`): `Decimal` of NetAddress and `Cut` of TextSocket are written as such functions, and
`FlattenSeq` of the community modules is one; of Values, `Shifted`, `AsInt`, `Out` and `Leaves` are.

The theorems about values assume `Compatible`: a little-endian reader, a build that reads the key of a pair first, binary
data whose length 32 bits hold, and `MSG_WAITALL` or a pipe without a timeout. Each is a divergence of section 3: without
it `ValuesAgree` fails. The run `values_retry` is of a reader that is `Compatible`. Of `ValuesIInv` TLC has checked what can be evaluated, `ValuesAgree`, the types and, in the
state of the stream, `StaysInMessage`; `AtJobs` speaks of all sequences of jobs. The theorems about plain messages and
about lines use nothing of Values.

Checked by TLC only:

* Every liveness property: fairness and ENABLED are not within reach of the prover.

`AddressesAgree` is of every string of `Strings`, which may be any non-empty sequences; TLC evaluates it for those of
up to five characters. The type invariants of Handle, ClientThreads, StreamIO, Listener, RetainedPool, ActivityLoop,
FileTransfer, Tunnel, Connection, TextSocket, SslSession and Values are proved. `ClosedAtMostOnce`,
`Framed` and `NoFalseError` are proved and in no run.

## 5. Not modelled

* Descriptor flags, socket options, `_check_pipe`, `_check_socket`: one system call each, without state. The errors
  of `connect()` that are neither a refusal nor a signal are as a refusal.
* `create_temp_file` counts its attempts in a variable that is not initialised: it may give up early, which is a
  failure before there is a file.
* Doubles of other than 8 bytes (`i_float` takes the bytes of an integer), and a received tag of no polyvar type.
* The texts of errors; the XIF_NO_THREADS build (`socket_server.hpp:221` does not compile without threads).
* SIGPIPE, by which a write to a connection that the peer has closed ends a process that does not ignore it: here the
  write throws.
* A mapped file that is made shorter while it is sent (the process gets a signal), and a descriptor too great
  for an `fd_set`: the program ends or its memory is overwritten; nothing after that can be stated.
* `listening_stop` called by one thread while another is in `select()` or `accept()`: not defined by POSIX.
* OpenSSL, the kernel, `pthread` and the counting macros of xifutils are modelled from how the code uses them.

## 6. Plan

Done, in this order: Handle with SharedResource and its refinement; RetainedPool; Listener; StreamIO; TextSocket;
ActivityLoop; Acceptor; Tunnel; FileTransfer; SslSession; ClientThreads on Handle; Values on StreamIO; Connection on
Acceptor and NetAddress; the proofs of section 4.

To do:
1. Several writers of TextSocket and of Values on one connection (the library promises nothing of it).
2. A server composed of ActivityLoop, RetainedPool and ClientThreads: which methods may run in which threads, and
   that the connection of a client that is in no list and no thread is closed.
