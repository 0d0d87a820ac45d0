# lproxy in TLA+

lproxy is a SOCKS5 proxy in two processes. `lsslocal` accepts SOCKS5 clients and
forwards them, encrypted, over TCP to `lssserver`, which connects to the remotes. This
directory models the program's concurrent parts, model-checks them with TLC and proves
the safety properties, and part of the liveness properties, with TLAPS.

    tlc -config ServerSession.cfg MCServerSession.tla
    tlapm ServerSessionProofs.tla

Sections: 1 inventory, 2 plan, 3 modules, 4 runs and what they found, 5 proofs,
6 what is not modelled.

## 1. Inventory

| component | source (`src/src/core/...`) | state | operations | hard because |
|---|---|---|---|---|
| server session | `lss/session_server.cpp`, `session.h` | status, socks5 state, command, reply, encryptor, resolver iterator, outstanding asynchronous operations, timer | start, 11 completion handlers, cancel, close | two threads, a timer, cancellation object by object, lifetime by shared_ptr |
| packet reader | `left_read_handler`, `right_read_handler`, `cut_lss` | the buffer, its size, missing bytes | read, complete, cut, deliver | TCP cuts the stream anywhere |
| Store | `store/store.h` | queue, capacity, two condition variables | push, pop, reserve | lost wakeups, resizing under waiters |
| local session | `lss/session_local.cpp` | status, keys, resolver, two sockets | handshake, relay in both directions | as the server session; encryptor shared by two threads |
| lss_server | `lss/lss_server.h` | acceptor, two io_services, a thread | run, accept, stop | stop/reset race, restart under a pending accept, accept errors |
| logging | `log/*`, `lss/log.cpp` | a store of entries, bound streams | log, pop, bind, unbind, output | priority order, two output threads, streams unbound while an entry is written, entries lost at exit |
| logrotate | `logrotate/*` | map of streams and sizes | bind, check, rotate | a crash between compressing and truncating; names that are taken |
| lkeep | `lss/keep.cpp` | a loop counter | run, wait, count | nothing concurrent |
| configuration, SOCKS5 messages, cryptography, options | `lss/config*`, `lss/socks5_protocol.h`, `crypto/*`, `program_options/*` | none that changes | parse, format, encrypt | pure or start-up code |

How they interact. `lss_server` accepts a connection, creates a session and
calls its `start()`. From there a session is driven by completions alone: the
io_service of the left thread runs what concerns the socket towards the other
process, that of the right thread what concerns remotes, resolver and timer.
The server session talks to a local session in packets (4 bytes of header, then
data): hello, exchange, data, and the final bad, deny and timeout. All of them
log into a Store (or a lock-free queue) which an output thread empties.

What makes each correct, in a line: a *session* keeps one operation per
direction, does nothing for a client before it has proved its key, answers one
request, ends when it should. The *reader* delivers what was sent. The *Store*
loses no wakeup. A *local session* mirrors the server's and leaves no client
unanswered. *lss_server* goes on accepting and stops when told to. *Logging*
outputs every entry once, highest priority first. *logrotate* loses no line.

`PROJECT.json` lists every component with its status, every hazard with its
line and the properties that watch it, and, under `map`, the lines each
definition stands for.

## 2. Plan

The order in which the project was built, the most important behaviour first:

1. `ServerSession`: the session that everything depends on.
2. `Store`, and `Buffer`, the abstract specification that it implements.
3. `LssReader`: packets out of a stream of bytes.
4. `LocalSession`: the other end of the tunnel.
5. `LssServer`: accepting, `run()` and `stop()`, restarts.
6. `Logrotate`: crashes between the steps of a rotation.
7. `Logging`: entries from `logging()` to the streams. It composes the others: its
   store is what `Buffer` promises, its log file is handled by `Logrotate`
   (`INSTANCE`), which it is proved to implement.

What composes what:

    Store ==implements==> Buffer - - - the atomic store of - - -> Logging
    Logrotate <== is implemented by, and instantiated in == Logging
    ServerSession, LocalSession: each is the other's peer, as its environment

The two sessions are not put into one module. Each is checked against a peer
that may do more than the other session does: any sequence of packets, any
moment to leave. What holds of either holds of the pair. Where a property needs
a server that behaves like lssserver, `LocalSession` keeps account of it in
`heard`, from the code of the server (`Expected`); that `ServerSession` behaves so
is proved (`InOrder`). Not covered by that are liveness
of the pair (nobody forces either peer to go on) and the bytes of a packet.

## 3. The modules

Each component has a module, an `MC` module with the constants' values, `.cfg`
files, and a `Proofs` module that extends it. `Logrotate` is checked as a part
of `Logging`. `Least` has two lemmas on the least number of a set that two of
the proofs share. Definitions that begin with `Mut` are variants of the one
that follows, with a mistake; no specification uses them. Each property that a
run finds true has one that breaks it, which shows that it says something of the code.

### ServerSession

One session object. A session has hardly any state: what it does next is which
asynchronous operations are outstanding. An operation is a *slot* named after
the handler it is bound to, with three counters: `pend` (initiated), `ok` and
`err` (completed, handler queued). That a slot holds at most one operation is not
assumed; it follows from the invariant `OneOperationPerDirection`.

| model | code |
|---|---|
| `left_read`, `hello_write`, `exchange_write`, `left_write`, `final_write` | operations of `socket_left`: read; writes bound to `hello_handler`, `exchange_handler`, `left_write_handler`; a bad, deny or timeout packet, bound to `cancel` |
| `right_read`, `right_write`, `cont_write`, `resolve`, `connect` | operations of the remote sockets and the resolver; `cont_write` is a write bound to `left_read_handler`, which then handles the rest of the buffer on the *right* thread |
| `timerWait`, `timerQueue`, `expiry` | the wait of `timer_right`, its expired and queued lambdas, and whether `expires_at()` lies in the future |
| `pc` | what a thread is in the middle of: `cancel()` at one of its three objects, `socks5_resp_to_local()` between its write and its read, or a tcp handler that has armed the timer and not yet called `async_connect` (`"to_connect"`) |
| `life` | `Released` is the reference count: when no operation is outstanding and no handler is running the destructor's `close()` runs |
| `gone` | the ends (local, remote) that are closed with everything they sent already read |
| `history` | what was sent to local, and three facts needed to state properties; `"overtaken"`: a `cancel()` ended while the other thread was `"to_connect"` and nothing was left of its timer |

A handler is one action, with its guard from the handler's conditions and early
returns, except where the other thread can see it half done: `cancel()` is three
actions, `socks5_resp_to_local()` two, and a handler that attempts a TCP connection
arms the timer in one (`ResolveOk`, `TcpTryNext`) and connects in another
(`AsyncConnect`). The request that arms the timer before it resolves the name is one
action: it runs on the left thread, as a `cancel()` in between would have to. `Abort` leaves completed operations alone
(their handlers are queued with their own result) and may leave a write alone
that has made progress. `TimerExpired` is the lambda: it looks at `expires_at()`
again. It has a bare `this`, so `TimerExpiredDangling` runs it on a destroyed
session, with the outcomes a build can show: an early return or the end of the
process. `UdpConnectedLast`, too, ends the process: it dereferences the end
iterator. So may `UdpReceiveDangling`, a datagram whose sender is written through a
reference to a local variable that is gone. Behaviour of boost::asio (completion, abort, time) and of the peers is
external and nondeterministic.

Left out: the bytes, encryption, logging, and exceptions thrown by a wrong
configuration (a bind address that is not IPv4). A packet is what the handler
finds in it: incomplete, malformed, of a type, with a key that is known or not.
`right_read_timeout_handler` is never bound.

### LocalSession

The client's side of the tunnel, with the same slots and counters. `left` is the
client's socket and thread, `right` those of lssserver and the resolver.

| model | code |
|---|---|
| `resolve`, `connect`, `hello_write`, `exchange_write`, `right_read`, `right_write`, `final_write` | operations of the right side; `final_write` is a bad packet, bound to `cancel` |
| `step1_read`, `step1_write`, `left_read`, `left_write`, `cont_write` | operations of the client's socket: the SOCKS5 greeting and its answer, then the relay; `cont_write` is a write bound to `right_read_handler`, which handles the rest of the buffer on the *left* thread |
| `pc` | a thread between the two sockets of `cancel()`, or inside `pack_data` or `unpack_reply_data` |
| `sent`, `heard` | which packets went to the server and came from it; `"unexpected"` when one came that lssserver, as `ServerSession` shows it, would not send then |
| `endpoints` | how many addresses are left where `async_connect` gives up: none, or, out of descriptors, some, and `connect_handler` tries the next |

The server is not trusted: `right_read_handler` gets any packet at any time.
`pack_data` and `unpack_reply_data` create `aes_encryptor` on first use and
may do so on two threads at once, hence two steps each. `RaceCrash` is what such a
race may do; it happens only after an unexpected data packet.

Left out: payload bytes, those of the greeting too (it is legal or not).
`left_read_timeout_handler` is never bound.

### Store

Threads that are `idle`, `entering` (want the mutex) or `waiting` (in `wait()`).
A critical section is an action. `notify_one()` picks any waiting thread; a
woken thread competes for the mutex like a newcomer and tests again; it may also
wake by itself. `reserve` changes the capacity at any moment, without the store's
lock. The contents are only counted.

### Buffer

What `doc/store/store.md` promises: push and pop are atomic and block only while
there is no room or no element. There is no mutex and no sleeping; a call is
`inside` until it returns. `ImplementsBuffer` maps a thread of `Store` that is entering or
waiting to `inside`. `TakeFairness` and `PutFairness` are weak fairness, with the
enabling conditions written out, which a lost wakeup of `Store` would violate.
The promise to producers ends with the first `reserve()`.

### LssReader

The stream's bytes are numbered. `Boundary` says where packets begin, `Cuts`
where a read may end. `start` is the byte before `lss_request`'s first, `taken`
the last byte read; a read asks for `want` bytes. The length in a header is the
packet's when `start` is a boundary, and any of `MisreadLens` when it is not.
Both sessions run this code; the names are those of the server's.
`whole` says that no read has ended within a header so far.

### LssServer

| model | code |
|---|---|
| `main` | where the thread in `run()` is: opening the acceptor, joining the old thread, assigning the new one, resetting the left io_service, in its loop |
| `stopper` | where the thread in `stop()` is: joining, polling the right io_service, then the left |
| `workers`, `thread_right` | the threads that were made for the right io_service, and which one the member holds |
| `leftStopped`, `rightStopped` | `stopped()` of the io_services; `reset()` clears it, whoever set it |
| `backlog`, `accepts`, `accepted`, `failed` | clients that wait; `async_accept`s that wait, or whose handler is queued with a client or an error |
| `sessions` | how many sessions are alive |
| `orderly` | so far no `stop()` while `run()` was setting up, no `run()` during `stop()`, no `start()` that threw (`Settled`) |

`run()` and `stop()` are cut where another thread can come in between. `detach()`
of a thread that is not joinable throws; in `run()` the exception is caught at
once, in `stop()` it skips the wait for the right io_service (`StopDetachThrows`).

Left out: the signal_sets, which are local to the constructor and die with it, so
that their handlers never get a signal; and the destructor.

### Logging

| model | code |
|---|---|
| `program` | how a program was built: which store (`LOG_PRIORITY_QUEUE` or `LOG_LOCKFREE_QUEUE`), its output threads, whether they call Logrotate's `action()` |
| `store`, `logging`, `pop`, `top` | the priority queue (factor by factor, then by age; erased where it was found) or the lock-free queue (front) |
| `pc`, `val`, `todo` | an output thread in `operator()`: before `pop()`, before the lock, between two streams |
| `_outstreamlock`, `_outstream`, `bind`, `unbind` | the bound streams and their lock |
| `NotDue`, `Rotates`, `Rotated` | `action()` in the thread's loop |
| `Restart` | the process ends at any point and is started again; the store, the threads and what they hold are lost, files stay |
| `steady`, `out`, `done` | needed to state properties: streams bound whenever an entry was output, and what they were given |

The store is atomic: `Store` is shown to implement that, and
`boost::lockfree::queue` is linearizable; `push()` of the priority store blocks
when it is full. lssserver and lsslocal have one output thread and do not call
Logrotate; the demo of Logrotate does, in the output loop, which is the program with
`rotating`. A thread that rotates is alone in the model because `action()` takes no
lock against another writer of the stream.

Left out: the text and format of entries, `get_lock()` and the locks of single
streams, and the return value of `T& pop()`, a reference to a destroyed element
(of a pointer, whose bytes neither the list of the priority queue nor the lock-free
queue touches).

### Logrotate

`step` follows `action()` through the C++ and the Python part: name the archive,
write it, close and truncate the file, open it again. The name is the time and,
if that is taken, the first number that is free. `open()` may fail in either
place. A crash, or an exception of the Python part, which nobody catches, is
`Crash`: the file and the archives stay, complete or not. After opening for
append `tellp()` is 0 or the end, which the C++ standard leaves open. The unit of size is a
line, and every line is another one (`lines`). What is written to a stream whose file
could not be opened again is lost at once and is not counted as a line.

## 4. The runs

| run | bounds | shows |
|---|---|---|
| `server_session` | 2 addresses per name, fair | safety: `TypeOK`, `OneOperationPerDirection`, `NothingBeforeAuth`, `HandlersKnowTheRequest`, `DenyIsFinal`, `ConnectGuarded`, `AnsweredOnce`; liveness: `PeersGoneEndsSession`, `ConnectEnds`, `RefusalEndsSession` |
| `local_session` | 1 address left, any server, fair | safety: `TypeOK`, `OneOperationPerStream`, `NothingBeforeVerified`, `BadIsLast`, and while the server has sent nothing lssserver would not, `EncryptorNotRaced`, `DenyIsFinal`; liveness: `PeersGoneEndsSession`, `ServerGoneEndsHandshake` |
| `local_bad_ends_session` | as `local_session` | violated: `BadEndsSession` |
| `server_timeout_only_when_pending`, `server_timeout_disconnects`, `server_udp_connect_establishes` | as `server_session`, without fairness | violated: `TimeoutOnlyWhenPending`, `TimeoutDisconnects`, `UdpConnectEstablishes` |
| `store` | 3 producers, 3 consumers, capacity 2; `reserve` to 0, 1 or 3, at any time or never; fair | safety: `TypeOK`, `ConsumersNotStranded`, and until `reserve` is called `ProducersNotStranded`; refinement with its liveness: `ImplementsBuffer` |
| `store_reserve` | as `store` | violated: `PushUnblocks` |
| `lss_reader` | 6 packets of 1 to 9 bytes, a buffer for 8, reads end anywhere, fair | `TypeOK`, `NoneTwice`; until a read ends within a header `IntactWhileWhole`; if none does `AllDelivered` |
| `lss_reader_dropped` | as `lss_reader` | violated: `Intact` |
| `lss_server` | 3 calls of `run()`, 2 of `stop()`, 2 clients at a time, fair | safety: `TypeOK`, `AcceptsGoOn`, `OneRightThread`, `NoThreadLeftBehind`; liveness: `StopEnds`, `RunEnds`, `ClientsServed` |
| `logging` | 3 entries, levels INFO and FATAL, 2 streams, 1 crash, a store for 2, an archive after 1 line, both archives named in the same second; four programs; fair | safety: `TypeOK`, `NoneVanishes`, `OnlyPriorityOvertakes`, `UnboundIsLeftAlone`, `LinesKept`, `ArchivesKept`; liveness: `EventuallyOutput` |

The bounds. A server session serves one request, so the number of addresses is its only
parameter: two give a first attempt and one after a failure, and more repeat the
second (the theorems hold for any number). The local session's only parameter
is `MaxEndpoints`; 1 covers giving up at the end of the list and before it. The
counters of the operations are
not bounded: the state space is finite because the session's invariants make it
so. In the store, three threads a side and capacity 2 let producers sleep while
one is on its way and a newcomer overtakes a woken thread; the state space has no
other bound, `size` being limited by the capacities. The reader's buffer
holds 8 bytes of data where the code's holds 4096: one packet exceeds it,
two fit in together, and a read can be cut by the buffer's end. For the server,
three runs are a first use, one that finds an accept and a thread of the run
before, and one that finds the accepts of two; two `stop()`s fall in either.
Two clients let one wait while the other's accept fails. For logging, three
entries over two levels are what it takes for one to overtake and another not to,
with a store for two a thread waits in `push()`; one crash may come at every step
of the second rotation, whose archive finds its name taken; a second crash would
begin where the first one leaves the files. Of the programs, three have a single
output thread: either store with a log file that rotates, and the lock-free store
without, which is lssserver and lsslocal; one has two threads on the priority store.

Deadlock checking is off for the sessions, the reader and the server, which end, and for
logging, which may run out of entries; it is on for the
store. No run uses symmetry: each checks liveness or a temporal property.

Fairness. Where a liveness property is proved, the fairness of an action is written
out as what TLA+ defines it to be, with the states that enable the action named:
`[]<>(~ CanLeft) \/ []<><<LeftThread>>_vars` is `WF_vars(LeftThread)`. The prover
cannot expand ENABLED; TLC confirms in all states of the runs that the named condition
is ENABLED of the action. `ServerSession`: both io_services run what is queued; time
passes; the resolver returns; a final packet (4 bytes) and the packets sent before the
relay runs are taken by the kernel, as the send buffer is empty then; `connect()` and
sending on a UDP socket do not block; an operation on a *connection* whose other end is
gone completes (`PeerGone`: a UDP socket has no such end, and its receive goes on
waiting); a buffer holds finitely many packets, so a thread that handles one after the
other comes to the last (`LastPacket`, strong fairness, as each of them may go to the
remote first). `LocalSession`: both io_services, the resolver, and operations on
connections whose other end is gone. No fairness makes a peer send, read or leave, nor
a TCP connection succeed or fail. `Store`: a thread that wants the mutex gets it (the
critical sections are short, and each is left), for the run that is to pass to some
thread of a side, for `store_reserve` to each (`ThreadFairSpec`: the more fairness,
the more a counterexample says); nobody has to call, nobody has to wake without a
notification. `LssReader`: what was sent arrives. `LssServer`: the threads go on;
`AcceptCompletes` has strong fairness, since an `accept()` that fails (out of
descriptors) starts another one at once, and no client is refused by the kernel for
ever; nobody has to call, connect, or end a session. `Logging`: the output threads go
on and get the lock; nobody has to bind a stream, and `EventuallyOutput` is about what
has been logged, which the model bounds: a steady flow of entries with priority may
keep one without in the store for as long as it lasts.

### What the code does not keep

Six runs check what a comment or a document says and find a counterexample
(`findings` in `PROJECT.json` quotes the lines):

* `server_timeout_only_when_pending`: "The read operation's completion handler
  has not ran" (`session_server.cpp:1170`). An expired wait whose lambda is queued
  behind the handler sends timeout all the same. In the shortest trace the handler
  is `tcp_resolve_handler` with an error, and timeout follows the refusal; behind
  `tcp_connect_handler` it goes into an established relay.
* `server_timeout_disconnects`: `doc/lss/pack.md:42`, 0x05 means the server's
  session is disconnected. `cancel()` leaves the resolver alone, and the session
  connects after its timeout.
* `server_udp_connect_establishes`: a successful UDP connection is to be
  answered with success. `open()` of the socket that is already open always
  fails; with a single address the end iterator is dereferenced.
* `local_bad_ends_session`: `doc/lss/pack.md:45`, 0xff explicitly requires that
  the session be disconnected. `right_write_handler` may be queued behind the
  `cancel()`; it then starts another read of a client that is silent, and the
  session stays.
* `store_reserve`: `doc/store/store.md:24`, push blocks until the store is not
  full. `reserve()` wakes nobody.
* `lss_reader_dropped`: what is left over "can just be dropped"
  (`session.h:126-127`). It is the beginning of the next header, and the reader
  loses its place. It takes no unusual network: packets that follow each other
  closely fill the 4100 bytes of the buffer, and where the buffer ends is chance.

And what the models show beside their properties, as the conditions in them:

* `stop()` while `run()` is between making its thread and `reset()` is undone by the
  `reset()`; `join()` then waits for ever. So may a `run()` during a `stop()`.
  `StopEnds` holds of an `orderly` use.
* A session whose `start()` throws ends the accepting: the exception leaves
  `handle_accept` before `start_accept()`, and the loop of `run()` goes on.
  `AcceptsGoOn` counts these (`thrown`).
* Each restart adds an accept: `handle_accept` answers the abort of the old one
  with a new one, and `run()` starts one of its own.
* An attempt to connect may be left without anything that ends it. The handlers of
  the right thread arm the timer and then call `async_connect`; a `cancel()` of the
  left thread that runs in between, after a timeout packet of the attempt before,
  withdraws the new wait and finds no connection to abort. `ConnectGuarded` and
  `ConnectEnds` except this case (`"overtaken"`) and hold of every other.
* A UDP session may outlive both its ends: a receive that is started by a handler
  queued behind `cancel()` sees no end of a remote. `PeersGoneEndsSession` excepts a
  session that such a receive holds for ever.
* A rotation that is cut short with its archive complete leaves the lines in the
  file as well, and the next archive has them again (`clean`).

## 5. The proofs

TLAPS checks every leaf; the only assumptions are the `ASSUME`s of the component
modules, and what a theorem states as its own.

`ServerSessionProofs`, for any number of addresses:

* `TypeCorrect`: the types are inductive by themselves.
* `Invariance`: none of the safety invariants is inductive. What is, is that the
  operations of a direction are a *token*. `Inv` says that the upstream token is
  in one place (an operation, a thread between write and read or between the timer
  and the connection, a session that has not started, or gone: `UpIs(u)`), the downstream token likewise
  (`DownIs(d)`), and that the two places and the fields `Consistent(u, d)` fit
  together: where the token is says what status, command, reply and
  encryptor must be. A completion leaves the token where it is (`TokensStay`),
  a handler moves it (`UpHandled`, `DownHandled`), the response creates the
  downstream one (`Answered`).
* From it `OneAtATime`, `AuthFirst`, `RequestKnown`, `DenyEnds` follow by
  expansion, and `OneAnswer` for each step.
* `AttemptsGuarded` has an invariant of its own, `TimerInv`: an attempt is guarded
  from the moment its timer is armed, by the timer, by its lambda, or by a `cancel()`
  on its way, unless it has been overtaken. What makes it inductive is that a
  `cancel()` that ends either aborts the connection, or finds the other thread
  `"to_connect"` and then either leaves its timer armed or overtakes it.
* `InOrder` is what the local session assumes of the server. `AcceptedInv`: from the
  acceptance of a key to the exchange that tells of it, no packet is read
  (`AcceptedWaits`), so that nothing denies the client again; `SentInv`: the timer
  is armed, and its lambda queued, only for a session that has a request.
* `DeniedIsFreed` is liveness. Before the relay runs a session does one thing at a
  time (`SequentialInv`): it waits for one operation, or is in `cancel()` on the left
  thread, and the right thread has nothing to run. So a denied session has only the
  deny to write and a `cancel()` in three steps (`DeniedMoves`), each of which the
  fairness of the left thread and of the final packet brings about.

`LocalSessionProofs`, for any number of addresses and any server: `LocalTypes`;
`LocalInvariance`, again of two tokens, with a different beginning: the handshake
is one token, handed from a write to a read and back (`HandshakeInv`), and the
answer to the greeting makes two of it. `PacketsInv` says what has been sent
and heard in which status; `ExpectedInv` what more holds while the server behaves as
lssserver. `OnePerStream`, `VerifiedFirst`, `BadLast`, `EncryptorSafe` and
`DenyLast` follow by expansion.

Liveness of a local session whose server is gone, in three theorems. The handshake
does one thing at a time here too (`SequentialInv`, all of it on the right thread),
and an operation on the lost connection can only fail (`WaitsFail`), so that the one
thing goes through stages without return (`LostSteps`, `StageSteps`).
`ServerGoneEnds`: once the connection was made, or none is tried any more, the
session ends. `AttemptsEnd`: for every n, a session that is connecting with n
addresses left ends, or gets to an attempt with fewer. `ResolvingEnds`: one that
resolves the server's name ends or gets to an attempt. With an induction over n,
which the prover cannot do, they make up `ServerGoneEndsHandshake`.

`StoreProofs`, for any finite sets of threads: `StoreTypes`; `ConsumersWake`, for all
calls of `reserve()`; `ProducersWake` and `SomebodyAwake` until it is called. The
lemmas count the threads on their way: a push brings one more consumer or none was
asleep; a pop takes one element and its own thread. `StoreImplementsBuffer` maps each
step to one of `Buffer` or to none (a thread that falls asleep or wakes up).
`StoreImplementsFairBuffer` adds the fairness: while elements are there and consumers
wait, one of them is awake (that no wakeup is lost), the mutex goes to some thread of
the side infinitely often, and what it does there is the step `Buffer` asks for
(`TakeStep`, `PutStep`).

`LssReaderProofs`, for any packets and any buffer: `ReaderTypes`; `StreamForward` (no
packet twice or late) for any segmentation; `StreamIntact` until a read ends within a
header (`whole`): `lss_request` then begins where the next packet does, since a
dropped rest would have to end within a header. `PacketsAssumption` states the order
of the boundaries for neighbours and for all pairs; the second follows from the first,
by an induction the prover cannot do. `ReaderGetsOn` is the step of another such
induction: for every n, a reader that has delivered n packets (`Lagging(n)`) delivers
one more (`Ahead(n)`), or a read ends within a header. `ReaderBegins` is its
beginning, `AllDelivered` would be its conclusion.

`LssServerProofs`, for any number of runs, stops and clients: `TypeCorrect`;
`AcceptChains`, inductive with the types; and, for an orderly use, `Invariance`
of `Orderly`, which says of every place of `run()` and `stop()` which threads
exist, whether the new one has been assigned, and what `rightStopped` is. From it
`OneWorker` and `NobodyLeft`. Liveness: `StopReturnsAtLast`, `RunReturnsAtLast` and
`ClientsAccepted`. `stop()` goes through the stages of `StopRunning`: joining (the
thread it joins is running under a stopped io_service, or has ended: this
is what `Orderly` is needed for), the right io_service, the left one; nobody
takes a stage back before `stop()` is at the next (`StopSteps`). `run()` returns
because the left io_service stays stopped while it loops. A waiting client needs an accept
(`AcceptsGoOn`) and *strong* fairness of its completion, since errors come
between.

`LogrotateProofs`, for any size and any clock: `Invariance`, whose additional part is
that the archive being written is not complete, and what it holds when it is, up to
the truncation; `LinesAreKept`; `ArchivesAreKept`, which rests on `FreeName`:
of n + 1 names at least one is not among n archives (cardinality), and there is a
first one (`Least`).

`LoggingProofs`, for any programs, streams, levels, priorities and stores:
`TypeCorrect`; `Invariance` of six parts. `Types`; `Control` (where a thread is
says whether it has an entry, streams to write to, and the lock); `Where` (an
entry is in the store, with one thread or done); `Given` (a stream has what is
done and, of the entries in hand, those it is no longer in `todo` for);
`Written` (the lines of the file are numbers of entries that have left the store,
so that no line comes twice); `Ordered` (with one output thread, whatever is in
the store may follow what has been output). `NoEntryVanishes` and
`PriorityAloneOvertakes` follow. So does `UnboundLeftAlone`: a stream that has been
unbound is not written to any more, since `unbind` and an output thread with
streams still to write to exclude each other (`Control`). `UsesLogrotate` is the refinement: `Spec =>
Rotate!Spec`. With it `LinesAreKept` and `ArchivesAreKept` of `LogrotateProofs`
carry over to a program that logs, as `LogKeepsLines` and `LogKeepsArchives`.

Only model-checked: `PeersGoneEndsSession` of both sessions, `ConnectEnds`,
`RefusalEndsSession` for a request that was refused, `EventuallyOutput`, and, but for
the steps of their inductions, `ServerGoneEndsHandshake` and `AllDelivered`. Each goes
on as long as something is left of which there can be any number (addresses, expired
waits, packets, entries): an induction over a temporal formula, which the library
states with an operator as a parameter and no prover here can instantiate. Where the
number of stages is fixed, as for `stop()` or a deny, the theorem is there.

## 6. Not modelled

* Vendored code: most of the source tree by lines is `deel.boost.python` and
  `boost_build`, copies of Boost. It is a library to this program, and what the models
  need of Boost (asio, condition variables, the lock-free queue) they take from
  how the program uses it.
* Code without state or concurrency of its own: the parsing and formatting of
  SOCKS5 messages, configuration files, options and log lines; encryption, whose
  outcomes the sessions take as inputs; the entry points, which start the
  threads in order; `lkeep`, a sequential loop around `system()`; the glue to
  Python. Of these a model would be a copy.
* `boost::lockfree` stores beyond the queue that logging uses.
* Within the modelled components: payload bytes; the overlap of a final packet's
  bytes with those of a data packet (the two writes may be outstanding together in
  `ServerSession`); the effects of using one asio object from two threads at once;
  what a client sends together with its request, which the server drops; the order
  of elements in `Store`; the destructor of `lss_server`; `get_lock()`.
* The two sessions and their connection in one module, see section 2.
