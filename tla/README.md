# AsioNetwork: specifications and proofs

TLA+ modules for the servers of AsioNetwork, the TLC runs that check them on small instances, and theorems about the
core modules whose proofs TLAPS checks. Paths below are relative to the repository.

## 1. The system

The repository is a series of TCP servers on Boost.Asio, each in its own directory and each with its own `main`. In every
one but SyncServer and GrpcServer a single thread, main's, runs the `io_context`, so handlers of one server never overlap.
Concurrency comes from the peer, from the kernel (operations complete between handlers, in any order), from the worker
thread of the logic layer, and from signals and exit.

| Component | State it keeps | Operations | Talks to |
|---|---|---|---|
| Logic layer (`LogicServer/LogicSystem.*`) | `_msg_que`, `_b_stop`, `_mutex`, `_consume`, the worker thread, the map of callbacks | `PostMsg2Que`, `DealMsg`, `HelloWorldCallback`, `~LogicSystem` | called by the read handlers; the callback calls `CSession::Send` |
| Sending half of a session (`CSession.cpp` 45-65, 188-236) | `_send_queue`, `_send_lock`, `_socket` | `Send`, `HandleWrite`, `Close` | called by the worker; `async_send` |
| Receiving half (`CSession.cpp` 67-186, `MsgNode.*`) | `_data`, head and body node, `_b_head_parse` | `Start`, `HandleRead` | `async_read_some`; posts LogicNodes |
| Acceptor and owners (`CServer.*`, `LogicServer.cpp`) | the map `_session`, `shared_ptr`s in handlers and nodes | `start_accept`, `handle_accept`, `ClearSession`, main's exit | creates sessions |
| Context pool (`IOContextPoolServer/AsioIOContextPool.*`) | `_io_contexts`, `_works`, `_threads`, `_next_io_context` | constructor, `GetIOContext`, `Stop`, destructor | main's signal handler |
| Thread pool (`IOThreadPoolServer/AsioIOThreadPool.*`) | one `io_context`, `_threads`, `_work` | constructor, `Stop` | main's signal handler |
| HTTP server (`BeastHttpServer/BeastHttpServer.cpp`) | per connection: socket, request, response, deadline; the static count | `http_server`, `read_request`, `process_request`, `write_response`, `check_deadline` | clients, the timer |
| AsyncEchoServer2 (`Session.*`, `CServer.*`) | a session as above with a head of a length only | `HandleRead` answers each frame by `Send` | clients |
| JsonServer (`Session.*`, `CServer.*`) | head and body nodes, send queue | `HandleReadHead`, `HandleReadMsg`, `Send`, `HandleWrite` | clients |
| AsyncEchoServer (`Session.*`, `CServer.*`) | one buffer; the session is a plain pointer | `handle_read`, `handle_write`, `handle_accept` | clients |
| SyncServer (`server.cpp`, `client.cpp`) | a thread per connection with its array, `thread_set` | `session`, `server`; the client's `main` | clients |
| GrpcServer (`GrpcServer.cpp`, `GrpcClient.cpp`, `demo.*`) | none; a request and a response per call | `SayHello` of client, stub and service | gRPC |
| Generated messages (`msg.pb.*`, `demo.pb.*`) | the fields | `Clear`, `_InternalSerialize`, `ByteSizeLong`, the parse tables | AsyncEchoServer2, GrpcServer and their clients |
| Load test (`tools/ClientTestIOCandIOT/client.cpp`) | 100 client threads, each in a loop of 5000 requests | `main` | the TLV servers |
| AsyncServer, the other `tools/` | see section 8 | | |

LogicServer, IOContextPoolServer and IOThreadPoolServer ("the TLV servers") share `CSession`, `CServer`, `LogicSystem` and
`MsgNode`: the files are identical, except that IOThreadPoolServer binds a session's handlers to a strand.

What is hard here, and what each component has to get right:

- *Logic layer*: posters notify only on the push that finds the queue empty; no wakeup may be lost, `front()` never meets an
  empty queue, and a stop must drain and end. Nodes are handled once, in posting order.
- *Sending half*: `Send` runs on the worker, `HandleWrite` and `Close` on main. One write at a time, in order, nothing
  after an error, a bounded queue.
- *Receiving half*: the stream is cut anywhere; frames must be put together again within the buffers, and
  the two signed numbers of a head may be anything.
- *Owners*: nothing refers to a destroyed session, no session leaks, the map is exact.
- *Pool*: `run()` does not end early; `Stop` ends every thread; contexts are handed out evenly.
- *HTTP*: the deadline races the request, the response and their handlers.
- *Echo servers*: answers in the order of the requests, and with the content of the request once decoded; sessions are
  let go of exactly once.
- *Load test*: many sessions share one queue and one worker; nobody gets another's answer, nobody starves, and a client
  that received too little must not wait for ever.
- *SyncServer*: one reply may come in pieces or be empty, the reply buffer is larger than the request, and main has no way
  to end its threads.
- *GrpcServer*: calls overlap on many threads and the server may end in between.

The hazards, each with its line, are listed in `PROJECT.json`.

## 2. Modules

| Module | Models | Built on |
|---|---|---|
| `FifoChannel` | abstract: items come out in the order they went in, none after a break | |
| `LogicSystem` | the logic queue, its worker and the destructor | implements `FifoChannel` |
| `SendQueue` | the sending half of a session | implements `FifoChannel` |
| `TlvReader` | the receiving half | |
| `ServerLifetime` | who owns a session in LogicServer and IOContextPoolServer, and main's exit | |
| `EchoService` | abstract: answers in the order of the requests, each at most once, with its content | |
| `TlvServer` | one connection of a TLV server from end to end | instances of `TlvReader`, `LogicSystem`, `SendQueue`; implements `EchoService` |
| `LoadTest` | the load test: several clients and their sessions, one logic layer | instance of `FifoChannel` for the logic layer |
| `MsgData` | the protobuf message of AsyncEchoServer2: its bytes and back | |
| `EchoSession` | a session of AsyncEchoServer2 and two of its clients | instances of `TlvReader`, `SendQueue`, `MsgData`; implements `EchoService` |
| `JsonSession` | a session of JsonServer | instance of `SendQueue`; implements `EchoService` |
| `AsyncEcho` | AsyncEchoServer, several sessions | |
| `SyncServer` | SyncServer, its threads and its clients | |
| `HelloMessage` | the messages of GrpcServer: their bytes and back | `MsgData` for the wire format |
| `Greeter` | GrpcServer and its client | two instances of `HelloMessage` |
| `Exchanges` | abstract: one answer at most per connection, for its own request | |
| `HttpServer` | BeastHttpServer | implements `Exchanges` |
| `IOContextPool` | the pool and `main` of IOContextPoolServer | |
| `IOThreadPool` | the pool and `main` of IOThreadPoolServer | |
| `*_proofs` | theorems about the module of that name; `ServerLifetime_proofs` is about `IOContextPool` too (by way of `MCIOContextPool`), `TlvServer_proofs` about `EchoSession` (`MCEchoSession`), and `SmallServers_proofs` about the four servers of `MCSmallServers` | `TlvServer_proofs`: instances of the proof modules of its three parts; `SmallServers_proofs`: of `SendQueue_proofs` |
| `MC*` | the instances for TLC; `MCSmallServers` joins `AsyncEcho`, `SyncServer`, `JsonSession` and `Greeter`, `MCIOContextPool` adds the pool to `ServerLifetime`, `MCEchoSession` puts `EchoSession` in the place of `TlvServer`, with its variables | |

How state and actions correspond to the code:

- **LogicSystem.** `workerPc` is the place of the worker in `DealMsg`; the mutex is held exactly in the states of
  `HoldsMutex`. The two reads of `_b_stop` are separate steps, since the destructor writes it without the mutex. The
  critical section of `PostMsg2Que` is one step, its `notify_one`, after the unlock, another (`notifying`). The destructor
  is `SetStop`, `NotifyStop`, `Join`. `posted` and `handled` are histories.
- **SendQueue.** `Send` and the success branch of `HandleWrite` run under `_send_lock`: one step each. An `async_send` is
  in `writes` until the kernel completes it, in `completed` until its handler runs. A completion may be partial, because
  `async_send` promises no more, and fails after `Close`.
- **TlvReader.** One step per pass of the `while` loop, named for its branch (`HeadShort`, `HeadInvalid`, `NewBodyNegative`,
  `NewBodyShort`, `NewBodyWhole`, `BodyShort`, `BodyWhole`). A frame is what its head says, an `id` and a `len` of 16 bits
  with sign, and the bytes that come after it; where a body is collected these are as many as `len` says. `data` is the rest of the chunk; `copy_len` and `bytes_transferred` are
  implied by it. `NullBody` is the dereference of a null body node, `NewBodyNegative` the allocation
  of a node for a negative length; either ends `HandleRead` (`"crashed"`).
- **ServerLifetime.** A session's owners are the accept handler, the map, the pending read, the pending write and the
  queued nodes; a session is destroyed by the step that drops the last one (`Release`). Queues are counted only.
- **TlvServer.** main runs `HandleRead`, `HandleWrite` and their completions one handler at a time (`Idle`); a pass that
  completes a frame posts it, and needs the mutex to do so; the worker's `Dispatch` calls `Send`. The k-th frame, its
  LogicNode and its answer are the number k.
- **LoadTest.** The client is one thread per connection (`clientPc`, `round`); a receive returns any prefix of what has
  arrived, up to the room asked for, as `socket::receive` does, and its count is not looked at: `short` notes the clients
  it happened to, whose next head is then made of other bytes and may give any length. On the server's side only what is
  shared or ordered is kept: `posted` and `handled` of the logic layer, by the actions of `FifoChannel`, which `logic_queue`
  shows `LogicSystem` to implement, and a send queue per session with one write in progress.
- **MsgData, HelloMessage.** A message is its fields; `_InternalSerialize` gives the bytes, `ByteSizeLong` their number,
  counted apart as the generated code does, and `SerializeToString` the bytes that fit in the size. `Fields` and
  `ParseFromString` take tags one after the other, let the last of a repeated field win, and fail on what is cut short
  or no text; the fields parsed before a failure stay. Of UTF-8 one property is kept: byte 255 is in no text.
- **EchoSession, JsonSession.** The same numbering; `HandleRead` (`HandleReadMsg`) and the `Send` it makes are one step.
  In `EchoSession` a body is the bytes of a `MsgData`, and `Reply` is what the handler makes of it, whether it parses or
  not. `SendHello` is `tools/ClientDriveByThread`, which sends its length in host byte order. In `JsonSession` a negative
  length is `HeadNegative`.
- **SyncServer.** `threadPc[c]` is the place of the thread in `session`, `buffer[c]` its array, with what the memory held
  before; `reply` is what the client prints. main's ways out are `AcceptFails`, `Leave`: destroying a joinable
  `std::thread` of `thread_set` ends in std::terminate (`"aborted"`).
- **Greeter.** A call is the request's bytes, then the request, then the response's bytes (`message`); any number of them
  are in progress. `Fail` is gRPC giving up on a call whose server has gone.
- **IOThreadPool.** `_threads` has the state of every element of the vector, the default ones included; `Stop` is one step
  per join, and is run by the signal handler in main and again by the destructor.
- **AsyncEcho.** `ops[s]` are the operations pending on a session, `done[s]` the completions whose handler has not run.
- **HttpServer.** `op[c]` and `timer[c]` give the state of the connection's one read or write and of its timer,
  including "completed, handler queued"; `close` and `cancel` act on them as Asio defines.
- **IOContextPool.** One step per iteration of the constructor's and of `Stop`'s loops; `run()` returns when its context is
  stopped or has no work.

Abstractions used everywhere: payloads are members of small sets, logging and layout are left out, a handler that no other
thread can observe halfway is one step.

## 3. Runs

All are in `PROJECT.json` with their properties. `small_servers` takes a minute and a half, the others less.

| Run | Instance | What it shows |
|---|---|---|
| `logic_queue` | 2 posters, 4 nodes (one unknown id, one throwing callback) | no lost wakeup, order kept, a stop with work queued drains and exits |
| `logic_stop` (violation) | 1 poster, 2 nodes | the stop notification can be lost: `join` never returns |
| `send_order` | 4 frames, limit 2, partial sends | serial writes, in order, bounded queue, silence after an error |
| `lifetime_owners` | 3 sessions, 3 nodes | no use after release, no leak, exact map |
| `tlv_server` | 3 requests out of 5 kinds (a negative id that is unknown, a throwing callback, an id over the limit, a negative length), buffer of 4, limit 1 | every cut of the stream is put together again, requests are answered in order across both threads, and a head of no valid length ends the reading or the process before any byte of a body is copied |
| `load_test` | 2 clients of 2 requests, receives that return too little, limit 1 | own answers only, nobody starves or hangs, a client in step never meets the limit |
| `echo_session` | 3 frames out of 7 kinds (4 messages, garbage, host byte order with 1 byte, which reads as 256, and with 128, which reads as -32768), buffer of 5, limit 1 | answers in order, which decode to the id and data of the message |
| `reader_uninit` (violation) | 1 frame of the same | `_b_head_parse` true at first sends head bytes into a null body |
| `http_deadline` | 2 connections, a request for every branch | the deadline covers every wait, unique counts, release |
| `pool_stop` | 3 contexts, 2 operations each; no session | no early return, even distribution, `Stop` returns |
| `thread_pool` (violation) | 2 default and 2 running threads | `Stop` joins a default thread; the exit is std::terminate |
| `small_servers` | see below | the four servers that share no session code with each other |

`echo_session`, `reader_uninit` and `pool_stop` are runs of modules that extend `TlvServer` and `ServerLifetime`; the variables
only those have stay as they are initially. Their properties are those of `EchoSession` (`EchoPartsFit`, `Echoed`,
`EchoImplements`, `HeadFirst`) and of `IOContextPool` (`PoolConsistent`, `NoEarlyReturn`, `StopReturns`).

`small_servers` puts four servers in one state space; `running` chooses one in the initial state and only its actions are
taken. What each part shows:

| Server | Instance | Properties |
|---|---|---|
| AsyncEchoServer | 2 sessions, buffer of 2, 3 bytes each | `AllConsistent`, `EchoInOrder`, `Deleted`: one pending operation per live session, the buffer used in turns, each session deleted once |
| SyncServer | 2 clients, arrays of 3 | `SyncConsistent`, `SyncOwnEcho`, `SyncServed`: every thread kept, a client prints its own line, padded with zeros, or less, and comes to its end |
| JsonServer | 4 frames out of 4 kinds (empty, like a head, over the limit, a negative length), limit 2 | `AllConsistent`, `JsonEchoed`, `JsonImplementsEcho`: as for the other echo servers |
| GrpcServer | 2 calls; names of 0, 2 and 126 bytes, and one that is no text | `AllConsistent`, `Greeted`: its own greeting or an error |

Each module has one invariant that conjoins its `TypeOK` with the invariants that say its state fits together; the conjuncts
are definitions of their own with a comment each:

| Invariant | Module | Beside `TypeOK` |
|---|---|---|
| `Consistent` | `LogicSystem` | `FrontExists`: the worker takes `front()` of a queue that has one |
| `Consistent` | `SendQueue` | `QueueBound`: never more than the limit and one |
| `Consistent` | `ServerLifetime` | `MapExact`: the map holds the sessions that still read and whose writes have not failed; `WritesGoOn`: a queued reply has a write under way |
| `PartsFit` | `TlvServer` | `OnePlace`: a request is in one place of its way at a time; `MapExact`; `WellFormed` of `TlvReader`, whose `WithinBuffers` says that no copy goes beyond `_data`, the head or the body node |
| `PartsFit` | `EchoSession` (`EchoPartsFit`) | `AnswersMatch`: what was queued or refused is what was parsed; `MapExact`; `WellFormed` |
| `Consistent` | `LoadTest` | `Lockstep`: a client that received all it asked for has at most one request on its way |
| `Consistent` | `SyncServer` | `ThreadsKept`: a connection waits or has its thread, and every thread stays in `thread_set` |
| `Consistent` | `IOContextPool` (`PoolConsistent`) | `SpreadEvenly`: the contexts are handed out in turn |
| `Consistent` | `JsonSession` (in `AllConsistent`) | `MapExact` |
| `Consistent` | `AsyncEcho` (in `AllConsistent`) | `OneOwner`: a live session has one handler pending, a deleted one none; `BufferStable`: `_data` is not touched while it is being sent |
| `Consistent` | `HttpServer` | `DeadlineCovers`: a connection that waits for its peer has its deadline running or about to be handled; `NumbersUnique`: the pages of `/count` carry 1, 2, ... each once |

**Why the bounds are enough.** Each run reaches the cases its properties are about. In `logic_queue` two posters can both be
between unlock and notify while the worker tests or waits, which is what a lost wakeup takes. `send_order` has a frame more
than fit in the queue, so refusal, the full queue and its emptying all happen. The buffers of `tlv_server` (4) and
`echo_session` (5) are as long as a TLV head or longer than an AsyncEchoServer2 head, and shorter than the largest frame: a
chunk may hold part of a head, several frames or the middle of a body, and the frames lie below, at and over both limits, and below zero.
The messages of `echo_session` are empty, have an id whose varint takes two bytes (300), or data that look like a head. The
longest name of `small_servers` has 126 bytes, so that its length takes one byte in the request and two in the reply.
`MAX_LENGTH` is scaled down (3 to 5 for 2048 and 1024), the limit of the send queue too (1 or 2 for 1024); nothing in the
code depends on their values but the comparisons. `tlv_server` has three answers and a limit of one, so an answer is refused
in some behaviours. Two clients of the load test are enough for one to overtake the other in the shared queue, two rounds
for an answer to be taken for the next one; its limit of one is tight, since a client that lost its place can have two
answers queued. Two HTTP connections are enough for one to overtake the other at the shared counter; three contexts for a
first, a middle and a last one.

`CHECK_DEADLOCK FALSE` is set where the process or all sessions may come to an end, which is so in every module.

**Mutants.** For every property of a passing run `PROJECT.json` names a plausible fault (operators marked `Fault:` in the
modules) with which TLC finds that property violated.

## 4. Fairness

- Threads that can run do run (worker, poster that owes a notification, destructor, pool threads).
- A client of the load test and of SyncServer goes on once it has started: it sends, receives and closes; nobody need start.
- gRPC delivers a request or gives the call up; calls that were delivered are handled.
- The kernel delivers bytes that have arrived and completes every send, with or without an error; the end of a connection
  is reported to a pending read. The event loop runs every queued handler.
- Time passes for the HTTP deadline.
- In `TlvServer`, `HandleRead` is strongly fair: it needs the mutex, which the worker holds now and then, without end if
  its waits keep waking spuriously.

In `small_servers` the servers that do not run stay in initial states in which none of their fair actions is enabled, so
their fairness excludes nothing.

Nothing is assumed of the other clients (they need not send, read or close), of spurious wakeups, of signals or of operations on the
pool's contexts.

## 5. What disagrees with the documentation or goes wrong

| Run | Where | What |
|---|---|---|
| `logic_stop` | `LogicServer/LogicSystem.cpp:67` | "优雅退出" (graceful exit): flag and notification are not under the mutex, so the notification may fall between test and wait, and the process hangs |
| `reader_uninit` | `AsyncEchoServer2/Session.h:50`, and `CSession.h:43` of the TLV servers | "先读包头" (the head is read first): `_b_head_parse` is read before it is written |
| `thread_pool` | `IOThreadPoolServer/AsioIOThreadPool.cpp:18` | "优雅退出" again: the vector starts with default threads, `Stop` throws at the first of them, and out of the destructor the second time |

Seen while modelling, without a run of its own:

- `LogicServer/LogicServer.cpp:6`, against the same promise: the `io_context` is a local of main, the LogicSystem a static.
  Nodes still queued at exit are dispatched when the `io_context` their sessions' sockets belong to is gone. (In
  `ServerLifetime`: `nodes # <<>>` with `mainPc = "unwound"` is reachable.)
- `IOContextPoolServer/AsioIOContextPool.cpp:4`, against the same promise: only the signal handler calls `Stop`. An exception
  in main (the port is taken, say) destroys the static pool with joinable threads: `std::terminate`. (In `IOContextPool`:
  `mainPc = "aborted"` is reachable.)
- `LogicServer/CSession.cpp:52`: `AsyncServer/README.md:6-8` says `async_send` calls back only when all is written or on an
  error. It may complete after a part; `HandleWrite` ignores `bytes_transferred`, the rest of the frame is never sent and the
  next frame follows. (In `SendQueue`: `cut` grows, and `wire` with it.)
- `LogicServer/CSession.cpp:192`: the limit is tested with `>` before the push, so the queue holds up to
  `MAX_SENDQUE_SIZE + 1` nodes, which is what `QueueBound` states.
- `LogicServer/CSession.cpp:103` (and `AsyncEchoServer2/Session.cpp`, `JsonServer/Session.cpp:300`): the length is a signed
  short, compared with the limit from above only. A negative one passes, and `MsgNode` asks `new` for a negative size: it
  throws `std::bad_array_new_length`, which leaves `run()`, and main ends with every connection. (In `TlvReader`:
  `NewBodyNegative`; in `JsonSession`: `HeadNegative`. `Reassembled` says that nothing else ends `HandleRead` but the null
  node of `reader_uninit`, and that the frames before are unharmed.)
- `BeastHttpServer/BeastHttpServer.cpp:144`: `asString` throws for an email that is an object or an array; the exception
  leaves `run()`, and the process ends with all its connections. (In `HttpServer`: the step is taken, and the properties
  accept a process that has ended, so no property is about it.)
- `JsonServer/README.md` says the server parses JSON, but the code that would (`Session.cpp` 94-225) is never called and the
  bytes are echoed.
- The pool servers build their pools and then serve on main's `io_context`. The one of IOThreadPoolServer has no work object
  either, so its threads end at once.
- `AsyncEchoServer2/Session.cpp:149`: the result of `ParseFromString` is not looked at; a body that is no message is answered
  with the prefix. (In `EchoSession`: what `EchoImplements` promises for `Garbage`.)
- `SyncServer/server.cpp:171` answers with its whole array, however much was read, and the client takes as many bytes as it
  sent; a line that arrives in two chunks is answered twice, and what the client prints may end in zeros (`SyncOwnEcho`).
- `tools/ClientTestIOCandIOT/client.cpp:60,69`: a `receive` may return less than was asked for; the client then takes
  bytes of a body for the next head. It never gets another's bytes and comes to an end all the same (`OwnAnswers`,
  `AllFinish`).

## 6. Proofs

Each proof module has an inductive invariant (`IInv`, unless named otherwise), one lemma per action or group of actions
that it is kept, and the theorems. They hold for all values of the constants that satisfy the `ASSUME`s (`ConstantsOK`,
`FramesOK`, and in the `MC` modules `SyncConstantsOK`, `JsonConstantsOK`, `PoolConstantsOK` and `EchoFramesOK`), which TLC evaluates in the runs: bounds are
natural numbers, buffers have at least one byte, lengths and ids of frames are any signed 16-bit numbers, `MAX_LENGTH`, which the code
compares with them, is below 2^15, and a body that is collected has the length its head says; the sets of ids, connections and sessions fit together and do not hold the
value that stands for none.

- **`LogicSystem_proofs`**: `QueueConsistent` (`Consistent`: types and `FrontExists`), `WakeupsSuffice` (`NoLostWakeup`),
  `DrainIsComplete` (`StopDrains`) and `ChannelImplemented` (`ImplementsChannel`). `NoLostWakeup` is not inductive alone:
  the worker may be just about to wait. `Handshake` adds that the queue is empty whenever the worker is about to wait (posters are locked out between its test and its
  wait), and that the flag is set exactly when the destructor has begun. For the channel, `Halfway` says that the worker is
  done with the first nodes posted, has handled as many as have a registered id among them, and that the queue holds the
  others in order. What went into the channel are the registered ones of all that was posted; they are counted by their
  places (`Rank`), which takes the part of an induction over the sequence: `Appended` says what one more node changes.
- **`SendQueue_proofs`**: `QueueConsistent` (`Consistent`: types and `QueueBound`), `WritesAreSerial` (`OneWriteInFlight`),
  `WireIsInOrder` (`InOrder`), `ErrorIsFinal` (`SilentAfterError`, an action property) and `Implementation`
  (`ImplementsChannel`: initial states and every step map to `FifoChannel`). The strengthening is `Stuck`: after an error
  nothing is in progress and the queue is not empty, so no later `Send` starts a write. That is the reason the code is silent
  after an error, although its error branch does not touch the queue. `Counted` says that a node about to be popped has
  reached the wire.
- **`ServerLifetime_proofs`**, about `IOContextPool`: `HandedOutEvenly` (`PoolConsistent`: types, which keep the index of
  `GetIOContext` in range, and `SpreadEvenly`) and `WorkKeepsRunning` (`NoEarlyReturn`). The strengthening says which work objects exist at each place of main, and counts the calls of `GetIOContext` relative
  to `_next_io_context`.
- **`ServerLifetime_proofs`**, about `ServerLifetime`: `ConsistentAlways` (`Consistent`: `MapExact`, `WritesGoOn`), `NeverUsedAfterRelease`
  (`NoUseAfterRelease`) and `DestroyedExactlyAlways`: a session is destroyed exactly when it was created and has no owner
  left. The strengthening says that nothing has happened to a session before it is accepted (`Fresh`), that a failed write is
  not taken up again (`WriteStates`), and that a session's queue is bounded by the nodes posted, since the worker pops a
  node it has answered (`Answered`).
- **`TlvReader_proofs`**: `ReaderKeeps` and `PeerKeeps` (every pass, read and end of the reader, and whatever the peer sends,
  keep the invariant) and `Correct` (the invariant gives `WellFormed` and `Reassembled`), for ids and lengths of any
  signed 16-bit value. `Reassembled` speaks of all the bytes ever
  sent, which a definition would have to build by recursion. The invariant has none: it says that *there are* a stream `T` and
  places `b[i]` in it where the frames end (`Stream`), that each byte not yet parsed is in its place of `T` (`Placed`), and that
  the head or body being collected starts where the last posted frame ends (`Aligned`). A step of the peer makes `T`
  longer; a step of the reader leaves it alone and moves the place. A head over the limit, or with a negative length, may be followed by
  anything: nothing after it is parsed. That `HandleRead` ends early only there, or for want of a node, is `Explained`.
- **`TlvServer_proofs`**: `PartsFitAlways` (`PartsFit`), `ReassembledAlways` (`Reassembled`) and `Implementation` (`ImplementsEcho`:
  the connection, across both threads, both queues and the reader, implements `EchoService`). Its three parts keep the
  invariants of their own modules, by the lemmas proved there (`R`, `L` and `Q` are instances of the proof modules). What
  joins them is `Routed`: the worker is done with the first `Taken` nodes and the queue holds the others in order (`Queued`),
  a node has the number of its frame (`Numbered`), what was handed to `Send` are the registered ones among the first
  (`Handed`), in order (`Ordered`); and `Held`: the map has the session until its reading ends or a write fails.
  For `EchoSession`: `EchoPartsFitAlways` (`EchoPartsFit`), from the same reader, with a head without an id (`E`), and the same
  queue (`S`). What joins these is `Answering`: the frames read are the ones given to `Send`, each once and in order. The
  frame of `ClientDriveByThread`, whose length has its bytes swapped, is a stream like any other: its head is over the limit or negative.
- **`LoadTest_proofs`**: `ClientsInStep` (`Consistent`: types and `Lockstep`) and `OwnAnswersHold` (`OwnAnswers`). Neither is
  inductive: the invariant says of each client how many of its requests are posted, handled and answered in writing (`Stage`),
  that the two shared logs take the requests of a client in their order, and that the bytes on its connection are those of
  the answers written, one after the other. A client in step asks again only when all its bytes have come (`Asking`).
- **`HttpServer_proofs`**: `ConsistentAlways` (`Consistent`: `DeadlineCovers`, `NumbersUnique`) and `Implementation`
  (`ImplementsExchanges`). The strengthening reads off the operation where a connection is, with its request and response
  (`InStage`), says that a connection with an operation or handler left has its deadline ahead of it or was closed by it
  (`Guarded`), and that the numbers given are 1 to the count (`CountExact`).
- **`SmallServers_proofs`**, about runs of `MCSmallServers`: `AllConsistentAlways` (`AllConsistent`), `EchoInOrderAlways`
  (`EchoInOrder`, of every run of `AsyncEcho`), `SyncConsistentAlways` (`SyncConsistent`), `SyncOwnEchoAlways` (`SyncOwnEcho`) and
  `JsonImplementation` (`JsonImplementsEcho`). `EchoInv`: a session is at one of five stages, and what it echoed covers what it
  received up to what `_data` still holds. `SyncInv`: a connection is in the backlog once or has its thread, and what
  arrives at a client agrees with the first buffer its thread sent. `JsonInv`: a stream as for `TlvReader`, in which the two
  reads that alternate have a place known from `pc`, with the invariant of `SendQueue` and the numbers of the frames
  handed to `Send` in order. `GrpcInv`: types.

Only model-checked:

- every liveness property: the prover treats neither fairness nor ENABLED. These are `Processed`, `BusyStopExits`,
  `EventuallyWritten`, `Answered`, `AllFinish`, `Echoed`, `JsonEchoed`, `Released` (of two modules), `StopReturns`, `Deleted`,
  `SyncServed` and `Greeted`;
- `EchoImplements`, which rests on what the codec computes, and the violations (section 5);
- what `MsgData` and `HelloMessage` compute: recursion over data, which the prover cannot do by induction. The runs check
  it on the messages above.

## 7. Assumptions

- For a length of -1 `MsgNode` asks for no bytes at all and writes to them: the behaviour is undefined from its constructor
  on, and the models end there as they do for the other negative lengths, where `new` throws.
- When an exception has ended main's `run()`, the worker of `TlvServer` may still take steps, as it may until the process is
  gone.
- `_b_head_parse` is uninitialised: the runs of `EchoSession` include both values; `tlv_server` is about what follows a good
  start.
- After main has destroyed its `io_context`, a callback's `Send` is undefined; `ServerLifetime` counts the answer and starts
  no write.
- `async_send` on a session whose socket main closes at the same moment is a race on a library object; the models order
  the two either way.
- `GetIOContext` is called by the main thread, one call at a time. The servers themselves never call it.
- The 60 seconds of the HTTP deadline and the 2 seconds `JsonServer` sleeps have no length in the models.

- `MsgData`: ids are not negative, texts are ASCII, no field of another number is on the wire. No client of the repository
  sends anything else.
- `LoadTest`: the process of the server may end at any time, but one session does not fail alone; that is in `TlvServer` and
  `ServerLifetime`. After a short receive the client may take a body apart that is no object and end by an exception
  (`client.cpp:73-74`); the model's client always goes on (`ReceiveBody`), and no property profits from it.
- `ServerLifetime`: `Start` and the insert into the map are one step (`AcceptOk`). Both are made by `handle_accept`, on the
  only thread that runs handlers, so nothing can come in between. Exceptions that leave a handler are not in it; they end
  the process (`NewBodyNegative` in `TlvServer`).
- gRPC delivers a request at most once (no call of the repository is retried) and carries bytes unchanged.

## 8. Not modelled

- `AsyncServer`: a fragment without a server that does not compile (its first `bind` of each kind lacks the object).
- `JsonServer/Session.cpp` 94-225 (`HandleRead`): nothing calls it.
- Generated code beside the messages' bytes, the stub and the service: descriptors, arenas, swap, merge, move, the
  asynchronous stubs. Nothing in the repository calls it.
- `tools/checkEndian.cpp`, and the clients that ask once (`ClientTlvFormat`, `JsonSerializeClient`): the peers of
  `TlvReader`, `TlvServer` and `JsonSession` send what they send, and more.
- `Singleton`: `call_once` around one `new`; when the instances are destroyed is in `ServerLifetime` and the pools' modules.

## 9. Plan

Order of the work, the most important behaviour first; these steps are done.

1. The logic queue and the send queue with their abstract channel, checked and proved.
2. The reader and the lifetime of sessions.
3. The context pool, the HTTP server and the echo servers with their abstract services.
4. The composition of a TLV connection (`TlvServer`).
5. The thread pool, SyncServer with its client.
6. Several connections that share the logic queue, with a client that waits for its answers (`LoadTest`).
7. The payloads: `MsgData` in `EchoSession`, `HelloMessage` in `Greeter`.
8. Proofs of the parts, of a TLV connection that is made of them, of `HttpServer` and of the small servers.
9. Proofs of the load test, of a session of AsyncEchoServer2 and of the logic queue as a channel.
