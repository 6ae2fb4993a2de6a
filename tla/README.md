# A TLA+ model of the Kryndel runtime

Kryndel is a statically checked language with an interpreter, native back ends
and a standard library written in Go, packages written in Kryndel, and a native
Qt adapter in C++. This directory holds TLA+ modules for the parts of it that
are hard to get right by testing: what happens between goroutines, at shutdown,
around timeouts, on a connection that may break at any byte, and in a table of
handles for objects that somebody else owns. Every definition is translated from
the source; `PROJECT.json` names the lines.

## The system and its parts

| Part | State | Operations | What is hard | What makes it correct |
|---|---|---|---|---|
| Channels, actor mailboxes (`internal/kry/runtime.go`) | buffered Go channel `Data`; `Closed`/`Done` under a mutex | blocking, try and timed send/receive, close | `isClosed` and the `select` are two steps; a select takes any ready case; timers and contexts race with values | FIFO, nothing lost or duplicated, answers match what happened, close and cancellation wake everyone |
| Workers, task groups, shutdown (`runtime.go`, `kir_exec.go`) | `Runtime.Threads`, `Thread{Done, Diag, Joined}`, contexts, `TaskGroup`, tracked handles, the shutdown timer | spawn, join, join with timeout, cancel, group cancel and wait, `cleanup` | goroutines end while main joins, waits, fails, times out or shuts down | joins see the final outcome, nobody is detached, no failure or leak is hidden, shutdown ends |
| MIR interpreter (`kir_exec.go`) | scopes, deferred blocks, budgets | statements, calls, defer, propagation | errors inside deferred blocks, budgets at their limit | each deferred block once, first error kept |
| Dispatch table (`runtime.go`) | slot -> ordered handlers | register, reorder, dispatch | entries of main and workers meet in one ordered list, at its limit | every handler once, priority order, ties in order of registration |
| Discord gateway (`discord_gateway.go`) | session socket, pending queries, outbound window, failures | bind, send, request members, chunk, rate limit, take failures, unbind | two mutexes, duplicated and late chunks, expiry, limits | every query ends in one result or one failure; the window is respected up to frames that are written late |
| Discord REST limiter (`discord_http.go`) | buckets, global limit | wait, observe, retry | stale `now`, stampede at reset, 429 | no request while the bucket is exhausted |
| Discord cache (`discord_cache.go`) | LRU list, TTL | put, merge, get, delete, ingest | eviction and expiry | capacity, no stale object |
| WebSocket client (`websocket.go`) | closed flag, pending read, fragments | send, receive with timeout, close | reader goroutine survives a timeout; pongs, sends and the close frame share the stream; cancellation in the middle of a frame | whole messages, in order, once; frames not mixed; nobody waits for ever |
| Gateway session loop (`packages/discord/gateway.kry`) | sequence, session id, `awaiting_ack` | HELLO, Identify, receive, heartbeat, close codes, reconnect | all it knows of the peer comes through timeouts and error texts | a silent peer is noticed; the socket is always closed; a close code decides what happens next |
| Qt 6 bridge (`packages/qt6/native/qt6_bridge.cpp`) | `objects` (QPointers), `values`, `subscriptions`, `nextObjectId`, the application and its thread | application, new, get, set, call, connect, events, delete, value operations, shutdown | Qt deletes objects without telling; requests from several threads; signals caught while objects come and go | a handle means one thing; signals once and in order; shutdown leaves no managed object |
| TCP, UDP, SQLite handles (`socket_sqlite.go`) | handle, closed flag | open, use, close | mutex held across blocking calls | closed once, no use after close |
| Package manager, registry (`package.go`) | manifest, lock file, vendor tree, cache, index | install, uninstall, download, publish | crash or error between two writes | the three files agree |
| Front end, KIR, code generators, C runtime, LSP, debugger, CLI, FFI, platform, self-hosted compiler, generated Qt bindings | | | | pure translation, protocol front ends or generated code |

How they interact: the main program calls builtins; `thread_spawn` starts a
goroutine with a context derived from the invocation's and a private scope that
holds only global channels and shared cells; workers and main meet in channels.
The checker rejects spawning inside a worker (`checker.go:1487`), and a worker can
reach no `Thread` handle, so only main spawns, joins and cancels. When the program ends,
`Runtime.run` calls `cleanup`, which cancels every worker, closes every channel,
waits for the workers under one timer and closes what is still open.

## Modules

| Module | Content |
|---|---|
| `BoundedQueue` | what a channel promises: a closable bounded FIFO queue, each call one atomic step between invocation and return |
| `Channel` | the builtins as the code performs them: `isClosed` test, then select |
| `ChannelProofs` | proofs about `Channel`, including that it implements `BoundedQueue` |
| `Workers` | one invocation: workers, contexts, task group, wall clock, shutdown |
| `WorkersProofs` | proofs about `Workers` |
| `DiscordGateway` | the gateway session: outbound budget, member queries and their chunks |
| `DiscordGatewayProofs` | proofs about `DiscordGateway` |
| `WebSocket` | a WebSocket connection after the handshake: owner, other senders, reader goroutine, peer |
| `WebSocketProofs` | proofs about `WebSocket` |
| `GatewayLoop` | extends `WebSocket` with `run_gateway_session`, which owns the connection |
| `GatewayLoopProofs` | proofs about `GatewayLoop`, including that it uses the connection as `WebSocket` allows |
| `QtBridge` | the Qt adapter: handles, the object tree, subscriptions, event collection |
| `QtBridgeProofs` | proofs about `QtBridge` |
| `InductionLemmas` | induction and recursion over numbers, sequences and finite sums, for the proofs |
| `MCChannel`, `MCWorkers`, `MCDiscordGateway`, `MCWebSocket`, `MCGatewayLoop`, `MCQtBridge` | values for TLC |

### `Channel`

`data` is the buffer of `Channel.Data`, `closed` is `Closed` together with
`Done` (set in one critical section). `pc[p]` says whether process `p` is
outside, about to call `isClosed`, or in its select; the history variables
`answers`, `accepted`, `delivered` and `late` record what calls returned, what
went in and out, and whether the channel was closed when a call was made.
`Call`, `CheckClosed` and one action per case of the selects (`SendCase`,
`ReceiveCase`, `DoneCase`, `ContextCase`, `TimerCase`, `DefaultCase`) are the
steps of an operation; which operation has which cases comes from the code: the
blocking ones listen to the context, the timed ones do not, `thread_try_send`
does not listen to `Done`. `actor_send` has the steps of `thread_send`, and the
actor receives those of the thread receives, so a mailbox is a channel.

Abstractions. A value is `<<p, k>>`, the one process `p` sends in its k-th call.
A Go select picks among its ready cases, which is the choice between enabled
actions; `DefaultCase` is enabled when no other case is. A blocked sender that
Go would resume by direct hand-off completes when there is room, which is the
same behaviour of the buffer. Time is not modelled: a timer may fire at any
moment. The copyability test and the test for a negative timeout are one choice,
`BadArgument`.

### `Workers`

A thread is its position in `r.Threads`; owner 0 is main. `mode[t]` is the stage
of worker t's goroutine: computing, in a timed wait, in a host call, and then
`exiting` (function returned, handles closed), `published` (diagnostic stored
under the mutex), `done` (`Done` closed). `ctx[o]` is an owner's context and the
first cause that ended it. `main` and `todo` say where the main program is and
which threads the loop it is in still has to visit: `join`, `wait` and `drain`
(the two loops of `task_group_wait`), then `cancel`, `reap` and `await` (the
loops of `cleanup` and the select inside), `returned`. `result` is `prior` in
`cleanup` and what `run` returns; `failure` is what the program itself ended
with. `raised`, `waitedFor` and `waited` are there for the properties.

`Look` is the critical section of cleanup's loop that reads `Joined` and `Diag`;
`AwaitDone` and `AwaitDeadline` are the two cases of its select. The shutdown
timer is `armed`, `fired` (a tick in its channel) or `consumed`.

Abstractions. A diagnostic is its category and the owner it arose in. `open[o]`
says that some handle tracked by o is open. Main is inside one call at a time,
so the state of a loop is a place and a set; loops go by spawn order. The cancel
loops of the task group, which nothing can observe half-way in a way that
matters to a worker's context, are one step; the one of `cleanup` is stepwise.
A `thread_join_timeout` that times out changes nothing but where main is. Host
calls that ignore the context (a blocking read, a process, FFI), and timed waits
on a channel a worker made itself, which the main runtime does not know and so
does not close, are the mode `host`, for the workers in `Stubborn`, and the place
`host` for main. There is one task group. Left out: a `thread_spawn` whose capture
fails after the thread was appended (`kir_exec.go:3513`), which leaves a cancelled
thread whose `Done` nobody closes; it needs two global bindings of one name, which
the checker rejects.

The model is the interpreter's path over validated MIR (`spawnKIRWorker`); the
syntax tree interpreter kept as a test oracle has the same structure. The REPL
(`RunForREPL`) does not call `cleanup` and is outside the model.

### `DiscordGateway`

The variables are the fields of `discordGatewayState`: `socket` (with the
connection's closed flag), `chunks` and `chunkBytes`, `fullListAt`, `outbound`
and `failures`. `sessionMu` is a variable because it is held during a network
write; a critical section of `mu` is one step. `clock` is the time; `arg[p].now`
is the local variable `now`, which `discord_gateway_request_members` reads before
it waits for `sessionMu`. A query is a nonce, a guild, the chunk indices received
and their bytes; `needs` says whether it asks for the full list ("members") or
for presences, that is, which intents it requires.

| Action | Code |
|---|---|
| `Bind`, `Unbind` | `discordGatewayBindSession`, `discordGatewayUnbindSession` |
| `SendUpdate`, `UpdateReturns` | `discordGatewaySend` before and after the write |
| `RequestMembers`, `RequestRefused`, `RequestAccepted`, `RequestSent`, `RequestNotSent` | `discordGatewayRequestMembers`: up to the mutex, under both, and after the write |
| `ChunkIgnored`, `ChunkRejected`, `ChunkKept`, `Encode` | `discordGatewayMemberChunkResult`, whose result is encoded after `mu` is released |
| `RateLimited`, `TakeFailures` | `discordGatewayRateLimitResult`, `discordGatewayTakeMemberQueryFailures` |
| `PeerCloses` | the reader marks the connection closed |

`Loop` is the process in `Bot.run`: it alone binds, unbinds (always before it
connects again) and passes events on, one at a time. Workers share the state
(`kir_exec.go:3540`), so they may send and query while it does so. The peer is
arbitrary: any chunk with valid metadata may arrive at any time, any number of
times. A write may fail without the connection being marked closed, as in the
code. `told`, `reports`, `stamps` and `late` (the frames written later than the
time they were entered with) are history. Argument validation changes no state and
is left out.

### `WebSocket` and `GatewayLoop`

`closed`, `pendingRead` and `writeMu` are the fields of `websocketConn`;
`connOpen` is the state of the `net.Conn`, `cancelled` that of the context.
`reader` is the place of the reader goroutine in `receiveMessageRaw`, with the
fragments it has collected in `message`; `writer[p]` is the place of `p` in
`sendFrame`, where `p` is the owner, another thread or the reader with a pong.
`wire` is the frame on its way from the peer and `midFrame` says that part of it
has been read. A receive that times out leaves `reader` and `pendingRead` as they
are. `Marks` and `ReaderHangsUp` are two steps because the flag is set before the
connection is closed.

| Action | Code |
|---|---|
| `EnterSendFrame`, `Acquire`, `WriteHead`, `WriteRest`, `WriteFails` | the `isClosed` test, then `sendFrame` with its two writes and its failures |
| `ReceiveBegins`, `ReceiveReturns`, `TimerFires` | `receiveMessageTimeout` |
| `ReaderStarts`, `ReadBegins`, `ReadFails`, `ReadRefuses`, `Read...`, `Pong...`, `ReaderDelivers` | the goroutine: `receiveMessageRaw` and `receiveFrame` |
| `SendBegins`, `SendReturns`, `CloseBegins`, `CloseMarks`, `CloseReturns` | `websocket_send`, `websocket_close`, `closeResources` |
| `Hello` ... `HeartbeatSent` | `run_gateway_session` |
| `HangUp`, `HungUp`, `Aborts` | the end of a session in `Bot.run`, or of the program: a `websocket_close` that fails is a runtime diagnostic (phase `failed`), and after a cancellation it is `closeResources` that closes |

A frame is its opcode, `fin`, a size and, for a close frame, the class of its
code: terminal (4004, 4010 to 4014), session expired (4003, 4007, 4009) or other.
The peer may send any frame at any time and leave without a close frame. Reserved
opcodes are one more opcode; reserved bits and masks behave as a frame that is too
long, a close frame without a valid code or reason as one of another code, text that is not UTF-8 as a refused message; they have no frames
of their own. The size of what is sent, masking and the handshake are left out.
`GatewayLoop` takes the content of a text message as a choice among what the loop
can do with it.

### `QtBridge`

`objects`, `values`, `subscriptions`, `nextObjectId`, `running`
(`application`) and `appThread` are the adapter's globals; `alive`, `parent` and
`emitted` are Qt's side. An entry of `objects` whose object is not alive is a null
QPointer. `stateMutex` makes a request one step, except for `events`, whose event
loop lets Qt act (`LoopEmits`, `LoopCreates`, `LoopDestroys`) before the collection
(`EraseGroup`, `TakeSignal`) and `writeResponse` (`Respond`). A subscription has
its spy's queue and, as history, what the caller was told and what it missed.

Abstractions. A request that fails changes nothing and is a stutter. A call does
one of the things to objects that the bridge can meet: take or release a child,
create one, return one, destroy one, emit a signal; its other arguments and
results, and the contents of values and properties, are not in the model, and
operations that only read them (`describe`, `constructors`, ...) are no actions.
Objects that Qt makes in the event loop (`strays`) belong to the application's
thread as the others do; those that never get a handle are Qt's to destroy, and
may survive a shutdown. The two loops of shutdown are one step, `Doomed`. One
signal kind per object. Only the response of
`events` may go unread: for the others nothing is lost but a handle.

## Runs

| Run | Instance | Result |
|---|---|---|
| `channel_calls` | three processes, capacity requested 0 (made 1), 5 calls, fairness | types and capacity, `LateSendRejected`, `FirstInFirstOut`, `AnswerTellsTruth`, refinement of `BoundedQueue`, `CloseWakes` and `CancelWakes` hold |
| `channel_drain` | as `channel_calls` | **violated**: a receive may answer "closed" with values in the buffer |
| `workers_safety` | 2 workers in or outside the task group, one may sit in a host call, every operation, handles, debugger, deadline | `JoinSeesOutcome`, `NobodyDetached`, `SuccessHidesNothing`, `ReportsFirst`, `GroupWaitTells` hold |
| `workers_liveness` | 2 workers, both of which may sit in a host call, as may main; timed waits, joins and group waits, wall clock, fairness | `CleanupEnds` and `InvocationEnds` hold |
| `workers_second_stubborn` | 2 workers, the second may sit in a host call | **violated**: `cleanup` waits for ever (`ShutdownEnds`) |
| `gateway_queries` | main and a worker, 2 queries, 2 nonces, 2 guilds, 2 chunks, 2 bytes in all, 2 events per window, fairness | `OneOutcome`, `BytesAccounted`, `NoCompletePending`, `BudgetKept`, `QueryEnds` hold |
| `websocket_calls` | an owner that makes any calls, 3 frames of 9 sorts, messages of at most 2 units, fairness | `MessagesWhole`, `TimeoutKeeps`, `ReadsAligned`, `FramesWhole`, `ReceiveEnds`, `ReaderEnds` hold |
| `gateway_loop` | the session loop, a worker that sends, 3 frames of 5 sorts, fairness | types, `HungUpForGood`, `CloseCodeDecides`, `SilenceEnds` hold |
| `gateway_close_code` | the session loop, a HELLO and a terminal close | **violated**: the bot resumes |
| `qt_handles` | 2 threads (symmetric), 3 objects and the QApplication, 3 handles | `OneMeaning`, `HandleLasts`, `ShutdownComplete`, `OnlyStraysCross` hold |
| `qt_events` | 2 objects, 2 signals each, 2 spies each, batches of 1 or 2, fairness | the size of a batch, `EventsAreLive`, `SignalsOnce`, `SignalsArrive` hold |
| `qt_retry` | a buffer that is sometimes too small | **violated**: signals are lost |

Each violated property restates a sentence of the documentation; the findings in
`PROJECT.json` quote it beside the line of code that differs.

Bounds. Capacity one makes the buffer both empty and full within one call, and
two calls per worker let a process fill it, block on it and be overtaken; the
second sender and the receiver are enough for reordering. Two workers are enough
for one to end while main deals with the other and for the shutdown timer's tick
to be taken by the first of two. In `workers_liveness` any of them may be stubborn,
so that the stubborn one can be the first, the second or both. `Menu` and `MaxCalls` restrict the instances
only: the theorems hold for all their values. Deadlock checking is off because a
program may block for ever on a channel nobody uses (`Channel`) and an
invocation ends (`Workers`).

In `DiscordGateway` two nonces share the byte budget and compete for the pending
slot, and a nonce can be used again after its query ended; two chunks of size one
and two bytes in all make every order, duplicate, contradiction and excess; a lifetime of one tick and
a last instant of three or four let a query expire while another call waits for
the mutex. `MaxQueries` and `MaxClock` end the behaviours, so deadlock is not
checked; queries start early enough to expire before `MaxClock`.

In `WebSocket` three frames make a message of two or three fragments, a control
frame between two fragments, a message after an abandoned one, and one frame for
each of three receives; a limit of two units is exceeded by the third fragment or
by one frame of size three. In `QtBridge` three objects make a chain in which the
middle one has no handle; three handles go to them, to a value or to the
QApplication, before or after a restart;
two spies with two signals fill a batch in the middle of a spy or of a group.
`Menu` keeps apart what would only multiply the states: `qt_handles` has no
signals and `qt_events` no adoption. Connections end, programs may stop polling
and handles run out, so deadlock is not checked.

Fairness. In `Channel`: a goroutine about to lock a mutex or with a ready select
case proceeds, which the Go scheduler and the runtime's mutexes guarantee. In
`Workers`: the interpreter's own steps and the goroutine's exit proceed; timers
fire; a worker is only sure to return once its context is done, because `step`
then fails (no program is assumed to terminate by itself); a timed wait is only
sure to end once its channel is closed. Host calls, of workers or of main, are never
assumed to return. `CleanupEnds` therefore says that shutdown ends unless, with
the timer's one tick used up, it waits for ever for a worker in a host call;
`InvocationEnds` that the invocation ends unless main is in a host call of its own
for ever, waits for a worker in a host call or a timed wait, or shutdown is held as
above. In `DiscordGateway`: time passes,
a call waiting for `sessionMu` gets it in the end (Go's mutexes hand over to a
waiter that starves) and a write ends by its deadline, and `Bot.run` takes the
failures after every event and every receive timeout. Nothing is assumed of the
peer. In `WebSocket`: the reader runs while it can, a call that can return does, a
write ends, if only by its deadline, and `writeMu` does not starve a writer (strong
fairness of each writer). In `GatewayLoop` also the interpreter runs the loop. In
`QtBridge`: the event loop ends, because a timer quits it, the collection runs,
and the program goes on polling while its application runs. `SignalsArrive` is
about finitely many signals; an object that emits in every event loop could keep
those with higher handles waiting.

## Divergences without a run of their own

* A worker whose function fails with a handle open: join raises the leak, not the
  first diagnostic (`kir_exec.go:3546`, docs/concurrency.md:22).
* A failure of a worker that nobody joins is dropped at shutdown unless it is a
  resource diagnostic (`runtime.go:1270`, docs/language.md:194).
* `task_group_wait` notices failures in spawn order, so siblings are cancelled
  late (`runtime.go:3540`, docs/language.md:198).
* docs/concurrency.md:22 says that shutdown "preserves the earlier diagnostic unless
  the worker is the first failure". A program that fails by itself always reports
  that failure, also when a worker's resource diagnostic came first
  (`runtime.go:1270`), and among workers the order of spawning decides:
  `ReportsFirst`.
* docs/discord.md:77 promises at most 110 requests per connection and 60 seconds. A
  request enters the budget with a time read before the wait for the session mutex
  (`discord_gateway.go:285`, `:317`) and is written later, so a window of written
  frames can hold one frame more for each process that writes: with a limit of 2 and
  windows of 2 ticks, Identify at 0, a worker's request entered at 0 and written at 1,
  and two updates at 2, when the budget has forgotten 0. `BudgetKept` states the bound with that excess;
  TLC refutes the one without it, and the one with a single frame more.
* The stamp of a full member list is read before the wait for the session mutex,
  so two may go out closer together than 30 seconds (`discord_gateway.go:285`,
  docs/discord.md:77).
* A session that is to be resumed ends the program if its `websocket_close` fails:
  because the close frame cannot be written, as after the failed heartbeat that
  ended the session, or because the reader marks the handle between `isClosed` and
  `close` (`runtime.go:2995`, `websocket.go:168`). docs/discord.md:64 speaks of a
  recovery path. `CloseCodeDecides` says when it is taken: when the peer's close
  frame was read before the session ended.
* A second `websocket_close` is silent (`runtime.go:2995`), while
  docs/language-spec.md:248 speaks of a diagnostic.
* A write deadline cuts a frame and leaves the connection open (`websocket.go:245`);
  a message of the wrong type is lost though the error names the call that would
  take it (`websocket.go:268`).
* docs/qt6-native.md:13 wants thread affinity preserved. An object that Qt made in the
  event loop, that has no handle at shutdown and nothing managed above it, lives on;
  when the application starts again on another thread a call may return it, and the
  bridge does not ask for its thread: `OnlyStraysCross` excepts it, and TLC finds
  that behaviour when it does not.
* A program that asks for the handle of the QApplication
  (`call_static QCoreApplication.instance()`) makes shutdown, or `delete`, destroy it
  behind the unique_ptr that owns it, which `application.reset()` destroys again
  (`qt6_bridge.cpp:1630`). The model goes on as if that second deletion did nothing.
* Further limits of the adapter that the abstractions hide: captured `QObject*`
  arguments are dereferenced after the event loop (`:1745`), value handles of an
  unread response stay until shutdown (`:883`), an object whose parent does not
  suit is created and lost (`:2712`), enum values are cut to their storage size
  (`:477`), and other threads wait while the event loop holds the mutex (`:1730`).

## Proofs

`ChannelProofs`, for any set of processes, capacity, menu and number of calls:

* `ChannelTypeCorrect`: types, the capacity bound, and `Passed` (a checked send
  that has reached its select was called before the close). `Passed` is the
  strengthening that makes `LateSendRejected` inductive, as `closed` is stable.
* `LateSendsFail`, `ChannelIsFifo`, `AnswersAreTrue`: the safety properties of
  `channel_calls`. FIFO is inductive on its own given the types; truth of
  answers needs that the number in a value never exceeds the sender's calls.
* `ChannelRefinesQueue`: every step of the code maps to a step of `BoundedQueue`
  or to a stutter (`CheckClosed` when the channel is open).

`WorkersProofs`, for any worker limit, set of stubborn workers, menu, with and
without a wall clock:

* `WorkersTypeCorrect`, `JoinsAreFaithful` (from `WorkerInv`: what a goroutine's
  stage says of its diagnostic and its handles);
* `NoWorkerDetached`, `SuccessIsHonest` from `ShutdownInv`, which says what `cleanup` has established about the threads
  that have left `todo`. It is needed because the properties speak of the state
  after the last iteration only; `DoneIsFinal` (an ended goroutine stays as it
  is) carries the facts from one iteration to the end;
* `ReportIsDetermined` from `ReportInv`: while cleanup's loop runs, `prior` is the
  program's failure or comes from the first exhausted worker among those that have
  left `todo`;
* `GroupWaitIsTruthful` from `GroupInv`, the same for the loops of
  `task_group_wait`.

`WebSocketProofs`, for any set of sending threads, message limit and frames of the
peer:

* `FramesAreWhole` from `MutexInv`: whoever is between the two halves of a frame
  holds `writeMu`. `FramesWhole` alone says nothing about who may take the lock next;
* `ReadsAreAligned` from `AlignInv`: part of a frame stays in the stream only with
  the reader that reads it, or after the handle was closed or the context done, in
  which case the next reader stops before it reads. That there is one reader at a
  time (`reader # "none" => pendingRead = Empty`) is part of the invariant, for a
  second reader could start while the first is in the middle of a frame.

* `MessagesAreWhole` from `ReadInv`: the fragments collected so far are consecutive
  data frames without fin whose size is within the limit, and the last of them is
  the last data frame that was read. Without the latter, "consecutive" is not kept
  by the next fragment. `WebSocketTypeCorrect` is the other half of that induction;
* `TimeoutsKeep` from `KeptInv`: besides the property, a reader that has not finished
  has no result. The property alone would let a new message overtake.

`GatewayLoopProofs`, for the same constants:

* `LoopImplementsOwner`: every step of `run_gateway_session` is a step of the owner
  in `WebSocket` or leaves the connection alone, so `LoopSpec => Spec` and everything
  proved of `WebSocket` holds of the gateway's connection;
* `LoopTypeCorrect`, which rests on it;
* `SessionsHangUp` from `HangInv`: whoever marks the handle closed, the reader or
  `websocket_close`, is the one that closes the connection, and the loop ends only
  after its call of `websocket_close` has returned or has found the mark, whether
  Bot.run then goes on or the program fails;
* `CodesDecide` from `CodeInv`: a close code is known only of a marked handle, so the
  close that follows answers at once and cannot fail.

`DiscordGatewayProofs`, for any processes, guilds, finite set of nonces, chunk sizes,
limits and times:

* `GatewayTypeCorrect` from `TypeOK /\ CallInv`: a call that writes holds `sessionMu`,
  a call between its steps has a query in its registers, and no call's time is in
  the future;
* `BudgetIsKept` from `BudgetInv` and `LateInv`: what `outbound` and the history hold of
  the last window is the same, as pruning with an older time removes less; and of the
  frames written later than they were entered each process has at most one in a
  window that does not count it already;
* `BytesAreAccounted` and `NoneLeftComplete` from `QueryInv`, which adds that a free
  slot holds nothing. The sum over the nonces is taken apart and put together again
  with the lemmas on `SumOver`;
* `OutcomeIsUnique` from `OutcomeInv`. A query passes through up to four places: the
  pending table, the encoder, the list of failures, the reports. `Unique` says that
  it is in each at most once, `Apart` in no two of them, `Answers` that one whose
  caller was told "ok" is somewhere, `Askers` that calls under way hold different
  queries, `Ended` that an unbound session has nothing left. The lemma on `Moved`
  covers all actions that take queries from one place to the next at once.

`QtBridgeProofs`, for any threads, objects, handles, signals, spies and menu:

* `HandlesMeanOne`, `HandlesLast`, `ShutdownsComplete`, `ThreadsAreApart` from
  `CoreInv`. They need one another: a handle stays with its object (`Lasting`)
  because a live object has no second one (`Distinct`); nothing that requests created is
  shared between threads (`Owned`) because a stopped bridge leaves no managed object alive
  (`Stopped`), which holds because every live object a program asked for has a
  handle;
* `BridgeTypeCorrect`, `EventsStayLive` from `PollInv`: between two requests there
  is no response under way, so no event in one outlives the handle it names;
* `SignalsComeOnce` from `CountInv`: what was told, is in the response and is in the
  spy is, put together, rising and consists of the signals since connect that were
  not missed. Sequences are described by order and contents here, as that is what
  taking from one and appending to the other keeps.

Induction over data. The library's induction theorems take an operator, which the
provers cannot instantiate. `InductionLemmas` states induction with a set instead
(`SetInduction`, `SequenceInduction`), from the existence of least elements, and
shows that a recursion over an interval has a solution (`RecursionExists`), which is
what makes the recursive functions `Size`, `Active` and `SignalsIn` usable; the
lemmas on `SumOver` are about `FoldFunctionOnSet`.

The assumptions are the named ASSUMEs on the constants (a positive worker limit,
stubborn workers are workers, menus name known operations, limits are numbers, the
names differ from the markers "nobody" and "none"). `IsFiniteSet(Nonces)` is there
because a sum needs it, the map of pending queries being limited in the code, and
`IsFiniteSet(Procs)` because `BudgetKept` counts them. Each inductive invariant was checked with
TLC on the runs' instances before it was proved.

Every invariant of the passing runs, and the refinement of `BoundedQueue`, is the
statement of a theorem. What is only model-checked is liveness, which the prover
cannot do: `CloseWakes`, `CancelWakes`, `CleanupEnds`, `InvocationEnds`, `QueryEnds`,
`ReceiveEnds`, `ReaderEnds`, `SilenceEnds`, `SignalsArrive`. The violated properties
are TLC's counterexamples.

## Not modelled

See "components" in `PROJECT.json`. The front end, KIR validation and code
generation are pure translations; FFI, files, processes and platform code are
I/O. Of the repository's C++ all but the 2,800 lines of `qt6_bridge.cpp`, some
423,000 lines, is generated: for each Qt signature the same block compares the
signature, converts the arguments, casts the object, calls Qt and converts the
result. The blocks keep no state and differ in names only, so a model of each
would say nothing that `CallAdopts`, `CallCreates`, `CallReturns`, `CallDestroys`,
`SetProperty` and `ValueResult` do not say of all of them; counted in lines they
dwarf everything that is modelled.

## Plan

1. *Done*: channels, workers, shutdown, with their proofs.
2. *Done*: Discord gateway state, WebSocket client, session loop, Qt bridge, with the
   proofs of their safety properties. Left: action properties (the closed flag and
   the meaning of a handle never change back, a report is never withdrawn) as
   theorems, and two `Bot.run` in one runtime, of which the refused one unbinds the
   other's session.
3. Rate limiter (`RateLimiter`).
4. Interpreter blocks with defer (`Blocks`) and the dispatch table (`Dispatch`);
   insertion order against a reference sort.
5. Package manager (`Install`, `Registry`) with crashes between file system steps.
6. Persistent arrays and checked arithmetic as operators against references.
