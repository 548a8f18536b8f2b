# Edge.js: a TLA+ verification project

Edge.js is a Node-compatible JavaScript runtime. It has two halves: a C++ kernel in
`src/src/`, which drives libuv event loops, one per environment (the main thread and
every worker thread), and the JavaScript library in `src/lib/`, which runs on it. This
project models the parts of both where threads, processes, callbacks and re-entrant
JavaScript meet, checks them with TLC and proves nearly all their safety properties with
TLAPS.

| module | models | section |
|---|---|---|
| `MessagePort`, `MessagePortProofs`, `PortOwnerProofs` | message ports, channels, broadcast groups | 3 |
| `PlatformTasks`, `PlatformTasksProofs` | engine tasks, Immediates, the loop's turn | 4 |
| `Writable`, `SinkContract`, `WritableInvariant`, `WritableProofs` | writable streams, and what they promise | 5 |
| `IpcChannel`, `IpcChannelProofs` | the IPC channel between two processes | 6 |
| `Cluster`, `ClusterProofs` | the cluster module: a primary and its workers | 7 |
| `HttpAgent`, `HttpAgentProofs` | the connection pool of the HTTP client | 8 |

Each has an `MC` module with the values of the constants and one cfg per run.

## 1. Inventory

| component | source | state | operations | interacts with | hard part |
|---|---|---|---|---|---|
| message ports | `internal_binding/binding_messaging.cc` | `MessagePortData` (queue, sibling, attached wrap, closed, group), `MessagePortWrap` (handle state, async handle, receiving), broadcast groups | `MessageChannel`, `BroadcastChannel`, `postMessage`, `start`, `stop`, `drain`, `close`, `receiveMessageOnPort`, async and close callbacks, finalizer | environment cleanup, workers, libuv | shared between threads, raw pointers, transfer of ports inside messages, JavaScript re-entered in the middle of native code |
| engine task platform | `edge_runtime_platform_v8.cc` | foreground, delayed and immediate queues, timers, ref counts | enqueue from any thread, drain, timer, cleanup | engine threads, environment cleanup, event loop | enqueue racing cleanup, exceptions in the middle of a batch |
| environment | `edge_environment.cc` | cleanup hooks and stages, at-exit list, threadsafe immediates, interrupts, active handles and requests, loop | `AddCleanupHook`, `SetImmediateThreadsafe`, `RequestInterrupt`, `RunCleanup`, ... | everything that registers a hook or handle | hooks that add or remove hooks, callbacks from other threads during cleanup |
| workers | `internal_binding/binding_worker.cc`, `edge_worker_env.cc` | thread, stop flags, exit code, port | start, terminate, join | environment, ports | terminate racing start and exit |
| handle wraps | `edge_handle_wrap.cc`, `edge_active_resource.cc` | per-handle state, list of active handles | attach, detach, close, finalizer | environment cleanup | finalizer racing close callback |
| event loop and immediates | `edge_runtime.cc`, `lib/internal/timers.js`, `lib/timers.js` | idle drain turns, pending exception, the lists of Immediates, the idle handle | the phases of one turn, `setImmediate`, `clearImmediate`, `processImmediate` | all of the above | order of the queues, exceptions between turns, one handle kept by two counts |
| timers, ticks, async hooks | `edge_timers_host.cc`, `edge_task_queue.cc`, `edge_async_wrap.cc` | expiry, ref counts, rejections, id stack | `processTimers`, `runNextTicks`, push/pop | JavaScript library | exceptions thrown out of callbacks |
| writable streams | `lib/internal/streams/writable.js`, `destroy.js` | `WritableState` (flags, `length`, `pendingcb`, `corked`, buffer), nextTick queue | `write`, `cork`, `uncork`, `end`, `destroy`, `onwrite`, `afterWrite`, `clearBuffer`, `errorBuffer`, `finishMaybe`, construct and destroy callbacks | the implementation's `_write`, `_writev`, `_final`, `_construct`, `_destroy`; user callbacks and events | user code in the middle of every function, synchronous and late callbacks, errors between two chunks |
| IPC channel | `lib/internal/child_process.js` | `_handleQueue`, `_pendingMessage`, `connected`, `channel` of each end | `send`, `disconnect`, `onread`, ACK, NACK, retransmission | the other process, cluster | lost handles, two processes that wait for each other, the death of one |
| cluster | `lib/internal/cluster/*.js` | the primary's workers, handles, round-robin queues; the worker's state and servers | `fork`, `queryServer`, `newconn`, `close`, `disconnect`, `destroy`, exit and disconnect events | the IPC channel, `net` | messages that cross, workers that die with connections on their way |
| HTTP connection pool | `lib/_http_agent.js`, `lib/_http_client.js` | `requests`, `sockets`, `freeSockets`, `totalSocketCount` | `addRequest`, `createSocket`, `removeSocket`, 'free', 'close', 'agentRemove', timeouts, `destroy` | sockets, requests | a socket between two owners and a tick, limits kept by several handlers |
| native streams | `edge_stream_listener.cc`, `edge_stream_base.cc`, `edge_js_stream.cc`, `binding_stream_pipe.cc` | listener stack, pending writes, pipe state | push/remove listener, read, write, pipe, unpipe | sockets, TLS | callbacks that change the listener stack |
| I/O wrappers | `edge_tcp_wrap.cc`, `edge_udp_wrap.cc`, `edge_pipe_wrap.cc`, `edge_fs.cc`, ... | one libuv request each | - | libuv | none of their own |

What makes each modelled component correct is listed with its module below. Everything
that is hard to test is in `PROJECT.json` under `hazards`, at the line where it bites.

## 2. Plan

Done: the six components of the table above, each with its runs. Every invariant that the
passing runs check, and the refinement of `SinkContract` by `Writable`, is a theorem.

Left, in this order:

1. `Environment` - cleanup stages and hooks, threadsafe immediates, active handles. An
   abstract specification is worth stating: every hook runs once, in the reverse order of
   its registration, and nothing is called after it was removed.
2. `Worker` - start, terminate, exit and join.
3. `EngineTasks` - the task records of `napi/v8/src/edge_v8_platform.cc`, composed with
   `PlatformTasks` at the enqueue hook.
4. The readable side of streams and `pipe()`, composed with `Writable`.

## 3. Message ports

### Model

`MessagePort.tla` has two kinds of objects. A *Data* is a `MessagePortData`, shared
between threads behind its own mutex. A *Wrap* is a `MessagePortWrap`: the JavaScript
object and `uv_async_t` of one thread. One action is one critical section with the
thread-local code around it, so two threads interleave exactly where the code unlocks.
`BroadcastChannel` and `JoinGroup` are the two sections of
`AttachToBroadcastChannelGroup` (the Data's mutex, then the group's), `CloseCallback` and
`CloseLeave` those of `RemoveFromBroadcastChannelGroup`, `CloseDisentangle` and
`CloseUnlinkPeer` those of `DisentanglePeer`; between them other threads post, join and
close.

| variable | code |
|---|---|
| `queue`, `closeEnq`, `closed`, `sibling`, `attached`, `group` | `queued_messages`, `close_message_enqueued`, `closed`, `sibling` (weak), `attached_port` (raw), `broadcast_group` |
| `members` | `BroadcastChannelGroup::members` |
| `born` | which Datas exist already |
| `state`, `data`, `receiving`, `async`, `thread` | `handle_wrap.state`, `data`, `receiving_messages`, the pending flag of the `uv_async_t`, the owner |
| `running`, `cleanup`, `envData`, `envPort` | worker started, `RunCleanup` entered, the Data a worker is born with, whether its port was made |
| `stack` | the native call stack of each thread: frames of `postMessage`, `EnqueueQueuedMessage`, `ProcessQueuedMessages`, `AttachToBroadcastChannelGroup` and `OnMessagePortClosed` |
| `posts` | counts `postMessage` calls for the bound |

JavaScript can run on an empty stack and on top of a frame that has called it
(a message handler, `onclose`, a warning, an accessor met while a payload is cloned).
`sibling` is a weak pointer: `Lock(d)` returns it only while something still holds the
Data (`Alive`), a greatest fixed point over the messages that carry ports: two Datas,
each carried by a message in the other's queue, keep each other alive, as shared pointers do.

Abstractions: a payload has no content and carries at most one port; `ref`/`unref`,
inspection helpers and moving a port to another context do not touch this state. A
broadcast's targets are visited in any order. New objects are taken in numerical order,
which only removes symmetric states.

### Runs

The bounds are the sizes of the sets in each cfg and `MaxPosts`, `MaxDepth` (nested
calls out of JavaScript) and `PumpLimit` (the 1000 of `OnMessagePortAsync`, lowered so
that it does not hide what is queued later). Two threads and one channel are enough for every race
between a sender, a receiver and the two closers; transfer needs a second channel;
a broadcast needs three members.

| run | what it explores | shows |
|---|---|---|
| `port_transfer_close` | a port sent through another port, with posts to it, close on both threads, GC and cleanup | `AttachedIsOwner`, `CloseReported` (the close message is queued once, last, and never lost), `WellLinked` (a Data has one owner, links are symmetric), `NoLostWakeup`, a closed Data stays closed |
| `port_broadcast` | three members of one group on two threads and a channel; cloning runs JavaScript that calls back into the binding | `GroupIsOpenPorts`: whichever sections of joining and leaving ports a poster's snapshot falls between, it offers no closed port and misses no open one that has joined |
| `port_liveness` | one channel, to a worker or within a thread, with a fair loop: post, start, stop, drain, receive, close, GC, payloads that fail | `TypeOK`; queued messages are delivered, a close reaches the peer |

Two windows of the code are in the model and outside what the runs assert. With
`CloneRunsJS = TRUE` and transfers, `WellLinked` fails: JavaScript run by the clone
(`binding_messaging.cc:3867`) can transfer or close a port that was already collected, and
a Data gets two owners. And `TriggerPortAsync` (`:2487`) checks a handle's state and then
calls `uv_async_send`, two steps between which the owner may close the handle. A message
that is dropped because its target is closed drops the port it carries, whose far end is
not told (`:3353`); `CloseNotified` excludes a Data that no longer exists.

Deadlock checking is off: a program whose ports are closed simply stops.

### Fairness

`port_liveness` assumes weak fairness of a thread's running frame (native code goes on,
handlers return) and strong fairness of the async and close callbacks: `uv_run` visits
every pending handle in each iteration, so none is passed over for ever, but each is
enabled only while no frame is on the stack.

### Proofs

`MessagePortProofs.tla` proves four invariants from `ConstantsAssumption` alone, with and
without JavaScript run by the clone:

- `TypeCorrect`: `Spec => []TypeOK`. One lemma per group of actions; `StackStep` says
  that push, return, continue and call keep a stack of frames.
- `AttachedSafe`: `Spec => []AttachedIsOwner`. `AttachedIsOwner` is not inductive: a
  closed wrap may be finalized, so one has to know that a closed wrap that is still
  attached is in the middle of `OnMessagePortClosed`. `AttachedInv` adds that, and that
  the close frame is at the bottom of the stack of the wrap's thread (close callbacks
  run on an empty stack). `BottomKept` shows that no other frame's step removes it,
  `QuietKept`, `DetachKept`, `AdoptKept` and `TakeMessageKept` cover the ways pointers
  change.
- `GroupsExact`: `Spec => []GroupIsOpenPorts`. `OnlyBorn` says that nothing (a queue, a
  frame, a wrap, a sibling) refers to a Data that has not been constructed, so a new
  broadcast port is no member of a group yet. Groups and Datas do disagree: a port names
  its group before it is listed, and one that closes forgets it while it still is.
  `GroupInv` says what holds then: a closed Data is in no group and on no list, and every
  disagreement belongs to a frame that is about to settle it (`Listed`); what such a
  frame remembers is still true (`Turning`), and only the thread of the port has one
  (`Placed`), because the Data of a broadcast channel has one port (`Lone`).
- `WakeupsKept`: `Spec => []NoLostWakeup`. It is inductive on top of the above. The steps
  that attach nothing, queue nothing and let go of no frame that would wake somebody
  (`Calm`, `LosesNone`) keep it at once; what is left is each step that queues, attaches,
  takes the last message or consumes the pending flag.

`PortOwnerProofs.tla` proves three more under the hypothesis `~CloneRunsJS`: cloning a payload runs no accessor and no serialization hook. Without it
they are false, as said above: TLC shows two owners of a Data, a listed hazard
(`binding_messaging.cc:3867`).

- `ClosedStaysClosed`: `Spec => ClosedIsFinal`. A port is made for a Data, and `closed` is
  reset, in several places; that none of them finds a closed Data needs to know who
  holds it. `FrameInv` says what the frames are sure of when they go on: all but the top
  one wait for JavaScript (`Below`), each uses wraps of its own thread (`FramesSound`),
  and no wrap is open in an environment that is cleaned up (`WrapsSound`). `OwnInv` says
  that a Data is in one place, a wrap, a queue, a message on its way or an environment
  (`Owned`), that one without a wrap is not closed (`LooseOpen`), that one with a wrap is
  closed only when the wrap is (`OpenWraps`), and that a port in a transfer list is still
  as it was found when it is detached (`Transfers`): the step the hypothesis is for.
  `ShutInv` is the other direction: a wrap is closed before its Data is, and in between
  its thread is on its way to `DisentanglePeer` and does nothing else.
- `ChannelsWellLinked`: `Spec => []WellLinked`. `SingleOwner` is `Owned`. For the links,
  `LinkInv` names the exception, the thread between the two critical sections of
  `DisentanglePeer` (`Linked`, `PeersSound`). It speaks of Datas that are alive, and
  `Alive` quantifies over sets of Datas; `AliveKept` shows once, step by step, that a
  Data nobody can reach any more is never reached again.
- `ClosesAreReported`: `Spec => []CloseReported`. `ReportInv` follows the news of a close
  from hand to hand, from the closing thread's frame to the queue of the other end
  (`Notified`); a channel loses its links by a close only (`SeveredByClose`), a close
  message says the truth (`ClosesSound`), and a payload comes from an open port of the
  other end (`Aimed`), so none can be queued behind the close message.

Only model-checked: liveness.

## 4. Platform tasks, immediates and the event loop

### Model

`PlatformTasks.tla` is one environment: the queues of `PlatformTaskState`, the idle handle
of `Environment`, the lists of `lib/internal/timers.js`, and the loop that serves them.

| variable | code |
|---|---|
| `hook` | the enqueue callback registered with the engine |
| `cleanupStarted`, `asyncInit`, `asyncRefs` | `cleanup_started`, `foreground_async_initialized`, `foreground_async_refs` |
| `asyncSent` | the pending flag inside `foreground_async` |
| `fg`, `delayed`, `scheduled`, `closing` | `foreground_tasks`, `delayed_foreground_tasks`, `scheduled_foreground_tasks` with an armed timer, those whose timer is closing |
| `imm`, `refed`, `refedCount` | `immediate_tasks`, the `refed` field of each task, `refed_immediate_count` |
| `queue`, `outstanding`, `unrefd` | `immediateQueue`; the list `processImmediate` is working through or left in `outstandingQueue`; Immediates with `kRefed` false. `kCount` and `kRefCount` are derived from them |
| `broken` | `outstandingQueue.head` is an Immediate that has been cleared |
| `idle` | `immediate_idle_handle_running_` |
| `at`, `why` | where the owner thread is: boot, script, a phase of `uv_run`, a point of `RunEventLoopUntilQuiescent`, the cleanup; which of the three drains of a turn this is |
| `cur`, `batch` | the task whose callback runs, the local batch of the drain |
| `stop`, `exiting`, `pending`, `grace` | the loop's stop flag, exit requested, an exception is pending, `idle_drain_turns` |
| `post` | the call of `EnqueueForegroundTaskFromEngine` on each other thread |
| `used`, `runs`, `cleans`, `dropped` | history: tasks handed over, calls of each callback, calls of each cleanup, tasks destroyed with a batch |

The owner passes through timers, poll, check and closing as `uv_run` does, then through
the drain of `EdgeRuntimePlatformDrainTasks` and the decision to go on, to drain again,
to emit `beforeExit` or to leave. A poster's call has three steps: it loads the target,
tests `cleanup_started` without the lock, and enqueues under the lock. The owner can run
between any two of them, in particular the whole cleanup, which itself is two steps
around its lock.

A callback is any sequence of the calls in `JSCall` followed by one outcome: `ok`,
`handled` (the exception went to `process._fatalException`, which schedules an Immediate)
or `thrown` (it is still pending). `process.exit` sets `exiting` and the stop flag; the
termination it raises is taken away as handled by the native frame below.

Left out: libuv calls that fail, the timers of JavaScript, nextTicks and microtasks
(JavaScript they run is part of the callback's calls), waiting for a top-level promise,
the polling loop with a timeout, nested drains (the `draining_*` flags are always false
when a drain starts, since nothing a callback calls drains), `only_refed`, which no caller sets, and
`foreground_async_pending`, which is written and never read. The lists of Immediates are
sets: their order matters only for which one is the head when it is cleared, and
`ClearImmediate` allows each of them to be it, and insists when it is the only one.

### Runs

`Calls` names the calls an instance explores, `MaxRefs` bounds the references of Workers,
and `MaxGrace` stands for the 8 `idle_drain_turns`: 1 is enough to take the branch, to
come back and to exhaust it. Two posters and two tasks give every pair of races and a
batch with a task behind the one that throws; two Immediates give one that is left when
the other throws.

| run | what it explores | shows |
|---|---|---|
| `tasks_safety` | two threads post, now or delayed, while the owner runs, schedules and clears Immediates, blocks, throws, exits and cleans up | `TasksAccounted` (no task is lost, run or freed twice; the count of refed tasks is exact), `NothingAfterCleanup`, `ForegroundWakeup`, `IdleKept`, `TypeOK` |
| `tasks_liveness` | fair loop with posts, refed tasks, Immediates, exceptions, other I/O and exit | `TasksSettle` (a task is run or cleaned up, or was dropped with its batch), `OutstandingRuns` (the Immediates left over by a handled exception run), `IdleReleased` |

Deadlock checking is off: a loop that blocks in poll with nothing to come, and an
environment that is cleaned up, are where the program rests.

Two behaviours of the code are in the model and refute a property one might expect.
`EdgeHandlePendingExceptionNow` takes the termination of `process.exit()` for a handled
exception, so the next task of the batch is called all the same. And `clearImmediate`
removes from `immediateQueue` only: when the first Immediate in `outstandingQueue` is
cleared before the next check, it stays there with its link cut, the step that skips a
cleared Immediate needs a previous one, and `processImmediate` throws on every later
check. `OutstandingRuns` is therefore checked without `ClearImmediate`.

### Fairness

`FairSpec` assumes weak fairness of the owner (`OwnerStep`: callbacks return, the loop
goes on) and of each poster inside its call, and strong fairness of the two callbacks that
are enabled in one phase only: `ForegroundAsync`, since poll reports every ready
descriptor sooner or later however busy the others are, and `TimerRun`, since an armed
timer becomes due and `uv__run_timers` fires every timer that is due. Nothing is assumed of calls made by JavaScript, of I/O, or of posting
at all.

### Proofs

`PlatformTasksProofs.tla` proves, from `ConstantsAssumption` alone:

- `TypeCorrect`: `Spec => []TypeOK`, one lemma for each named part of the type invariant.
  The counters need that queues have finitely many elements and that `LeaveCount` never
  goes below 0.
- `CleanupSafe`: `Spec => []NothingAfterCleanup`. The property speaks of one place only;
  `CleanupInv` adds that `cleanup_started` is set exactly from `CleanupStart` on, that a
  callback or a batch is in progress only inside a drain or a timer (so the owner cannot
  reach the cleanup with a batch in hand), and that `immediate_tasks` stays empty. The
  posters' steps then keep it because of the second test, under the lock.
- `WakeupSafe`: `Spec => []ForegroundWakeup`. `WakeupInv` extends it to every place from
  which the owner can reach the loop without draining first.
- `IdleSafe`: `Spec => []IdleKept`, which is inductive with the type invariant.

- `AccountSafe`: `Spec => []TasksAccounted`, for any number of tasks and posters.
  `AccountInv` lists the places a task can be in, two queues, a list of delayed tasks, the
  armed and the closing timers, the batch in progress, the running callback and the call of
  a poster, and says that it is in one of them at a time and once (`Distinct`, `Apart`,
  `CurApart`, `PostsApart`); that what is held was handed over and not freed
  (`HeldIsFresh`); that it has not run unless it is running or its timer is closing
  (`RunOnce`); and that a task in no place was cleaned up or dropped (`NothingForgotten`).
  The exception in `CurApart` is a timer's task: it stays among the armed ones while its
  callback runs, since the timer is closed only after it.

The strengthened invariants were checked with TLC first. Only model-checked: liveness,
which is outside TLAPS.

## 5. Writable streams

### Model

`Writable.tla` models `lib/internal/streams/writable.js` with the construct and destroy
code of `destroy.js`. JavaScript runs one call at a time, but every callback and event
runs user code in the middle of the function that emits it. The model therefore keeps the
call stack: a *frame* is a function, or what is left of one after a call to user code; a
step runs the frame on top. `ticks` is the nextTick queue.

| variable | code |
|---|---|
| `st` | the bits and counters of `WritableState`; `failed` are the chunks `errorBuffer()` has already failed and that are still in the array |
| `buffer` | `state.buffered` from `bufferedIndex` on |
| `stack`, `ticks` | the call stack, `process.nextTick` |
| `io` | calls of `_write`, `_final`, `_destroy`, `_construct` that have not called back |
| `opt` | `highWaterMark`, `autoDestroy`, `objectMode`, whether there are `_writev`, `_final`, `_construct` |
| `given`, `sunk`, `asked`, `called`, `events`, `calls` | history: callbacks and order of accepted chunks, what the sink received, callbacks given and called, events, the user's calls |

The implementation calls back at once or later, with or without an error; the user calls
`write`, `cork`, `uncork`, `end` and `destroy` at any time, also from inside callbacks and
listeners of 'drain', 'finish', 'error' and 'close'.

Abstractions: a chunk has length 1; `end(chunk)` is `write` followed by `end`; `emitClose`
is true; the implementation does not call the stream from inside `_write` or `_writev` and
does not throw.

### Abstract specification

`SinkContract.tla` says what a writable stream promises without flags, ticks or frames:
chunks reach the sink in the order in which they were accepted, one batch at a time, none
twice; only a stream that failed or was destroyed drops chunks, oldest first; it finishes
only when the sink was given every chunk and none is in progress. `KeepsContract` is the
refinement: `pending` is the buffer, `busy` is `kWriting`, `failed` is `kErrored` or
`kDestroyed`.

### Run

`writable` has three option records, which between them switch every option on and off,
two writes with and without callback, one `end`, one `cork`, one `destroy`. Two chunks
are enough for a chunk behind one that fails, for a batch, and for two writes that share a
tick. It shows `KeepsContract`, `StateSound` (types, and `state.length` is exact),
`EventsOrdered`, `WriteCallbacksCalled` (each callback once, and in the end),
`DrainKept` and `ComesToAnEnd`.

Three re-entries are excluded, each by a constant, because the code does not survive them:
`uncork()` or `end()` of a corked stream from a callback inside `errorBuffer()`
(`LateUncork`: the chunk that failed is written again and its callback called twice);
`cork()` after `end()` (`LateCork`: nothing uncorks again); a listener of 'prefinish' that
destroys a stream with `_final()` (`Reenter`: 'finish' is emitted after 'close'). Setting
the constant shows the counterexample.

Fairness: code that runs returns and ticks run (`WF(Run)`), and the implementation calls
back (`WF(Implementation)`), which is the contract of `_write` and the others.

### Proofs

`WritableInvariant.tla` defines `SinkInv` and proves that every step keeps it: first the
functions that leave the queue alone, then those that move chunks (`SinkAlways`).
`WritableProofs.tla` proves from it:

- `ContractKept`: `Spec => KeepsContract`, for every set of option records and callbacks,
  any pattern of calls from inside callbacks, and every bound. Each step of `Writable`
  is one step of `SinkContract` or none: `UnseenStutters` covers the functions of which
  the contract sees nothing, and one lemma for each of the others names its step
  (`WriteAccepts`, `ClearBufferSinks`, `ClearBufferLoopSinks`, `OnwriteCompletes`,
  `ErrorLoopDropsOldest`, `ErrorsFail`, `FinishIsLast`).
- `LengthKept`: `state.length` is exactly what the queue and the write in progress hold.
- `StateSoundHolds`: `Spec => []StateSound`, the types and `LengthExact`. Of the types
  `pendingcb \in Nat` is the one that says something: eight places decrement the counter,
  and 'finish' waits for it.
- `EventsOrderedHolds`: `Spec => []EventsOrdered`, under the hypothesis that no listener of
  'prefinish' calls the stream (`"prefinish" \notin Reenter`).

The refinement rests on what a function may rely on when it runs again after user code
did whatever it liked, and `SinkInv` says it for every frame that waits: the queue holds
accepted chunks in order (`BufferOrdered`) and, up to an error, all that the sink has not
(`AllThere`); each frame finds what it was called for (`FramesOK`, `TopOK`); no user code
runs above the loop of `clearBuffer()` (`LoopsOK`), so its place in the queue is not
moved; `errorBuffer()` is not inside itself and leaves an empty queue (`ErrorsOK`);
`_construct` calls back once (`ConstructOnce`); some frames are never put in a tick or are
only at the bottom of the stack (`PlacesOK`); and a chunk that waits has something to wait
for (`Waiting`), so that 'finish' finds the queue empty. `SinkInv` was checked with TLC
first.

`pendingcb` is never below zero because it counts more than it pays out
(`PendingCounted`): it is at least the chunks in the queue, the write with the sink, a
pending `_final()` and what the frames of the stack and the ticks still owe. `Pays` gives
every frame its debt (one for `onwriteError`, `onwriteSync`, `finishNT`, `finish`, `_final`
and `onFinish`; the count of a run of writes for `afterWrite`), `Total` adds the debts of a
sequence of frames, and `PendingStep` reduces each action to a comparison of what it leaves
with what it takes off. Equality does not hold: a chunk that `errorBuffer()` drops stays
counted.

The order of the events needs to know what is still on its way (`EventInv`):

- `Tallies`: of the functions on the way to 'finish' (`ToFinish`, `Ending`), of
  `emitFinish`, and of those on the way to 'close' (`Closing`), counted over the stack, the
  ticks and the calls the implementation has not answered, there is at most one, and none
  once the event is emitted; before `prefinish()` and before `destroy()` there is none.
- `Places`: a tick that closes the stream runs with an empty stack below it and after every
  tick that finishes or fails it (`CloseLast`, `CloseTicksLast`), which is why 'close' is
  last although `finish` runs from a tick that looks at nothing again; `prefinish` and
  `onFinishTick` run at once, before anything can destroy the stream (`AtOnceOnly`). That
  one is false when a listener of 'prefinish' calls `destroy()`: hence the hypothesis.
- `Records`: an event that was emitted has its flag set.

`finishMaybe()` may ask for 'finish' while `_final()` or a `finish` is pending; that it does
not is `PendingCounted` again (`NothingOwed`): `pendingcb` is zero only when nothing on the
way to 'finish' is left. Each part of both invariants was checked with TLC first.

The theorems assume `~LateUncork`: the user does not uncork or end a corked stream from a
callback inside `errorBuffer()` (`writable.js:731`, a listed hazard); with it, the contract
is violated. `LateCork` may have either value, and so may `Reenter`, but for
`EventsOrderedHolds`. Only model-checked: the properties with liveness,
`WriteCallbacksCalled` (with its safety half, `CallbackOnce`), `DrainKept` and `ComesToAnEnd`.

## 6. The IPC channel

### Model

`IpcChannel.tla` is `setupChannel()` of `lib/internal/child_process.js` at both ends of one
channel. After a handle the sender queues everything until the other end acknowledges it;
a handle the kernel dropped is refused with a NACK and sent again, up to
`MAX_HANDLE_RETRANSMISSIONS` times.

| variable | code |
|---|---|
| `connected`, `channel`, `handleQueue`, `pending`, `retransmissions` | the fields of `target` (`_handleQueue`, `_pendingMessage`) at each end |
| `ticks` | nextTicks that emit a message or finish `_disconnect()` |
| `wire` | written by the other end, not yet read |
| `ended`, `fault` | the channel is closed or the process gone; what ended it (a kill or a failed assertion) |
| `got`, `sends`, `closed`, `writes`, `lost`, `left`, `events` | history |

A read delivers any number of messages at once, as `onread` does; the messages are emitted
in ticks and user code may run between two of them. Left out: write errors (a write that
fails when a handle is sent again would leave `_pendingMessage` set with the queue off, a
state the model does not have), a message
split over two reads, messages kept for a missing listener (`kPendingMessages`),
`keepOpen`, the same socket sent twice, `net.Server` and `dgram` handles, whose conversion
is asynchronous.

### Runs

| run | what it explores | shows |
|---|---|---|
| `ipc` | the parent sends two messages of any kind, the child one, handles are dropped, the parent disconnects, the child is killed | `TypeOK`, `InOrderUnlessLost`, `PendingMatches`, `HandlesSettled` (a handle is closed once and sent a bounded number of times), `SilentOnlyUnacknowledged`, `AckFindsQueue` (the assertion of the ACK handler), `DisconnectCloses`, `Delivered` |
| `ipc_ack` | *violation*: a message and a handle are read at once, and the listener of the message calls `disconnect()` | the ACK of the handle meets the assertion of `_send()` (`child_process.js:763`), which ends the process; the comment on the ACK (`:699`) says that being unable to send it should not be fatal |
| `ipc_order` | *violation*: a handle is dropped once, another handle and a message follow | the retransmission is wrapped twice and acknowledged twice; the second ACK releases the queue too early and the message overtakes the handle |

Two sends and one are enough for handles that cross, for a queue behind a pending handle,
and for a drop at each attempt; `ipc_order` needs three. In `ipc_ack` the user of the
reading end runs between two ticks only after a message was emitted (`SpecListener`), as
nothing else of its program runs there. In `ipc` the process ends as well when `_send()`
fails (`fault`), and the other properties are about what is left.

Fairness: the loop polls the channel (`WF(Reading)`) and runs its ticks (`WF(Tick)`).
Nothing is assumed of users, of the kernel's drops or of crashes.

### Proofs

`IpcChannelProofs.tla` proves, from `IpcAssumption` alone, for every number of sends:

- `TypeCorrect`: `Spec => []TypeOK`.
- `OnePending`: `Spec => []PendingMatches`. What `_send()` queues and what it posts are two
  computations over the same messages; the lemmas show that a posted socket is the last
  thing written and leaves the queue on.
- `DisconnectAnnounced`: `Spec => []SilentOnlyUnacknowledged`. The property speaks of an
  end with no ticks left and is not inductive. `Announced` follows a disconnect from its
  start: an end that is not connected has a queue that waits, the `finish` tick ahead of it
  or 'disconnect' behind it; an end without a channel has one of the last two, or nothing
  left to run.

Its second part proves the rest of the safety properties from the same assumption:

- `HandlesAreSettled`: `Spec => []HandlesSettled`. `Settled` says that the queue holds the
  last messages given to `send()`, in order and not yet written, and that the pending
  socket was written once more than it was sent again and is not closed yet.
- `AcksFindQueue`: `Spec => []AckFindsQueue`. `OneFlight` counts, over two wires and
  the ticks of both ends, the handles and the answers under way: at most one of them, and
  then the queue is on, until a handle is written a second time. From then on it may fail,
  which is what `ipc_order` shows. `LeftBehind` and `Explained` say
  when `_send()` can fail.
- `InOrderWithoutLoss`: `Spec => []InOrderUnlessLost`. A handle is emitted one tick later
  than a message, so the order of the wire is not enough: `OnTime` orders what was
  emitted, the ticks and the wire, and says that a handle is the last message written
  in all three (`InLine`); `NoLoss` says that without a drop nothing is refused or
  written again.

Only model-checked: liveness (`DisconnectCloses`, `Delivered`).

## 7. Cluster

### Model

`Cluster.tla` composes `primary.js`, `round_robin_handle.js`, `shared_handle.js`, `child.js`,
`utils.js` and `worker.js` over a FIFO channel per direction and worker. The channel is
what `IpcChannel` shows of a lossless one: messages in order, then the end.

| variable | code |
|---|---|
| `policy` | `cluster.schedulingPolicy` |
| `reg` | the primary's `Worker` objects: listed in `cluster.workers`, connected, dead, `exitedAfterDisconnect` |
| `table`, `hs` | `handles.get(key)`; every handle made so far, with `all`, `free`, `handles` and how its listening socket stands |
| `up`, `down` | messages to and from the primary |
| `proc` | each worker process: its state, server, connections and pending disconnect |
| `open`, `served`, `sent`, `seen`, `calls` | connections the primary has not closed; history |
| `fault` | the TypeError that ended the primary |

Workers listen, close, disconnect, destroy themselves and are killed; the primary
disconnects them; a listening socket is bound at once, later or not at all. One address
and one server per worker; the connections of a server that was closed are no longer
counted.

### Runs

| run | what it explores | shows |
|---|---|---|
| `cluster` | two workers, two connections, three calls of the users, both policies | `HandlesSound` (types; no worker is free while a connection waits), `ConnsAccounted` (no connection lost or served twice), `GoneIsForgotten`, `DisconnectEnds`, `QueueDrains` |
| `cluster_drained` | *violation*: the last worker closes its server with a connection on its way | the connection comes back to a handle that is closed and stays in its queue |

Two workers are enough for one to take over from another and for the last one to leave;
two connections for one that waits.

The model has two paths that end the primary with a TypeError: the last worker goes while
the handle is still binding (`round_robin_handle.js:94`), and binding fails with two
workers waiting (`primary.js:317`). The properties are stated up to that fault. A worker
that left before it acknowledged a handle gets no 'disconnect' event and, when 'exit' came
first, is never removed: the exception that `GoneIsRemoved` and `QueueDrains` name. The
handle may also be sent to it when it is dead already and the primary has not read the end
of its channel: `uv_write2()` returns 0 (`edge_stream_base.cc`), `_handleQueue` is turned
on and nobody acknowledges. `SendAll` therefore appends to `down` as long as the primary
takes the worker for connected, and what a worker that left did not read stays there. A
message without a handle fails in that window with `EPIPE`, which becomes an 'error' event
of the worker; that event is left out.

Fairness: messages and events are delivered, sockets bound or refused, connections end.
Nothing is assumed of the users' calls.

### Proofs

`ClusterProofs.tla` proves, from `ClusterAssumption` alone, for any number of workers and
connections, any pattern of calls and either policy. The three inductive invariants are
built on each other.

- `HandlesSoundHolds`: `Spec => []HandlesSound`. `Base` says that the records of both sides
  are well formed and that each handle is `Fit`: a free worker is one of its workers and
  listed once, none is free while a connection waits, and a handle that is binding has
  neither free workers nor connections. `distribute()` and
  `handoff()` act on what a message names, so `Base` also says that a message with a
  connection names a handle that was bound (`UpsOK`, `DownsOK`).
- `GoneIsForgottenHolds`: `Spec => []GoneIsForgotten`. The assertion of `removeWorker()` and
  the removal of a worker depend on the order in which 'exit', 'disconnect' and the last
  messages come. `Tracked` adds to `Base` what a worker and the primary know of each other:
  `Dialogue`, the states that `listen()` and `close()` pass through with the messages that
  may then be under way in each direction; `Channel`, the end of the channel; `Listing`,
  which workers are in `cluster.workers`; `Members`, which a handle has. Only a handle that
  was not acknowledged, whenever it was sent, keeps a worker from being removed.
- `ConnsAccountedHolds`: `Spec => []ConnsAccounted`. `Flow` adds to `Tracked` that the
  workers of a handle were forked (`AllForked`), that a handle is of the policy's kind
  (`Kinds`), and for each connection `Sound`: it is in one place (`Lone`), the queue of a
  handle, a message to a worker or an answer to the primary, and there once (`Tidy`); no
  worker accepted it while it is queued, on its way or sent back; and while it is open it is
  in one of these places, or the worker it was sent to has left, and one that left never
  comes back (`Stays`). A step of a handle takes at most the first connection of its queue
  and gives it to one worker (`Passes`), or closes all (the last worker goes).

Only model-checked: `DisconnectEnds` and `QueueDrains`.

## 8. The HTTP connection pool

### Model

`HttpAgent.tla` models `Agent` of `lib/_http_agent.js` and the life of a request on a
socket of `lib/_http_client.js`. The agent's handlers call each other ('free' calls
`removeSocket()`, which calls `createSocket()`), so each is a function from the agent's
state to the next and an action applies the one its event calls.

| variable | code |
|---|---|
| `agent` | `requests`, `sockets`, `freeSockets`, `totalSocketCount`, the state and the request of each socket, the ticks of `onSocket` and `emitFreeNT`, the tunnels under way |
| `opt` | `keepAlive`, `scheduling`, `maxSockets`, `maxTotalSockets`, `maxFreeSockets`, whether a proxy tunnel is used |
| `req`, `home`, `closes` | each request's state and origin, its number of 'close' events |

Servers answer, hang up, upgrade and time out; the user destroys requests and the agent.
Left out: headers and bodies, the server's keep-alive hint, `shouldKeepAlive` (either
answer is possible), TLS sessions, and the listeners of a socket: `Gone` stands for
`onRemove()` and for `onClose()` and gives the number back at once, so that a 'close' that
comes after 'agentRemove' and finds the listener still there, which would decrement
`totalSocketCount` twice, has no place in the model. `PoolExact` says nothing of that.

`creating` counts the tunnels under way for each caller, request and origin: two sockets
that leave one origin while the same request waits there have two tunnels made for it,
since `removeSocket()` takes the options of the socket that left.

### Run

`http_agent`: three requests to one origin or to two, five option records, each limit 1
or 2. It shows `PoolExact` (types; the socket count is exact), `OneOwner` (a socket is in
one pool and serves one request), `LimitsKept` (what a step may never do to the limits) and
`ClosesOnce` (without a tunnel). Three requests are enough for one origin at its limit and another waiting.

`NSockets` is a bound of the model: the code has no such limit. A step that may make a
socket waits for a free number (`Room`). In this instance that holds no step up: without a
tunnel one of the four is free in every state.

The code passes both limits in a case each, and `LimitsKept` says that these are the only
ones. `maxTotalSockets` is exceeded by one with `keepAlive`: `removeSocket()` makes a
socket for a waiting request without looking at it. `maxSockets` is passed when a destroyed
socket, which `addRequest()` had dropped from the pool before its 'close' and had replaced
with another one, closes at last: `removeSocket()` then makes one more, contrary to the
comments "If we are under maxSockets create a new one." and "We are over limit so we'll add
it to the queue." (`_http_agent.js`). Behind a tunnel a socket is counted only when it is
ready, and a tunnel that fails tells the request but leaves it in the queue; the limits and
the single 'close' are stated without a tunnel.

Fairness: ticks and 'close' events come, a server answers or hangs up, tunnels open or
fail, and idle sockets expire, since the agent has a `timeout`, as the global agent does.

### Proofs

`HttpAgentProofs.tla` proves, from `AgentAssumption` alone, for any number of requests,
origins and sockets and all options:

- `PoolExactHolds`: `Spec => []PoolExact`.
- `OneOwnerHolds`: `Spec => []OneOwner`.
- `LimitsHold`: `Spec => LimitsKept`.

Between two events the agent is sound (`Inv`): the count is that of the sockets not yet gone, a
socket is in one pool of its own origin, it has one user at most and none while it is free,
and an origin where a request waits has no free socket. In the middle of a handler it is
sound but for the sockets X that the handler has taken out of the pools and the k that it
has uncounted: `Sound(G, X, k)`. The handlers are functions that call each other, and so
are the lemmas: for each handler one says what it leaves alone, one that it takes a sound
agent to a sound one, one how the sizes of the pools compare before and after, for the
limits. An action then adds only what its event does.

Only model-checked: `ClosesOnce`, which needs fairness.

## 9. What only TLC checks

- Liveness, of every module: fairness and `ENABLED` are outside TLAPS.
- `CallbackOnce` of `Writable`, the safety half of `WriteCallbacksCalled`: it needs a count of
  each callback over the queue, the frames, the ticks and the sink; not attempted.

The induction theorems of the library take a predicate as parameter, which the provers
cannot instantiate. What the proofs need of a recursive function over a sequence
(`handoffAll`, and `Total` of `WritableProofs`) is proved from the well-foundedness of `<` instead, by taking a least
counterexample (`LeastNat`, `AfterExists`).

The theorems hold for every value of the constants that satisfies the named assumptions;
where a theorem has a hypothesis of its own (`~CloneRunsJS`, `~LateUncork`,
`"prefinish" \notin Reenter`) it is part of its statement, and the runs of the same
property use the same value.

Deadlock checking is off in all runs: a program that has closed its ports, streams,
channels or workers simply stops.

## 10. Not modelled

See `components` in `PROJECT.json`, with the reason for each. The JavaScript library has
about 139 500 lines. Most of it carries no protocol of its own that a model checker
reaches: formatting and inspection, option validation, loaders and path handling, one
request per call (`fs`, `dns`), bindings of vendored protocol engines (`http2`, `quic`,
TLS, zlib), data tables. The map therefore covers a small part of the lines, far below a
third, and is meant to: it covers the state machines. The next ones worth a module are
readable streams and `pipe()`, web streams, and the kernel's environment and workers
(section 2).
