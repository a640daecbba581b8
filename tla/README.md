# Formal models of kernel and cell execution in vscode-jupyter

TLA+ modules that model how the extension executes the cells of a notebook on
a Jupyter kernel: from the kernel a notebook is connected to, over its starts and
restarts, the processes, ports, servers and sessions below it, to the requests of
cells and the messages of widgets; TLC configurations that check the modules on
small instances; and TLAPS proofs of theorems about them for instances of every
size.

All source paths below are relative to the repository's `src/`. `tla/PROJECT.json`
relates each definition to the lines of code it models (`map`), each hazard to
the line where it bites and the properties that cover it (`hazards`), and each
property to a faulty variant of the code that breaks it (`mutants`; the
variants are the operators marked *Faulty variant* in the modules).

    tlc -config MCKernelExecution_queues.cfg MCKernelExecution.tla
    tlapm KernelExecution_proofs.tla

## 1. The system

The extension host is one JavaScript thread. What runs concurrently are the
asynchronous functions that interleave on it at each `await`, and the world
they await: VS Code, the kernel process, the connection to it, the user.

### Components

| Component | Code | State | Operations | What makes it correct |
|---|---|---|---|---|
| Cell execution | `kernels/execution/cellExecution.ts`, `cellExecutionCreator.ts` | flags `started`, `_completed`, `cancelHandled`, the deferred `_result`, the VS Code execution, which runs of one cell share (`_map`), `activeNotebookCellExecution` | constructor, `start`, `cancel`, the completions, the listener for a deleted cell | the result settles once; what VS Code shows as executing is a run without a result |
| Cell execution queue | `kernels/execution/cellExecutionQueue.ts` | `queueOfCellsToExecute`, `cancelledOrCompletedWithErrors`, the loop | `queueCell`, `executeQueuedCells`, `cancel` | one cell at a time, in order, none after a failure or on a dead kernel, none forgotten |
| Kernel execution | `kernels/execution/kernelExecution.ts` | `documentExecutions`, `_interruptPromise`, `_restartPromise` | `executeCell`, `interrupt`, `restart`, `cancel`, closing of the notebook | an interrupt that succeeds leaves nothing; calls return; cells held up by a restart go on |
| Execute requests | `kernels/common/chainingExecuteRequester.ts`, `delayedFutureExecute.ts` | `previousExecute` per kernel, the delayed futures | `requestExecute`, `dispose`, status changes | one request at a time per kernel, ended in order, every one ended |
| Cell message handler | `kernels/execution/cellExecutionMessageHandler.ts`, `cellExecutionMessageHandlerService.ts`, `cellDisplayIdTracker.ts` | owned message ids, the stream written to, the flags for clearing and errors, the output of each display id | one handler per kind of message, events of the document, end of the run | each output reaches its cell, in order, once; errors are reported |
| Kernel | `kernels/kernel.base.ts` | `_jupyterSessionPromise`, `_session`, cancellation source, `_ignoreJupyterSessionDisposedErrors`, `_disposingPromise` | `start`, `interrupt`, `restart`, `dispose`, the session's end | flags and promises stay consistent under any overlap; calls end |
| Sessions | `kernels/common/baseJupyterSession.ts`, `kernels/jupyter/session/`, `kernels/raw/session/` | session, `restartSessionPromise`, previous session, process | `connect`, `restart`, `shutdown`, `waitForIdle`, process exit | every kernel process has an owner who ends it |
| Launcher | `kernels/raw/launcher/` | ports in use, the chain of port searches, processes | `launch`, process exit, `dispose` | no two kernels share a port; ports come back |
| Servers | `kernels/jupyter/launcher/` | cached promise per server, cancellation, restarts | `getOrCreateServer`, `connect`, `dispose` | one server per key; a failed start can be repeated |
| Kernel provider | `kernels/kernelProvider.base.ts` | kernel of each notebook, pending disposals | `getOrCreate`, `dispose` | one live kernel per notebook |
| Connector, controllers | `notebooks/controllers/` | cached connection of each notebook, prompts | `connectToKernel`, `wrapKernelMethod`, selection | a caller gets a kernel that lives |
| Crash and restart monitors | `kernels/kernelCrashMonitor.ts`, `kernelAutoRestartMonitor.node.ts` | last executed cell, shown progress | status handlers | the cell that ran is ended once |
| IPyWidgets | `kernels/ipywidgets/` | pending and mirrored messages, comm targets, one field for full handling | send, receive, mirror, restart | messages arrive in order, fully handled |
| Daemon pool | `platform/common/process/pythonDaemonPool.node.ts` | pools of daemons, health checks | pop, push, replace, execute | a daemon serves one request; the pool keeps its size |
| Finders, dependencies, interactive window, debugger, variables and data viewer, intellisense, export, telemetry, platform, webviews, API | see `components` in PROJECT.json | | | not modelled, each with its reason there |

### How they interact

    notebook controller -> Kernel.executeCell
       Kernel: startJupyterSession()  -----------------> Session (promise)
       KernelExecution.executeCell: waits for a restart, picks or makes a queue
          CellExecutionQueue: awaits the session, then cell after cell
             CellExecution: clears output (VS Code), requestExecute -> ChainingExecuteRequester
                DelayedFutureExecute: waits for the request before
                   JupyterLab future -> kernel -> messages -> CellExecutionMessageHandler
                      -> edits of outputs -> VS Code -> change events -> handlers, tracker
    Kernel.interrupt / restart -> KernelExecution.interrupt / restart
          cancel the queue; await session.interrupt / session.restart
    session.onDidDispose -> Kernel forgets the session
    document closed -> queues and executions are cancelled from listeners

    whoever needs a kernel -> KernelConnector (cached connection, prompts, retries)
       -> KernelProvider.getOrCreate -> Kernel.start / interrupt / restart
    Kernel.start -> raw:    HostRawNotebookProvider -> RawJupyterSession -> KernelLauncher
                    server: NotebookServerProvider -> HostJupyterExecution -> ServerCache
                              -> HostJupyterServer -> JupyterSession
    kernel messages -> socket hooks -> IPyWidgetMessageDispatcher -> webview
    python helpers -> PythonDaemonPool -> daemon processes

### What is hard

* **State read before an `await` and used after it.** `interrupt()` and
  `restart()` look up the queue, then await the session; `queueOfCellsToExecute`
  is emptied by a `cancel()` that has awaited since it read the list; the
  catch of a start clears the current session promise, whosever it is.
* **Two owners of one thing.** Runs of one cell share a VS Code execution; two
  restarts share the flag that makes a kernel deaf to its sessions; a promise
  handed to several callers is reset by each.
* **Order of answers.** A reply, a rejected request, the interrupt timer, a
  kernel that dies and a document that closes race for the same run.
* **Failure in the middle.** A rejected start under a `dispose()` or `restart()`
  that awaits it; a lost connection under a chain of delayed requests; a cancelled
  launch whose port search and process go on behind its back.
* **Promises as caches.** Servers, starts, connections and port searches are shared
  by caching a promise; whoever sees it fail deletes it, or what is there by then.
* **Two orders of one document.** Edits of outputs are on their way to VS Code while
  the kernel sends more, and what VS Code tells of the document is late.
* **Limits.** Ports, the daemons of a pool and the one field for a message that is
  to be handled fully run out, and must come back however their user ends.

The 40 entries of `hazards` list these places one by one.

## 2. The modules

| Module | Models | Lines |
|---|---|---|
| `CellExecution` | one run of a cell and the execution objects runs share | 210 |
| `KernelExecution` | the queues, their loops, `executeCell`, `interrupt`, `restart`, sessions and kernels as seen from there; extends `CellExecution` | 742 |
| `CellJobs` | the abstract specification of the two: jobs whose runs begin in order | 57 |
| `MCKernelExecution` | instances of `KernelExecution` for TLC | 8 |
| `ExecuteChain` | requests of cells: the chain of delayed futures, the connection, the ids handlers look for | 325 |
| `CellOutputs` | the handlers of messages, the edits of outputs, the tracker of display ids | 385 |
| `KernelLifecycle` | `BaseKernel`: starts, restarts, interrupts, disposal | 428 |
| `KernelConnections` | `KernelConnector` and `KernelProvider`: who gets which kernel, prompts, retries, changes of controller | 401 |
| `KernelLauncher` | ports and processes of kernels on this machine | 186 |
| `RawSessions` | the sessions of such kernels, and the provider that tracks them; extends `KernelLauncher` | 303 |
| `ServerSessions` | sessions on a Jupyter server, and `HostJupyterServer` that owns them | 386 |
| `JupyterServers` | who starts a Jupyter server, and the two caches that share it | 260 |
| `WidgetMessages` | messages and requests on their way through the widget dispatcher to the webview | 383 |
| `DaemonPool` | the pool of Python daemons | 316 |
| `MCWidgetMessages`, `MCDaemonPool` | bounds of the two for TLC | 18, 16 |
| `KernelExecution_proofs`, `ExecuteChain_proofs`, `KernelLifecycle_proofs`, `KernelConnections_proofs`, `RawSessions_proofs`, `ServerSessions_proofs`, `JupyterServers_proofs`, `DaemonPool_proofs` | theorems (section 5) | |

### Atomicity

An action is the code between two awaits. Actions that resume a settled promise
are **microtasks**: JavaScript runs them all before the next event. Each module
says so by `NoMicrotaskDue`, a guard of every other action (**task**): a call of
the user, a message, a timer, a reply of VS Code. Among the microtasks that are
due any may come first. That is more orders than the engine produces, in which
promise reactions are first come, first served, so what holds here holds there;
the violations (section 4) do not depend on it.

In the modules from `KernelConnections` on an action is a task with all the promise
reactions that go on at once because of it, such as every call that waits for a
promise that settles. Where a reaction only begins something new it is an action of
its own, which is again more orders than the engine has.

### CellExecution and KernelExecution

A run (`CellExecution` object) is a number, in order of creation. `exec[e]` has
its flags and `run`, where `start()` has got to:

| `run` | code |
|---|---|
| `none` | not started, or not started with a code to send |
| `clearing` | awaits `clearOutput()` of VS Code |
| `running` | the request was sent, `request.done` is awaited |
| `doomed` | the request is disposed or its kernel is gone: `request.done` will reject |
| `settled` | the run is over |

`wrapper[w]` is the VS Code execution made by the constructor of run `w`;
`executionMap` the creator's map that lets a second run of the cell share it.

A queue is named after its first run. `queue[q].loop` is the await at which
`executeQueuedCells()` stands: for the session, for VS Code (`awaitStart`), for
the result of cell `queue[q].cell`. `docQueue` is `documentExecutions`,
`interruptCall` and `restartCall` hold the calls of `interrupt()` and
`restart()` with the await each stands at, `waitingRuns` the calls of
`executeCell()` that a restart holds up.

`LoopNext` to `LoopResultSettled` are the loop cut at its awaits;
`InterruptSessionSettled` to `InterruptShared` are `interrupt()`, with the
`cancel()` it does not await as the flag `cancelPending`;
`RestartSessionSettled`, `RestartSucceeds` and `RestartFails` are `restart()`.
`CloseCell` and `CloseNotebook` are the document listeners, in the order they
were registered. The session is here what it is to this code: a promise that
settles, a status that can turn dead or disposed.

`RerunLive` says whether a cell may be run while a run of it is live. VS Code does
not dispatch such a cell to the controller, so `FALSE` is the notebook editor;
extension code that calls the kernel directly can, so `TRUE` is checked as well.

### CellJobs

The promise of the queues without their machinery: a run is submitted to a job
that still accepts runs; it begins when those submitted to the job before it have
finished and the job is not aborted; it stays finished. `KernelExecution`
implements it (`QueuesImplementJobs`) under the mapping `Jobs`: a job is a queue,
aborted is failed, and the phase of a run follows from its result and `run`.

### ExecuteChain

Cells of an interrupted queue and of its successor can be under way together,
so requests can be made while others are pending. `request[r]` is the future
`requestExecute()` returned: the link it waits for, the JupyterLab future behind
it, the `done` its cell awaits, whether it still listens to the kernel status, and
the id its cell's handler looks for. `SwitchKernel` is the kernel a session gets
at the end of a restart; `KernelRestartsInPlace` a restart that keeps the kernel's
id. Actions are `requestExecute()`, the reactions to a link and to a status,
`dispose()`, and what kernel and connection do. What the handler does with a message
it knows is `CellOutputs`.

### CellOutputs

`run[r]` is a run with its `CellExecutionMessageHandler`: `state` is `clearing` until
VS Code cleared the cell, `executing`, `listening` when the run is over but widgets
keep the handler alive, and `over`. `stream`, `clearNext`, `failed` and `comms` are
`lastUsedStreamOutput`, `clearOutputOnNextUpdateToOutput`, `cellHasErrorsInOutput` and
`ownedCommIds`. A content is the number of the message that brought it. `edits` are
calls of the VS Code execution that have not been applied, `events` what VS Code has
not told yet; both are first in, first out, and edits are applied in batches that
are told of once. `Outcome` is the document as it will be when all edits have been
applied. `meant` is the document as the messages say, without any of
this; `stray`, `misled` and `spoiled` note where one of the exceptions of section 4 applies.

### KernelLifecycle

`BaseKernel` with each `createJupyterSession()` as a numbered start. A start
watches the cancellation source `token`; `startCancellation` is the current one,
`cancelled` those used up. `restartCall[r].pc` is the await at which a call of
`restart()` stands, `effect` what it has brought about. `disposal` is
`dispose()`. `ignoring` is the flag that makes the kernel deaf. The field
`restarting` of the code is tested and never assigned, so it guards nothing and
is not a variable.

### KernelConnections

One notebook, two controllers, and everybody who needs its kernel. `call[c]` is a
call of `wrapKernelMethod()`; `connection[e]` is a call of `wrapKernelMethodImpl()`,
the loop that calls the method, asks the user and tries again, with `pc` the await
it stands at:

| `pc` | code |
|---|---|
| `method` | `start()`, `interrupt()` or `restart()` of the kernel is awaited |
| `prompt`, `lastPrompt` | the user is asked about a dead kernel, before the method or after it |
| `restart`, `lastRestart` | the restart the user asked for |
| `handling`, `choosing` | the user is shown an error, or chooses another controller |
| `retry` | another turn of the loop |

`cached` is `connectionsByNotebook`, `mapped` is `kernelsByNotebook` of the
provider. `StartReturns`, `StartThrows` and `Dies` are what `KernelLifecycle` says
in detail, with its `dispose()` that waits for a start and does not survive its
rejection.

### KernelLauncher and RawSessions

`KernelLauncher` has the steps of one launch as operators, `RawSessions` composes
them with what the session that launched does in the same task. `launch[k].stage` is
where `launch()` stands; `search` and `process` are fields of their own because a
cancelled launch leaves the search and the process it began to themselves.
`portChain` is the promise of that name, `usedPorts` the static set. `start[k]` is
what the session does with the launch: `launching` and then `connecting`, until the
kernel has answered. `session[s]` has the session's promise, its current kernel and
`restartSessionPromise`; `provider` is `HostRawNotebookProvider.dispose()`.

### ServerSessions

The same for kernels on a Jupyter server: `start[k]` is a call of `createSession()`
with the await it stands at, `kernel[k]` the kernel as the server has it, which may
come up although the start that asked for it was cancelled. To shut a kernel down the
server is asked (`kernel[k] = "asked"`), and `KernelEnds` is the server doing so, which
it need not: `shutdownSession()` waits a second at most, swallows a request that fails
or is not answered, and disposes the session all the same. `session[s].closing` is
where `shutdown()` stands: the second for the current kernel, and then a restart
session is cancelled and awaited. A start first has the server make its backing file
(`file`), which neither time nor token limits; then the dependencies are looked for,
with a prompt that the token closes (`usable`). `server` is `HostJupyterServer`, whose
`shutdown()` is called when it is disposed and when its process ends. `remote` is
chosen in the initial state: a server that is not ours is not killed, and its kernels
outlive their notebooks.

### JupyterServers

Two caches of promises: `serverPromise` of `NotebookServerProvider` and `cache` of
`ServerCache`. `call[c]` is `getOrCreateServer()`, `start[c]` the `startServer()`
that it may begin, `server[c]` the server that may come of that. A step that
settles a promise settles all that waits for it (`Settles`), with the deletions
from the caches that each of the waiters makes.

### WidgetMessages

`item[i]` is a message the kernel sent or a request to it, in the promise chain of
its socket and direction; a message opens, updates or closes an Output widget. `posted`
is on its way to the webview, `unhandled` is with its second kernel connection. `fullHandle` is the one field of the dispatcher for
the message that the webview must handle fully. `kernel` says whether the notebook has
a kernel, which is what `initialize()` looks at: it has one before its first session
and keeps it when a session is lost. `announced` is what the kernel has told, or is
about to tell, of its session. `session`, `socket`, `subscribed` and `listened` relate the session to the socket the dispatcher hooked;
`pendingTargets`, `registered` and `kernelTargets` are the comm targets it still has
to register, believes registered, and the kernel connection really has: while the
kernel has no session, names are registered with nobody.

### DaemonPool

`daemon[d]` is a Python process with the place it is in (`use`), whether it lives,
whether its end was noticed, whether it was disposed and what it runs; `pool[t]` the
two lists of daemons; `request[r]` a call that takes a daemon or runs in a process of
its own. The sizes of the pools are constants; `MCDaemonPool` is run with the two
standard daemons and the one observable daemon that the code makes when a caller gives
no counts, and none in the code does. `ObserverDisposes` is `dispose()` of an observed
result, which its holder may call at any time, when the daemon may be with another
request.

## 3. Checks that pass

Times and states with two workers.

| Run | Instance | States | What it shows |
|---|---|---|---|
| `queues` | 2 runs, 2 sessions, 2 interrupts of which the second finds the first under way, live cells rerun | 687k, 90 s | a queue has one cell under way (`OneRunPerQueue`); when two cells are active, one belongs to a failed queue (`OneActiveCell`); what VS Code shows as executing is a run without a result (`LiveExecutionsAreOwned`); a successful `interrupt()` leaves its queue finished (`InterruptedQueueIsFinished`); a dead kernel is sent nothing (`DeadKernelEndsQueue`); the queues implement `CellJobs` |
| `progress` | 2 runs (one cell without code), 1 session, 1 interrupt, 1 restart, fair | 153k, 95 s | no run is lost (`NoRunIsLost`), every run gets its result (`RunsComplete`), calls end and held-up runs go on (`CallsReturn`), a restart ends what runs |
| `outputs` | 2 runs of 2 cells, 3 messages, 1 display id | 1.09M, 63 s | a cell shows what its messages say (`OutputsAsSent`), it has one handler (`HandlersAreSound`), errors are reported (`ErrorsAreReported`) |
| `chain` | 3 requests, 2 kernels, 1 lost connection each, fair | 57k, 15 s | one request at a time (`OneRequestAtATime`), awaited by its cell (`WhatRunsIsAwaited`), and ended at last (`RequestsAreDone`) |
| `lifecycle` | 2 starts, 3 restarts, fair | 249k, 124 s | `DeafOnlyWhileKilling`, `CancelReachesStarts`, and every restart returns (`RestartsReturn`) |
| `connections` | 3 calls, 3 connections, 2 kernels | 1.05M, 67 s | one live kernel per notebook and no failure that is cached (`NotebookIsSound`); who calls gets a kernel that is there; failures are not silent |
| `raw` | 2 sessions, 3 launches, 6 ports for 2 each, fair | 424k, 86 s | ports are exclusive and come back; processes are owned; disposing the provider leaves nothing; starts settle |
| `server_sessions` | 2 sessions, 3 kernels, local or remote, fair | 60k, 9 s | kernels are owned, or their server was asked to end them (`KernelsAreOwned`); a disposed server has no sessions (`SessionsAreSound`); shutting down ends, unless a restart waits for its backing file (`ClosesEnd`) |
| `servers` | 3 calls, 2 keys, 1 change of the URI, fair | 219k, 93 s | one server per key; a failed start is cached for nobody (`CachesAreSound`); calls return |
| `widgets` | 3 items, 2 sessions, 2 sockets, 1 reload of the webview, 1 target of its own, 6 of all these together, fair | 229k, 69 s | full handling is never lost and nothing waits on a socket that is gone (`DispatcherIsSound`); restarts register targets (`RestartRegistersTargets`); updates are handled first (`UpdatesAreHandledFirst`); nothing is held up (`NothingIsHeldUp`) |
| `daemons` | any 3 of 3 awaited and 2 observed requests, pools of 2 and 1 daemons, 1 more, fair | 251k, 152 s | a daemon serves one request (`DaemonsServeOne`); pools keep their size (`PoolsAreSound`); every awaited request returns and every observed one ends for its observer, unless another disposed its daemon (`CallsReturn`) |

Type correctness is a part of the composed invariants (`SessionsAreSound`,
`CachesAreSound`, `NotebookIsSound`, `DispatcherIsSound`, `PoolsAreSound`,
`HandlersAreSound`). That of `KernelExecution`, `ExecuteChain`, `KernelLifecycle` and
`RawSessions` is proved (section 5) and not run; so are `StartsInOrder`,
`DoneInOrder`, `RestartsAwaitLiveOnes` and `ShutdownIsFinal`.

**Why the bounds are enough.** All safety properties are also proved, for any bounds
(section 5): the instances are for the properties that need fairness, and they show
that the cases the theorems speak of do occur. In `KernelExecution` two runs are one
that is interrupted, dies or is restarted and one beside it, in the same queue or in
its successor; they can share an execution. The second session is what a run meets
after the first one failed, died or was closed. The second interrupt finds the first
under way (`MaxSeparate`): it shares its promise, or takes over after it. An interrupt
and a restart overlap in every order in `progress`. In `ExecuteChain` three requests
make a chain with a middle, two kernels make a chain cut by a restart, one drop gives
the code that outlives its future. In `KernelLifecycle` the second start is one that
replaces another, and of three restarts two can share what the third resets. In
`CellOutputs` the second run is the same cell again or another beside a handler that
outlives its run; three messages are something shown, a clearing or an update, and
what comes after it. Each of the exceptions of section 4 occurs in that instance:
leaving one out of the properties makes the run fail.

In `KernelConnections` the first call finds no connection, the second joins it or,
with another context, replaces it in the cache, the third meets what is left of
both; a second kernel is what an error, a change of controller or a retry makes. In
`RawSessions` three launches make a chain of port searches with a middle; with six
ports for three kernels of two they fit exactly, and a port found taken or not given
back leaves too few. Three launches are also a session with two restarts, or two
sessions of which one restarts. `ServerSessions` has the same three. In
`JupyterServers` the third call is made after a start that two shared has failed or
been cancelled. In `WidgetMessages` three items are a message that opens an Output
widget, an update of it, and one behind or a request across. With a session and a socket
that leaves one of a restart, a reload and a target of the widgets' own
(`MaxEvents`, in `MCWidgetMessages`); two items leave two of them or a second session.
In `DaemonPool` the pools have the sizes they have in the code. Three awaited requests
run on two daemons, and one finds the pool empty; two observed ones want the same
daemon, which the holder of the first may dispose under the second; and one daemon more
replaces one. `MCDaemonPool` has three requests begin (`MaxBegun`), of whichever types,
and those of a type in the order of their numbers, as nothing tells them apart.

Bounds only limit how often something *begins*: nothing that has begun is cut off by
them.

`CHECK_DEADLOCK FALSE` is given where the bounded environment may stop:
the user runs no more cells, opens no more notebooks. `KernelLifecycle` needs no
such exception because `interrupt()` can always be called.

### Fairness

*KernelExecution* (`HostFairness`): the event loop runs every microtask; VS Code
answers `clearOutput()`; a session start and a session restart settle (both have
timeouts in the session code); the interrupt timer fires; a request whose future
was disposed or whose kernel is gone is rejected by JupyterLab. Nothing is assumed
of the code of a cell: a cell may run for ever. Only `RunsComplete` has
`CellsTerminate` as a premise, because it is the one property that needs it.

*ExecuteChain*: microtasks run, the kernel gets to the end of code it was sent
while connected, and a lost connection comes back or is declared dead.

*KernelLifecycle*: something that is under way goes on (`Completion`: microtasks, and
the ends of creating, initializing, restarting and closing a session). That is one
condition for all of them together, so a call that goes on for ever could starve the
others; none does, since each only goes forward. Sessions are created and restarted
under time limits; the startup code run by `initializeAfterStart()` is taken to
finish.

*RawSessions*: each start goes on (`StartStep`): ports are found or there are none,
a process listens or the launch times out, a kernel answers or 30 seconds pass.

*ServerSessions*: each start goes on by its own timers and local work, a prompt about
dependencies is closed by the token of a start that was cancelled, the second for a
shutdown goes by, `shutdown()` of the server goes on. The server is not assumed to do
anything: not to start a kernel, to end one, or to answer for a backing file
(`FileCreated` is not fair). `ClosesEnd` has as its premise that no start waits for its
backing file for ever (`BackingFilesAnswered`), because the code awaits that answer
without a time limit; it has no other.

*JupyterServers*: what a call began goes on: commands are found or not, a process
comes up or times out.

*WidgetMessages*: each item that is next in its promise chain goes on, the webview
receives what it was posted and handles what it received. It is not assumed to answer
for what it lost by being loaded again.

*DaemonPool*: a process that lives finishes its request, the end of one that does not
is noticed unless it was disposed, a wait for a daemon ends after its second. The
upkeep of the pool is not assumed: no call may depend on it.

*KernelConnections* has no fairness and no liveness: its loop waits for the user.

There is no fairness for the user, for kernels and processes that die, for servers
that crash or for cells that close.

## 4. Where the code does not do what is said of it

`v_restarted` is the run that shows one such case: "Indicate a restart occurred if
it succeeds" (`kernels/kernel.base.ts:319`), but a restart during a start cancels the
start, swallows its rejection, restarts nothing, and fires `onRestarted`.

The properties of section 3 hold because they name the exceptions the code makes. The
stronger statements below are violated by the models; each can be put in the place
of the property named to see the behaviour.

| Statement | Formula | What the code does |
|---|---|---|
| "At any given point in time, we can only have one cell actively running." (`kernels/execution/cellExecutionMessageHandler.ts:70`) | `OneActiveCell` without its conclusion: `~(IsActive(e) /\ IsActive(f))` | An interrupted queue has failed while its cell still runs; a cell executed then gets a new queue that starts it at once. Two cells are active. The chain of requests (`ExecuteChain`) keeps the kernel from being sent both. |
| Cells that are cancelled "are not processed, & that too counts as completion" (`kernels/execution/cellExecutionQueue.ts:85`) | `NoRunIsLost` without `QueuedTooLate` | A cell that waited for a restart and is queued after the notebook was closed is taken off the list and not cancelled. Its result never settles. |
| `ownedRequestMsgIds` lists the ids "of requests sent either as part of request_execute" (`cellExecutionMessageHandler.ts:169`) | `HandlersKnowTheirRequest` (`ExecuteChain`) | The id is read once, when the handler is made; that of a delayed request is then the placeholder `'1'`, and what answers its real id is dropped: the outputs of the cell. Two requests of one kernel show it in five steps. |
| "If everything is still the same, then there's nothing to update." (`cellExecutionMessageHandler.ts:993`) | `OutputsAsSent` without `same` in `UpdateDisplay` | The new content is compared with what the output had when it was made, not with what it shows: an update back to the first content is dropped. |
| "If a cell was cleared, then remove the mapping, the output cannot exist anymore." (`cellDisplayIdTracker.ts:24`) | `OutputsAsSent` without `stray` in `TrackerForgets` | The event of a clearing comes after an output that was shown since; its display id is removed, and its updates are dropped. |
| "If there are any errors in the cell, then change status to error." (`cellExecution.ts:255`) | `ErrorsAreReported` without `misled` | The same event resets the error flag of an error that came after the clearing: the run is reported as successful above its traceback. |
| "only cell execution tasks can update cell output" (`cellExecutionMessageHandler.ts:523`) | `OutputsAsSent` without `Misplaced(r)` | The task used for a cell whose run is over is that of the active cell, and appending or clearing without a cell argument happens there: output of widgets of one cell appears in another that runs. |
| "we should wait for the next output before clearing the output" (`cellExecutionMessageHandler.ts:102`) | `OutputsAsSent` without the last line of `AddToCell` | `addToCellData` clears with `this.execution`, which is undefined once the run is over: the flag is reset and nothing is cleared. |
| "old kernel associated with the Uri will be disposed" (`kernels/types.ts:229`) | `disposal.pc # "no" ~> disposal.pc = "done"` (`KernelLifecycle`) | `dispose()` during a start cancels the start and awaits it (`kernel.base.ts:254`); the rejection ends `dispose()` before the kernel is disposed, for good. |
| A process that is disposed ends ("Launches and disposes a kernel process", `kernels/raw/launcher/kernelProcess.node.ts:64`) | `\A k \in Launches : launch[k].disposed => ~Running(k)` (`RawSessions`) | While the environment of a Python kernel is activated there is no process to kill (lines 464-468); it is spawned afterwards. This is `SpawnedTooLate`. |
| "Shutdown session - shutdown restart session" (`kernels/common/baseJupyterSession.ts:459`) | `KernelsAreOwned` without the last line of `Leaked` | The handler at line 485 clears `restartSessionPromise` as the promise settles, before the shutdown that awaits it goes on: that throws, and `restart()` installs the new kernel in a session that is over. |
| "If session.shutdown didn't work, just dispose" (`kernels/common/baseJupyterSession.ts:437`) | `session[s].closing = "over" => kernel[k] # "asked"` for the kernels `k` of `s` | A server that refuses, or does not answer in a second, keeps the kernel running, and its session is gone: nobody asks again. |
| `shutdown()` of a session ends: it waits a second at most (`baseJupyterSession.ts:432`) and cancels the restart it awaits (line 455) | `ClosesEnd` without `BackingFilesAnswered` | The restart may be waiting for the server to make its backing file (`jupyterSession.ts:246`), which no token ends. |
| "After shutting down notebooks and session manager, kill the main process." (`kernels/jupyter/launcher/liveshare/hostJupyterServer.ts:225`) | `server.pc["dispose"] \in {"done", "failed"} /\ ~remote => ~server.up` (`ServerSessions`) | One session whose start failed rejects the wait for all of them; the process is not killed. |
| The cache can "detach from the server when it goes away" (`liveshare/serverCache.ts:51`) | a call ends with a server whose `work` is `"up"` (`JupyterServers`) | The process of a local server that crashed shuts its server down without disposing it, and only a disposal takes it out of the cache. |
| "If we have any pending targets, register them now" (`ipyWidgetMessageDispatcher.ts:166`) | `announced = "started" => Elements(pendingTargets) \subseteq registered` (`WidgetMessages`) | The loop returns at the first name that is registered already; those behind it stay pending. |
| "Listen to changes to kernel socket (e.g. restarts or changes to kernel)." (`ipyWidgetMessageDispatcher.ts:185`) | `announced = "started" => listened = socket` (`WidgetMessages`) | It subscribes to the first session it sees; after that one failed and another was made it goes on listening to the first. |
| Targets are registered "now" when there is a kernel (`ipyWidgetMessageDispatcher.ts:166`) | `announced = "started" => registered \ {Default} \subseteq kernelTargets` (`WidgetMessages`) | `kernel.session?.registerCommTarget` does nothing for a kernel without a session, and the name counts as registered from then on: the first session never learns it, only one that restarts. |
| "Throw an error if the connection has been closed." (`platform/common/process/baseDaemon.node.ts:186`) | `ObservedCallsEnd` without `LeftBehind(r)` | A daemon that is disposed reports no end of its connection (line 345). The holder of an earlier result can dispose it while it serves another observer, whose request then never ends. |

Other exceptions that the properties make, by name:

* `ClearedUnheard(r)` in `OutputsAsSent`: stream text that is written to an output
  the user or a new run has cleared, before the handler hears of it, is lost.
* An output whose display id is used again (`Track`) is not updated any more, though
  Jupyter updates all outputs with the id.
* `ExecutionTaken`: two runs that share an execution; the one that ends first
  ends it for the other, whose error output then throws and whose result is left
  open (`NoRunIsLost`, `InterruptedQueueIsFinished`). It needs a live cell that is
  run again.
* `NeverLost(r)`: no lost connection. A lost connection ends the futures held back
  but not the code that runs, and the chain starts anew: then two requests overlap.
* `on \in {None, i}` in `InterruptedQueueIsFinished`: an `interrupt()` that found
  another one under way takes over its result, which may be about another queue.
* `Leaked(k)`: besides the kernel of a late restart, the kernel of a start that was
  cancelled when the server had been asked for it, and that of a start under which
  the server was disposed.
* In `PortsComeBack`: the ports of a launch that failed or was cancelled stay taken,
  since the exit of a process is watched from the end of a successful launch on.
* In `OneServerPerKey`: once the user selected another server the start of a local
  one is no longer found in its cache, and a second one is made.
* `LeftBehind(r)` in `ObservedCallsEnd`: the request of a daemon that another disposed.
* `Lost(j)` in `NothingIsHeldUp`: what waits for a webview that was loaded again, when
  what it waits for was on its way or unhandled then, and what is behind it in its
  chain. Everything else gets through after a reload as before.
* In `PoolsKeepTheirSize`: a daemon whose making failed is not made again.

More behaviours of the code are in the models without a property that states the
opposite: the handler of a run without widgets is disposed as its request is done, so
that what a background thread prints later is dropped; a cell queued while `restart()` awaits its session starts and is
ended by the restart; of two failing restarts the first to finish makes the kernel
listen again while the other still kills its session; and a kernel that was
disposed starts a session again when asked.

## 5. Theorems

All are proved for every value of the constants that satisfies the assumptions of
their module: the bounds are arbitrary natural numbers, the cells any set.

* `CellsAssumption`: the empty cells are among the cells; at least one run.
* `BoundsAssumption` of each module: the bounds are natural numbers (there is at
  least one kernel; `RerunLive` is a Boolean).
* `LaunchBounds`, `SessionBound`: so are those of `RawSessions`; there is at least
  one port, and a kernel needs at least one.
* `ConnectionBounds`, `SessionBounds`, `ServerBounds`: the bounds of
  `KernelConnections`, `ServerSessions` and `JupyterServers` are natural numbers.
* `WidgetBounds`: so are those of `WidgetMessages`.
* `OutputBounds`: so are those of `CellOutputs`; the cells and the display ids are any
  sets, and `NoDisplay` is no display id.
* `DaemonBounds`: the requests of the two types are finite, disjoint sets; the sizes of
  the pools are any natural numbers, and the daemons that the pools begin with are
  within the bound.

| Module | Theorem | Statement |
|---|---|---|
| `KernelExecution_proofs` | `TypeCorrect` | `Spec => []TypeOK` |
| | `OneRunAtATime` | `Spec => []OneRunPerQueue` |
| | `CellsStartInOrder` | `Spec => StartsInOrder` (an action property) |
| | `DeadKernelsEndQueues` | `Spec => DeadKernelEndsQueue` (an action property) |
| | `ExecutionsAreOwned` | `Spec => []LiveExecutionsAreOwned` |
| | `RunsAreDriven` | `Spec => []NoRunIsLost` |
| | `OneCellIsActive` | `Spec => []OneActiveCell` |
| | `SuccessFinishesQueue` | `Spec => []InterruptedQueueIsFinished` |
| | `QueuesRefineJobs` | `Spec => QueuesImplementJobs`, that is `Spec => Jobs!Spec` |
| `ExecuteChain_proofs` | `ChainIsInvariant` | `Spec => [](TypeOK /\ ChainInv)` |
| | `RequestsRunOneAtATime` | `Spec => []OneRequestAtATime` |
| | `RunningCodeIsAwaited` | `Spec => []WhatRunsIsAwaited` |
| | `RequestsEndInOrder` | `Spec => []DoneInOrder` |
| | `HandlersSound` | `OutputsSpec => []HandlersAreSound` |
| | `OutputsShownAsSent` | `OutputsSpec => []OutputsAsSent` |
| | `ErrorsReported` | `OutputsSpec => ErrorsAreReported` (an action property) |
| `KernelLifecycle_proofs` | `TypeCorrect` | `Spec => []TypeOK` |
| | `DeafnessEnds` | `Spec => []DeafOnlyWhileKilling` |
| | `CancellationReaches` | `Spec => []CancelReachesStarts` |
| | `RestartsAreAwaited` | `Spec => []RestartsAwaitLiveOnes` |
| | `DispatcherStaysSound` | `WidgetsSpec => []DispatcherIsSound` |
| | `RestartedTargetsAreKnown` | `WidgetsSpec => []RestartRegistersTargets` |
| | `FullUpdatesComeFirst` | `WidgetsSpec => []UpdatesAreHandledFirst` |
| `KernelConnections_proofs` | `SoundNotebook` | `Spec => []NotebookIsSound` |
| | `GivenKernels` | `Spec => []CallsGetKernelsThatAreThere` |
| | `ShownFailures` | `Spec => FailuresAreShown` (an action property) |
| `RawSessions_proofs` | `TypeCorrect` | `Spec => []TypeOK` |
| | `ExclusivePorts` | `Spec => []PortsAreExclusive` |
| | `PortsReturn` | `Spec => []PortsComeBack` |
| | `OwnedProcesses` | `Spec => []ProcessesAreOwned` |
| | `FinalShutdown` | `Spec => []ShutdownIsFinal` |
| | `ProviderCleansUp` | `Spec => []ProviderLeavesNothing` |
| `ServerSessions_proofs` | `SoundSessions` | `Spec => []SessionsAreSound` |
| | `OwnedKernels` | `Spec => []KernelsAreOwned` |
| `JupyterServers_proofs` | `SharedServers` | `Spec => []OneServerPerKey` |
| | `SoundCaches` | `Spec => []CachesAreSound` |
| `DaemonPool_proofs` | `SoundPools` | `Spec => []PoolsAreSound` |
| | `ServeOne` | `Spec => []DaemonsServeOne` |

`OutputsSpec` and `WidgetsSpec` are the specifications of `CellOutputs` and
`WidgetMessages`. What is proved of `CellOutputs` is the second part of
`ExecuteChain_proofs`, whose requests the messages answer; what is proved of
`WidgetMessages` is the second part of `KernelLifecycle_proofs`.

**Queues.** That a queue has one cell under way is not inductive: nothing in it
says that the loop, wherever it stands, knows that cell. `QueueInv` adds what the
code relies on:

* `RunsBelongToQueues`: a run is listed by its own queue only, and that queue has
  a loop;
* `StartedRunIsCurrent`: a started run without a result is the current cell of its
  queue, whose loop is past `next`. It gives `OneRunPerQueue` at once;
* `HealthyQueuesAreInOrder`: the list of a queue that has not failed is sorted, has
  every unfinished run of the queue, and at most its head was started. With it
  the head the loop takes is the oldest unfinished run (`FirstIsOldest`), which is
  `StartsInOrder`;
* `InterruptedQueuesFailed`: the `cancel()` that empties a list after an await
  does so in a failed queue. Without it that step would break the line above;
* `LoopSeesLiveKernel`: a loop that goes on after a cell has a kernel that is alive,
  because its death is a task and no task comes between; it gives
  `DeadKernelEndsQueue`.

Most actions only *end* runs: they set results, flags and failed queues. One lemma
(`EndingKeepsInv`) shows that every such change keeps `QueueInv`, and each of these
actions is shown to be one. What remains are the turn of the loop, the start of a
cell and the queueing of a run. `OnlyTheLoopStarts` then reduces the two action
properties to `LoopNext` and `LoopStartRejects`. Type correctness comes first: its
invariant `TypeInv` adds to `TypeOK` which runs and queues exist.

**Runs and jobs.** `RunInv` adds four parts to `TypeInv` and `QueueInv`, one for each
question that is left.

* `OwnerInv`: the creator's map has an execution for a cell exactly as long as that
  execution is live, and a live execution is held by a run without a result. Runs of a
  cell share executions, so a run that ends must end its execution as well: then
  what the others hold is not live any more.
* `JobInv`: a run whose `start()` threw is in a failed queue, and only the newest
  queue may list something without having failed. Then of two active runs in
  different queues one is in a queue that has failed (`OneActiveCell`).
* `LostInv`: what a failed queue still lists was started, a loop that has ended lists
  nothing, and a notebook that is closed has only runs without an execution in
  queues that have not failed. With it a run without a result is always at a place
  from which it is driven on.
* `InterruptInv`: what the `cancel()` of an interrupt waits for is all its queue
  still lists, and once it is through the queue has failed and is empty. A success
  that is reported after it is one about that queue.

Each action is one of three kinds of step, and each part is kept by each kind:
`StepSettles` (runs get results, their executions end, queues fail), `StepStarts` (one
run is started besides) and `StepQueues` (one run is made and queued). The same kinds
give the refinement: a step that settles is `Jobs!Finish` of the runs that get a
result and the queues that fail (of none if nothing of the kind happens), since a run
that never began gets one only in a failed queue or in its turn; one that starts is
`Jobs!Begin`, since `FirstIsOldest` says that what was submitted before has finished;
one that queues is `Jobs!Submit`, to a job that is not aborted.

**Requests.** `ChainInv` rests on the link of a delayed request being the request
just before it (`LinksAreInOrder`) and on the last request being remembered for
as long as it is pending (`ChainIsRemembered`). The case split is
`KernelsAreInOrderOrEnded`: the requests of a kernel are done in order, or all that
remain are held back by one that was rejected and will be rejected in turn; in the
second case nothing is sent any more. Each action is shown to be a proper step, one
that ends requests or sends the first that is held back, and one lemma
(`ProperStepKeepsInv`) covers proper steps. The new request is the other case.

**Outputs.** That `shown` and `meant` agree, once nothing is on its way, says nothing
about the time before. `OutputsInv` therefore speaks of `Outcome`, the document as it
will be, which no delivery of edits changes; only what is decided about a message, an
event or a run does.

* `PiecesInv`: outside the spoiled cells `Outcome` and `meant` have the same pieces,
  one after the other. A piece is a content with its kind, its display id and, unless
  it is text of a stream, the id of its output. What the property compares (content and
  kind) is too little: an update must find the same output in both documents. That
  stream text may be spread over outputs differently in the two is why pieces are
  compared and not outputs.
* `MadeInv`: outputs are made in the order of their messages, so each id names one;
  a stream has text and no display id, any other output has one content.
* `TrackedInv`, `ShownTracked`, `MeantTracked`: what the tracker holds for a display id
  is the last output with that id, and every other is `stray`. With them an update
  changes the same piece in both documents or none.
* `StreamInv`, `StreamOwn`, `StreamLast`, `ClearInv`: the stream a handler appends to
  is an output it made itself, and the last one of its cell unless a clearing has not
  been heard of. Then text that goes to the output goes to the end of the cell.
* `OwnInv`, `NoneBefore`, `ErrorInv`: outputs of a cell are those of its runs; a
  run that is being cleared for has none yet; a handler knows of the errors that are
  there, unless it was misled. `ErrorsReported` follows with the next two.
* `StartInv`, `OneBusy`, `OneHandlerPerCell`: the clearing that a run begins with is on
  its way to VS Code or back, once, and one run at a time is there to write.

What edits make of a document is recursive (`Applied`, `Flattened`). The equations of
these functions are derived from well-foundedness (`UpTo` and `LeastNumber`), and
from them, by the least number for which a statement fails, what appending, splitting and
mapping do to their results (`AppliedSplit`, `FlattenedAppend`, `FlattenedMapped`).
Steps are shown to keep `OutputsInv` from what they do to outputs: each output after the
step is `Like` one before it, or new (`From`).

**Lifecycle.** The three invariants are inductive beside `TypeOK`, and are proved
with one step per action.

**Widgets.** `DispatcherInv` has the parts that the order of messages rests on.

* `ChainsInv`: items are made in the order of their numbers, and behind one that holds
  its promise chain up nothing has reached its hook. `FullUpdatesComeFirst` needs it.
* `ItemsInv`: where an item can be in each of its states. The one that was posted
  to be handled fully is the one that `fullHandle` names, so the answer that releases
  its hook is about that item; a second one that is posted for full handling would overwrite
  the field, and `ChainsInv` excludes it.
* `HandedOnce`: the webview gets an item once; a second answer would be about the
  next.
* `SocketsInv`: which sessions and sockets there are, and that there is a session
  exactly as long as something is or was announced of it.
* `TargetsInv`: a session whose restart was announced knows the targets believed
  registered. It says nothing of one that was only started, and could not: names are
  registered without a session. `KernelRestarted` makes all of them pending before it
  registers them anew, and what `initialize()` registers later is for that session
  (`SubscribeFacts`, `InitializeFacts`).

**Raw sessions.** `IInv` has a part about launches and one about sessions.

* `LaunchOK` and `StageOK` tie the fields of a launch to each other and to what its
  session does with it: ports only after a search that found them, a process only
  after ports, and nothing disposed before it is launched but by a launch that
  fails.
* `PortsAreApart`: launches that have not given their ports back have none in
  common. Neither this nor `PortsComeBack` is inductive alone: that a search may
  take what is not in `usedPorts` needs `PortsComeBack`, and that the ports of a
  process that ends may leave `usedPorts` needs that no one else has them. Kernels
  that run have not given theirs back, hence `PortsAreExclusive`.
* `OwnerOK`, `OneStart` and `SessionOK`: a session has one start in flight at most,
  which is the one it waits for; a kernel that is up and not disposed is the current
  one; and a session that is over has neither. They give the two theorems about
  owners.

Whatever ends, be it a failed launch, an exit, a restart that replaces a kernel or
a shutdown of several sessions, is a set of launches that throw and one of processes
that are disposed. `EndsKeep`, `EndsStages` and `FailKeeps` treat all of these at
once. That `Max` of a non-empty set of numbers is in the set, which `FindPorts` relies on
for its next search, is derived from well-foundedness (`MaxIsIn`).

`ProviderLeavesNothing` needs `DisposeInv` besides: launches are taken in the order of
their numbers, so that a launch which is not the first of its session can be told from
one that is (`Follows`); a session that exists has had a first; and what the
provider waited for, once it has gone on, has no first kernel any more. That a restart may
still install one is the exception of the property.

**Connections.** `IInv` says for kernels, connections and calls what each may rely on.

* `KernelOK` and `KernelsOK`: a kernel that is not being disposed is the one the
  notebook is mapped to, and the map never holds one that *was* disposed. It may hold
  one that is being disposed and awaits its start, and then a connection gets that
  kernel; so both halves are needed, the first for `OneKernelPerNotebook`, the second
  for what connections turn to.
* `CallOK`: a call that waits, or is about to connect anew, has not lost sight of
  which kernels it must not return. It waits for a connection under way whose kernel
  is none of them, and neither is that of a cached connection which it may join
  next. A call with UI waits for a connection with UI, which is why it never fails
  unasked.

One lemma (`Goes`) states what a step may do to kernels (`KernelsGo`), to connections
(`ConnectionsGo`) and to calls (`CallsGo`) so that `IInv` holds again and no failure
is silent. A kernel that a connection turns to is not disposed when it does: that is
the clause of `ConnectionsGo` that keeps `CallOK`. Connections that resolve, that
throw and that fail are treated together (`ResolvedKeeps`, `ThrewKeeps`,
`FailsKeep`), and so are the three ways to call (`WrapKeeps`).

**Server sessions.** Beside the types `IInv` has starts in the order of their
numbers, and:

* `StartOK`: a first start in flight is the one its session waits for, a restart in
  flight is the one its session knows. Restarts are told from first starts by the order.
* `KernelOK`: a kernel is there from the request for it on; one that runs and was not
  asked to end is owned, or is one of the exceptions (`Leaked`); and one that was
  asked to is not in use: a kernel that a restart replaced, that was not idle in time,
  or whose session is closing.
* `SessionOK`: while a session is being shut down the server was asked to end its
  kernel, or the kernel is left on purpose or gone, unless a restart installed it
  meanwhile; when `shutdown()` is over the session has neither kernel nor restart. Without the first of these the end of
  `shutdown()` would forget a kernel that runs.
* `ServerOK`: whatever `dispose()` of the server does not wait for is over.

**Servers.** A step that settles a promise goes through states in which the caches
hold failures that nobody has noticed. `Ready` is therefore a predicate of the values
an action has made before anything settles, and `SettlesKeeps` shows once and for all
that what settles then (`Settles`) leads to `IInv`. Its parts are that each start in
flight is awaited by the call that began it and each server being made by the start
that made it (`StartsAwaited`, `MakersWait`), so that every failure has someone to
notice it, and that a cached failure is one about to be noticed (`FailuresNoticed`).
`LiveCached` gives `OneServerPerKey`: until the user selects another server a live one
is what is cached under its key, and whoever starts one joins that.

**Daemons.** The size of a pool is a cardinality, so `DaemonInv` says of each type that
the daemons in use, wherever they are, and those that could not be made are as many as
the options ask for (`Sized`). A step either leaves the set of daemons in use alone or
takes one out and puts a new one in (`Swapped`), except that a creation may fail, which
`failed` counts. The pool itself is a sequence without repetition of the daemons whose
`use` says so (`Pooled`; `Appended` and `TailOf` say what giving back and taking do to
it). `HoldersAlone` says that who holds a daemon has it to itself, and `Successor` that
one made in place of another finds that one given up. A disposed daemon stays where it
is, with nothing that it runs; that is why disposing it late does not touch any of these.

Every invariant and every action property that a run checks is a theorem, and so is the
refinement. Not proved, and only checked on the instances of section 3, is what is
temporal under fairness, which is beyond the proof system: `RunsComplete`,
`CallsReturn` (in three modules), `RestartEndsRuns`, `RequestsAreDone`, `RestartsReturn`,
`StartsSettle`, `ClosesEnd`, `NothingIsHeldUp`. Nor are `RestartedMeansRestarted` and
`HandlersKnowTheirRequest`, which do not hold.

## 6. What is left out

* Content: source code, metadata, execution counts, messages to the user. What an
  output says is the number of its message.
* Output widgets that capture the outputs of others (`updateJupyterOutputWidgetWithOutput`),
  the escape code that moves the cursor up, input prompts, payloads of replies
  (`set_next_input`), cells that are closed while their handler listens, and messages
  that come for an execution that was cancelled by force. In `CellOutputs` one run is
  executing at a time, which is what the chain of requests gives, and the user clears
  outputs while no edit is on its way.
* Switching the controller of a live execution, and raw cells.
* `isKernelDead`, the status that is displayed, the event hooks that run before
  interrupts and restarts, telemetry, kernel info, startup statements.
* Callbacks, message hooks and input replies that a delayed future keeps for the
  real one; requests that are not kept in the history (they bypass the chain).
* The await of pending cells in a restart without a session is taken to end with
  the call: that restart changes nothing afterwards.
* The crash monitor. When a kernel dies, the run of the cell has ended before the
  monitor hears of it: for a raw kernel its request is rejected as the session is
  disposed, which precedes the status `dead`; for a Jupyter kernel that restarts by
  itself JupyterLab disposes the futures right after the status event. What is left is
  the time VS Code takes to append the monitor's error output, in which the monitor
  may hold the execution of the last executed cell or share it with a run. Whether
  that can do harm depends on the order in which JupyterLab announces and disposes,
  which is not in the sources.
* Kernels disposed when the extension ends (`KernelProvider.dispose()`), the
  interrupt daemon of raw kernels, and the file in which the first free port is
  remembered between windows.
* Message hooks of widgets, and messages from the webview to the kernel.
* Components without a module: their reasons are in PROJECT.json.

## 7. Plan

All modules of the first plan are there: cells, requests, lifecycle, connections, raw
and server sessions, servers, widgets, daemons, and the outputs of cells. The order
was that of importance to the user.

What the runs check of safety is proved. A theorem that is not stated yet is that the
queues of a kernel, the chain of its requests and the handlers of its cells together
show the outputs of cells in the order in which the cells were executed: the modules are
proved one by one, and what one takes from another (one run is executing at a time, a
request is sent when the one before it has ended) is built into its actions.

Next in the models: output widgets that capture outputs, the interactive window as a
client of `KernelExecution`, and the debugger.
