--------------------------- MODULE KernelExecution ---------------------------
(***************************************************************************)
(* Execution of the cells of one notebook by one kernel: KernelExecution   *)
(* (kernels/execution/kernelExecution.ts) with its CellExecutionQueues     *)
(* (cellExecutionQueue.ts) and the runs they process, fed by the calls     *)
(* BaseKernel makes (kernels/kernel.base.ts).                              *)
(*                                                                         *)
(* The extension host is one thread.  An action is the code between two    *)
(* awaits.  Actions that resume a settled promise are microtasks; all      *)
(* others (calls of the user, messages of the kernel, timers, replies of   *)
(* VS Code) are tasks, and a task runs only when no microtask is due.      *)
(*                                                                         *)
(* A queue is named after the first run put in it.                         *)
(***************************************************************************)
EXTENDS CellExecution

CONSTANTS
    MaxSessions,    \* bound: how many Jupyter sessions are started
    MaxInterrupts,  \* bound: how many times interrupt() is called
    MaxSeparate,    \* bound: of these, those called while none is under way
    MaxRestarts,    \* bound: how many times restart() is called
    RerunLive       \* may a cell be run again while a run of it is live?

Sessions == 1..MaxSessions
Interrupts == 1..MaxInterrupts
Restarts == 1..MaxRestarts

ASSUME BoundsAssumption ==
    /\ MaxSessions \in Nat
    /\ MaxInterrupts \in Nat /\ MaxSeparate \in Nat
    /\ MaxRestarts \in Nat
    /\ RerunLive \in BOOLEAN

VARIABLES
    \* CellExecutionQueue
    queue,            \* the queues, with the state of their executeQueuedCells()
    \* KernelExecution
    docQueue,         \* documentExecutions of the notebook
    interruptCall,    \* the calls of interrupt()
    restartCall,      \* the calls of restart()
    interruptPromise, \* _interruptPromise: the call it belongs to, or None
    restartPromise,   \* _restartPromise: the call it belongs to, or None
    waitingRuns,      \* calls of executeCell() held up by a restart
    \* BaseKernel and the Jupyter session
    session,          \* the promises createJupyterSession() made
    sessionPromise,   \* _jupyterSessionPromise, or None
    kernelStatus,     \* status of each session
    \* VS Code
    notebookClosed

queueVars == <<queue, docQueue>>
callVars == <<interruptCall, restartCall, interruptPromise, restartPromise, waitingRuns>>
sessionVars == <<session, sessionPromise, kernelStatus>>
vars == <<cellVars, queueVars, callVars, sessionVars, notebookClosed>>

LoopStates == {"none", "awaitSession", "next", "awaitStart", "awaitResult", "done"}

QueueRec ==
    [items : Seq(Execs), failed : BOOLEAN, loop : LoopStates,
     cell : 0..MaxExecs, session : 0..MaxSessions]

InterruptRec ==
    [pc : {"idle", "awaitSession", "awaitCells", "race", "shared", "done"},
     queue : 0..MaxExecs, session : 0..MaxSessions, on : 0..MaxInterrupts,
     waits : SUBSET Execs, cancelPending : BOOLEAN,
     result : {"none", "Success", "TimedOut", "Restarted"}]

RestartRec ==
    [pc : {"idle", "awaitSession", "awaitRestart", "done", "failed"},
     queue : 0..MaxExecs, session : 0..MaxSessions, on : 0..MaxRestarts]

WaitingRec ==
    [cell : Cells, session : Sessions, on : Restarts, state : {"blocked", "go"}]

TypeOK ==
    /\ CellTypeOK
    /\ queue \in [Execs -> QueueRec]
    /\ docQueue \in 0..MaxExecs
    /\ interruptCall \in [Interrupts -> InterruptRec]
    /\ restartCall \in [Restarts -> RestartRec]
    /\ interruptPromise \in 0..MaxInterrupts
    /\ restartPromise \in 0..MaxRestarts
    /\ waitingRuns \subseteq WaitingRec
    /\ session \in [Sessions -> {"none", "starting", "ready", "failed"}]
    /\ sessionPromise \in 0..MaxSessions
    /\ kernelStatus \in [Sessions -> {"ok", "dead", "disposed"}]
    /\ notebookClosed \in BOOLEAN

Init ==
    /\ CellInit
    /\ queue = [q \in Execs |-> [items |-> <<>>, failed |-> FALSE, loop |-> "none",
                                 cell |-> None, session |-> None]]
    /\ docQueue = None
    /\ interruptCall = [i \in Interrupts |->
          [pc |-> "idle", queue |-> None, session |-> None, on |-> None,
           waits |-> {}, cancelPending |-> FALSE, result |-> "none"]]
    /\ restartCall = [r \in Restarts |->
          [pc |-> "idle", queue |-> None, session |-> None, on |-> None]]
    /\ interruptPromise = None
    /\ restartPromise = None
    /\ waitingRuns = {}
    /\ session = [s \in Sessions |-> "none"]
    /\ sessionPromise = None
    /\ kernelStatus = [s \in Sessions |-> "ok"]
    /\ notebookClosed = FALSE

-----------------------------------------------------------------------------
(* Which promises have settled, that is which microtasks are due.          *)
Settled(s) == s # None => session[s] \in {"ready", "failed"}
NoSession(s) == s # None => session[s] = "failed"
Queues == {q \in Execs : queue[q].loop # "none"}
Items(q) == Members(queue[q].items)
Resolved(S) == \A e \in S : exec[e].result # "pending"

LoopDue(q) ==
    \/ queue[q].loop = "awaitSession" /\ Settled(queue[q].session)
    \/ queue[q].loop = "next"
    \/ queue[q].loop = "awaitResult" /\ Resolved({queue[q].cell})
CellsSettled(i) ==
    interruptCall[i].cancelPending /\ Resolved(interruptCall[i].waits)
InterruptDue(i) ==
    \/ interruptCall[i].pc = "awaitSession" /\ Settled(interruptCall[i].session)
    \/ CellsSettled(i)
    \/ /\ interruptCall[i].pc \in {"awaitCells", "race"}
       /\ ~interruptCall[i].cancelPending
    \/ /\ interruptCall[i].pc = "shared"
       /\ interruptCall[interruptCall[i].on].pc = "done"
RestartDue(r) ==
    restartCall[r].pc = "awaitSession" /\ Settled(restartCall[r].session)
RunDue(w) == w.state = "go"

NoMicrotaskDue ==
    /\ \A q \in Execs : ~LoopDue(q)
    /\ \A i \in Interrupts : ~InterruptDue(i)
    /\ \A r \in Restarts : ~RestartDue(r)
    /\ \A w \in waitingRuns : ~RunDue(w)

-----------------------------------------------------------------------------
\* Faulty variant: the array is emptied and its runs are not cancelled.
CancelQueueForgets(q, s) ==
    /\ UNCHANGED cellVars
    /\ queue' = [queue EXCEPT ![q].failed = TRUE, ![q].items = <<>>,
                              ![q].loop = "done"]

(* CellExecutionQueue.cancel() of queue q holding the list s.  The array   *)
(* is emptied once the cells it waits for have results.                    *)
CancelQueue(q, s) ==
    /\ CancelExecs(Cancellable(s, FALSE))
    /\ queue' = [queue EXCEPT ![q].failed = TRUE, ![q].items = <<>>,
                              ![q].loop = "done"]

\* Faulty variant: a queue that was cancelled still takes cells.
ReusableThoughFailed == /\ docQueue # None
                        /\ queue[docQueue].items # <<>>

\* Faulty variant: the test of the items is the wrong way round.
ReusableIfEmpty == /\ docQueue # None
                   /\ queue[docQueue].items = <<>>
                   /\ ~queue[docQueue].failed

(* getOrCreateCellExecutionQueue() and queueCell().                        *)
Reusable == /\ docQueue # None
            /\ queue[docQueue].items # <<>>
            /\ ~queue[docQueue].failed

QueueCell(c, s) ==
    \/ /\ Reusable
       /\ \E e \in Items(docQueue) : exec[e].cell = c
       /\ UNCHANGED <<cellVars, queueVars>>
    \/ /\ Reusable
       /\ \A e \in Items(docQueue) : exec[e].cell # c
       /\ Create(c, docQueue)
       /\ queue' = [queue EXCEPT ![docQueue].items = Append(@, nExecs + 1)]
       /\ UNCHANGED docQueue
    \/ /\ ~Reusable
       /\ Create(c, nExecs + 1)
       /\ queue' = [queue EXCEPT ![nExecs + 1] =
                      [items |-> <<nExecs + 1>>, failed |-> FALSE,
                       loop |-> "awaitSession", cell |-> None, session |-> s]]
       /\ docQueue' = nExecs + 1

(* BaseKernel.executeCell(): startJupyterSession(), then executeCell().    *)
StartSession(s) ==
    \/ /\ sessionPromise = s
       /\ UNCHANGED <<session, sessionPromise>>
    \/ /\ sessionPromise = None
       /\ session[s] = "none" /\ (\A t \in 1..(s - 1) : session[t] # "none")
       /\ session' = [session EXCEPT ![s] = "starting"]
       /\ sessionPromise' = s

HasLiveRun(c) ==
    executionMap[c] # None \/ \E w \in waitingRuns : w.cell = c

ExecuteCell(c) ==
    /\ NoMicrotaskDue
    /\ ~notebookClosed /\ c \notin closedCells
    /\ nExecs + Cardinality(waitingRuns) < MaxExecs
    /\ RerunLive \/ ~HasLiveRun(c)
    /\ \E s \in Sessions :
          /\ StartSession(s)
          /\ \/ /\ restartPromise # None
                /\ waitingRuns' = waitingRuns \cup
                      {[cell |-> c, session |-> s, on |-> restartPromise, state |-> "blocked"]}
                /\ UNCHANGED <<cellVars, queueVars>>
             \/ /\ restartPromise = None
                /\ QueueCell(c, s)
                /\ UNCHANGED waitingRuns
    /\ UNCHANGED <<interruptCall, restartCall, interruptPromise, restartPromise,
                   kernelStatus, notebookClosed>>

(* BaseKernel.start(): the kernel is started before any cell is run.       *)
StartKernel(s) ==
    /\ NoMicrotaskDue
    /\ sessionPromise = None
    /\ StartSession(s)
    /\ UNCHANGED <<cellVars, queueVars, callVars, kernelStatus, notebookClosed>>

(* executeCell() goes on after the restart it waited for.                  *)
ResumeExecuteCell(w) ==
    /\ RunDue(w)
    /\ waitingRuns' = waitingRuns \ {w}
    /\ QueueCell(w.cell, w.session)
    /\ UNCHANGED <<interruptCall, restartCall, interruptPromise, restartPromise,
                   sessionVars, notebookClosed>>

-----------------------------------------------------------------------------
(* executeQueuedCells(): the session is there, or start() catches.         *)
LoopSessionSettled(q) ==
    /\ queue[q].loop = "awaitSession" /\ Settled(queue[q].session)
    /\ \/ /\ ~NoSession(queue[q].session)
          /\ queue' = [queue EXCEPT ![q].loop = "next"]
          /\ UNCHANGED cellVars
       \/ /\ NoSession(queue[q].session)
          /\ CancelQueue(q, queue[q].items)
    /\ UNCHANGED <<docQueue, callVars, sessionVars, notebookClosed>>

(* One turn of the while loop up to its first await.                       *)
LoopNext(q) ==
    LET s == queue[q].items
        e == Head(s)
    IN  /\ queue[q].loop = "next"
        /\ \/ /\ s = <<>>
              /\ queue' = [queue EXCEPT ![q].loop = "done"]
              /\ UNCHANGED cellVars
           \/ /\ s # <<>> /\ (notebookClosed \/ queue[q].failed)
              /\ CancelQueue(q, Tail(s))
           \/ /\ s # <<>> /\ ~notebookClosed /\ ~queue[q].failed
              /\ \/ /\ exec[e].cell \in closedCells
                    /\ StartNotExecutable(e)
                    /\ queue' = [queue EXCEPT ![q].loop = "awaitResult", ![q].cell = e]
                 \/ /\ exec[e].cell \notin closedCells
                    /\ wrapper[exec[e].execution] # "ended"
                    /\ StartBegins(e)
                    /\ queue' = [queue EXCEPT ![q].loop = "awaitStart", ![q].cell = e]
        /\ UNCHANGED <<docQueue, callVars, sessionVars, notebookClosed>>

(* cellToExecute.start() rejects: the finally clause drops the cell and    *)
(* start() of the queue cancels the others.                                *)
LoopStartRejects(q) ==
    LET s == queue[q].items
        e == Head(s)
    IN  /\ queue[q].loop = "next" /\ s # <<>>
        /\ ~notebookClosed /\ ~queue[q].failed
        /\ exec[e].cell \notin closedCells
        /\ wrapper[exec[e].execution] = "ended"
        /\ LET S == Cancellable(Tail(s), FALSE)
           IN  /\ exec' = [x \in Execs |->
                     IF x = e THEN [exec[x] EXCEPT !.started = TRUE]
                     ELSE IF x \in S
                     THEN [exec[x] EXCEPT !.cancelHandled = TRUE, !.completed = TRUE,
                                          !.execution = None,
                                          !.result = Resolve(x, "Idle")]
                     ELSE exec[x]]
               /\ EndExecutions(S)
               /\ active' = IF exec[e].execution \in ExecutionsOf(S)
                            THEN None ELSE exec[e].execution
        /\ queue' = [queue EXCEPT ![q].failed = TRUE, ![q].items = <<>>,
                                  ![q].loop = "done", ![q].cell = e]
        /\ UNCHANGED <<nExecs, closedCells, docQueue, callVars, sessionVars,
                       notebookClosed>>

\* Faulty variants: the loop does not wait for the result of the cell; it does
\* not look at the kernel afterwards.
LoopGoesOnAtOnce(q) ==
    /\ queue[q].loop = "awaitResult"
    /\ queue' = [queue EXCEPT ![q].items = IF @ = <<>> THEN @ ELSE Tail(@),
                              ![q].loop = "next"]
    /\ UNCHANGED <<cellVars, docQueue, callVars, sessionVars, notebookClosed>>

LoopIgnoresKernel(q) ==
    LET e == queue[q].cell
        s == queue[q].items
        rest == IF s # <<>> /\ Head(s) = e THEN Tail(s) ELSE s
        stop == queue[q].failed \/ exec[e].result = "Error"
    IN  /\ queue[q].loop = "awaitResult" /\ Resolved({e})
        /\ \/ stop /\ CancelQueue(q, rest)
           \/ /\ ~stop
              /\ queue' = [queue EXCEPT ![q].items = rest, ![q].loop = "next"]
              /\ UNCHANGED cellVars
        /\ UNCHANGED <<docQueue, callVars, sessionVars, notebookClosed>>

(* The rest of that turn, once the cell has its result.  The cell, if it   *)
(* is still listed, is the first of the list.                              *)
LoopResultSettled(q) ==
    LET e == queue[q].cell
        s == queue[q].items
        rest == IF s # <<>> /\ Head(s) = e THEN Tail(s) ELSE s
        stop == \/ queue[q].failed
                \/ exec[e].result = "Error"
                \/ kernelStatus[queue[q].session] \in {"dead", "disposed"}
    IN  /\ queue[q].loop = "awaitResult" /\ Resolved({e})
        /\ \/ stop /\ CancelQueue(q, rest)
           \/ /\ ~stop
              /\ queue' = [queue EXCEPT ![q].items = rest, ![q].loop = "next"]
              /\ UNCHANGED cellVars
        /\ UNCHANGED <<docQueue, callVars, sessionVars, notebookClosed>>

-----------------------------------------------------------------------------
(* clearOutput() returns, and the code is sent unless there is none.       *)
ClearOutputDone(e) ==
    LET q == exec[e].queue
        noCode == exec[e].cell \in EmptyCells \cup closedCells
        status == kernelStatus[queue[q].session]
    IN  /\ NoMicrotaskDue
        /\ exec[e].run = "clearing"
        /\ \/ noCode /\ CompletedSuccessfully(e, FALSE)
           \/ ~noCode /\ status # "disposed" /\ SendRequest(e)
           \/ ~noCode /\ status # "ok" /\ CompletedWithErrors(e)
        /\ queue' = [queue EXCEPT ![q].loop = "awaitResult"]
        /\ UNCHANGED <<docQueue, callVars, sessionVars, notebookClosed>>

(* request.done settles: the kernel replied, with or without an error in   *)
(* the output, or the request was rejected.                                *)
KernelReplies(e) ==
    /\ NoMicrotaskDue
    /\ exec[e].run \in {"running", "doomed"}
    /\ \E hasErrorOutput \in BOOLEAN : CompletedSuccessfully(e, hasErrorOutput)
    /\ UNCHANGED <<queueVars, callVars, sessionVars, notebookClosed>>

RequestRejected(e) ==
    /\ NoMicrotaskDue
    /\ exec[e].run \in {"running", "doomed"}
    /\ CompletedWithErrors(e)
    /\ UNCHANGED <<queueVars, callVars, sessionVars, notebookClosed>>

RunsOn(s) == {e \in Born : queue[exec[e].queue].session = s}

SessionStarted(s) ==
    /\ NoMicrotaskDue
    /\ session[s] = "starting"
    /\ session' = [session EXCEPT ![s] = "ready"]
    /\ UNCHANGED <<cellVars, queueVars, callVars, sessionPromise, kernelStatus,
                   notebookClosed>>

SessionFailed(s) ==
    /\ NoMicrotaskDue
    /\ session[s] = "starting"
    /\ session' = [session EXCEPT ![s] = "failed"]
    /\ sessionPromise' = None
    /\ UNCHANGED <<cellVars, queueVars, callVars, kernelStatus, notebookClosed>>

KernelDies(s) ==
    /\ NoMicrotaskDue
    /\ session[s] = "ready" /\ kernelStatus[s] = "ok"
    /\ kernelStatus' = [kernelStatus EXCEPT ![s] = "dead"]
    /\ DoomRequests(RunsOn(s))
    /\ UNCHANGED <<queueVars, callVars, session, sessionPromise, notebookClosed>>

(* session.onDidDispose: BaseKernel forgets the session.                   *)
SessionDisposed(s) ==
    /\ NoMicrotaskDue
    /\ session[s] = "ready" /\ kernelStatus[s] # "disposed"
    /\ kernelStatus' = [kernelStatus EXCEPT ![s] = "disposed"]
    /\ sessionPromise' = None
    /\ DoomRequests(RunsOn(s))
    /\ UNCHANGED <<queueVars, callVars, session, notebookClosed>>

-----------------------------------------------------------------------------
(* interrupt(): the queue is looked up first, then the session awaited.    *)
Interrupt(i) ==
    /\ NoMicrotaskDue
    /\ interruptCall[i].pc = "idle" /\ (\A j \in 1..(i - 1) : interruptCall[j].pc # "idle")
    /\ i <= MaxSeparate \/ interruptPromise # None
    /\ docQueue # None
    /\ interruptCall' = [interruptCall EXCEPT ![i].pc = "awaitSession",
                              ![i].queue = docQueue, ![i].session = sessionPromise]
    /\ UNCHANGED <<cellVars, queueVars, restartCall, interruptPromise, restartPromise,
                   waitingRuns, sessionVars, notebookClosed>>

InterruptSessionSettled(i) ==
    LET q == interruptCall[i].queue
        waits == AwaitedByCancel(queue[q].items)
        Goto(pc, on) ==
            interruptCall' = [interruptCall EXCEPT ![i].pc = pc, ![i].on = on,
                                 ![i].waits = waits, ![i].cancelPending = TRUE]
    IN  /\ interruptCall[i].pc = "awaitSession" /\ Settled(interruptCall[i].session)
        /\ CancelExecs(Cancellable(queue[q].items, FALSE))
        /\ queue' = [queue EXCEPT ![q].failed = TRUE]
        /\ \/ /\ NoSession(interruptCall[i].session)
              /\ interruptPromise' = None
              /\ Goto("awaitCells", None)
           \/ /\ ~NoSession(interruptCall[i].session)
              /\ interruptPromise # None
              /\ Goto("shared", interruptPromise)
              /\ UNCHANGED interruptPromise
           \/ /\ ~NoSession(interruptCall[i].session)
              /\ interruptPromise = None
              /\ interruptPromise' = i
              /\ Goto("race", i)
        /\ UNCHANGED <<docQueue, restartCall, restartPromise, waitingRuns, sessionVars,
                       notebookClosed>>

(* The cells cancel() waited for have results: the array is emptied.       *)
InterruptCellsSettled(i) ==
    /\ CellsSettled(i)
    /\ queue' = [queue EXCEPT ![interruptCall[i].queue].items = <<>>]
    /\ interruptCall' = [interruptCall EXCEPT ![i].cancelPending = FALSE]
    /\ UNCHANGED <<cellVars, docQueue, restartCall, interruptPromise, restartPromise,
                   waitingRuns, sessionVars, notebookClosed>>

Returns(i, result) ==
    /\ interruptCall' = [interruptCall EXCEPT ![i].pc = "done", ![i].result = result]
    /\ UNCHANGED <<cellVars, queueVars, restartCall, restartPromise, waitingRuns,
                   sessionVars, notebookClosed>>

(* pendingCells settles first: interrupt() returns Success.                *)
InterruptSucceeds(i) ==
    /\ interruptCall[i].pc \in {"awaitCells", "race"}
    /\ ~interruptCall[i].cancelPending
    /\ interruptPromise' = IF interruptCall[i].pc = "race" THEN None ELSE interruptPromise
    /\ Returns(i, "Success")

(* The timer fires first, or the session restarts or refuses to interrupt. *)
InterruptGivesUp(i) ==
    /\ NoMicrotaskDue
    /\ interruptCall[i].pc = "race"
    /\ interruptPromise' = None
    /\ \E result \in {"TimedOut", "Restarted"} : Returns(i, result)

(* A call that found _interruptPromise set takes over that result.         *)
InterruptShared(i) ==
    /\ interruptCall[i].pc = "shared"
    /\ interruptCall[interruptCall[i].on].pc = "done"
    /\ interruptPromise' = None
    /\ Returns(i, interruptCall[interruptCall[i].on].result)

-----------------------------------------------------------------------------
(* restart(), called by BaseKernel while it has a session promise.         *)
Restart(r) ==
    /\ NoMicrotaskDue
    /\ restartCall[r].pc = "idle" /\ (\A t \in 1..(r - 1) : restartCall[t].pc # "idle")
    /\ sessionPromise # None
    /\ restartCall' = [restartCall EXCEPT ![r].pc = "awaitSession",
                            ![r].queue = docQueue, ![r].session = sessionPromise]
    /\ UNCHANGED <<cellVars, queueVars, interruptCall, interruptPromise, restartPromise,
                   waitingRuns, sessionVars, notebookClosed>>

RestartSessionSettled(r) ==
    LET q == restartCall[r].queue
        s == restartCall[r].session
    IN  /\ RestartDue(r)
        /\ IF q = None THEN UNCHANGED <<cellVars, queue>>
           ELSE /\ CancelExecs(Cancellable(queue[q].items, TRUE))
                /\ queue' = [queue EXCEPT ![q].failed = TRUE, ![q].items = <<>>]
        /\ \/ /\ NoSession(s)
              /\ restartPromise' = None
              /\ restartCall' = [restartCall EXCEPT ![r].pc = "done"]
           \/ /\ ~NoSession(s)
              /\ restartPromise' = IF restartPromise = None THEN r ELSE restartPromise
              /\ restartCall' = [restartCall EXCEPT ![r].pc = "awaitRestart",
                       ![r].on = IF restartPromise = None THEN r ELSE restartPromise]
        /\ UNCHANGED <<docQueue, interruptCall, interruptPromise, waitingRuns,
                       sessionVars, notebookClosed>>

(* The session.restart() that call r made settles, and with it everyone    *)
(* who awaited _restartPromise.                                            *)
RestartInFlight(r) == restartCall[r].pc = "awaitRestart" /\ restartCall[r].on = r

RestartSettles(r, pc) ==
    /\ NoMicrotaskDue
    /\ RestartInFlight(r)
    /\ DoomRequests(RunsOn(restartCall[r].session))
    /\ restartPromise' = None
    /\ restartCall' = [t \in Restarts |->
          IF restartCall[t].pc = "awaitRestart" /\ restartCall[t].on = r
          THEN [restartCall[t] EXCEPT !.pc = pc] ELSE restartCall[t]]
    /\ UNCHANGED <<queueVars, interruptCall, interruptPromise, session, notebookClosed>>

(* There is a new kernel and the old one is shut down.                     *)
RestartSucceeds(r) ==
    LET s == restartCall[r].session
    IN  /\ RestartSettles(r, "done")
        /\ kernelStatus[s] # "disposed"
        /\ kernelStatus' = [kernelStatus EXCEPT ![s] = "ok"]
        /\ waitingRuns' = {IF w.on = r THEN [w EXCEPT !.state = "go"] ELSE w :
                              w \in waitingRuns}
        /\ UNCHANGED sessionPromise

\* Faulty variant: the waiting calls are not told.
RestartFailsSilently(r) ==
    /\ RestartSettles(r, "failed")
    /\ kernelStatus' = [kernelStatus EXCEPT ![restartCall[r].session] = "disposed"]
    /\ sessionPromise' = None
    /\ UNCHANGED waitingRuns

(* BaseKernel disposes the session; the waiting executeCell() calls reject.*)
RestartFails(r) ==
    /\ RestartSettles(r, "failed")
    /\ kernelStatus' = [kernelStatus EXCEPT ![restartCall[r].session] = "disposed"]
    /\ sessionPromise' = None
    /\ waitingRuns' = {w \in waitingRuns : w.on # r}

-----------------------------------------------------------------------------
(* A cell is deleted.                                                      *)
CloseCell(c) ==
    /\ NoMicrotaskDue
    /\ c \notin closedCells
    /\ CloseAndCancel({c}, {})
    /\ UNCHANGED <<queueVars, callVars, sessionVars, notebookClosed>>

(* The notebook is closed: its text documents first, then the handler of   *)
(* every queue that is not both failed and empty cancels it by force.      *)
CloseNotebook ==
    LET Q == {q \in Queues : ~queue[q].failed \/ queue[q].items # <<>>}
        C == UNION {Cancellable(queue[q].items, TRUE) : q \in Q}
    IN  /\ NoMicrotaskDue
        /\ ~notebookClosed
        /\ notebookClosed' = TRUE
        /\ CloseAndCancel(Cells, C)
        /\ queue' = [q \in Execs |->
              IF q \in Q THEN [queue[q] EXCEPT !.failed = TRUE, !.items = <<>>]
              ELSE queue[q]]
        /\ UNCHANGED <<docQueue, callVars, sessionVars>>

-----------------------------------------------------------------------------
Microtask ==
    \/ \E q \in Execs :
          \/ LoopSessionSettled(q) \/ LoopNext(q)
          \/ LoopStartRejects(q) \/ LoopResultSettled(q)
    \/ \E i \in Interrupts :
          \/ InterruptSessionSettled(i) \/ InterruptCellsSettled(i)
          \/ InterruptSucceeds(i) \/ InterruptShared(i)
    \/ \E r \in Restarts : RestartSessionSettled(r)
    \/ \E w \in waitingRuns : ResumeExecuteCell(w)

Task ==
    \/ \E c \in Cells : ExecuteCell(c) \/ CloseCell(c)
    \/ \E e \in Execs : ClearOutputDone(e) \/ KernelReplies(e) \/ RequestRejected(e)
    \/ \E s \in Sessions :
          \/ StartKernel(s) \/ SessionStarted(s) \/ SessionFailed(s)
          \/ KernelDies(s) \/ SessionDisposed(s)
    \/ \E i \in Interrupts : Interrupt(i) \/ InterruptGivesUp(i)
    \/ \E r \in Restarts : Restart(r) \/ RestartSucceeds(r) \/ RestartFails(r)
    \/ CloseNotebook

Next == Microtask \/ Task

Spec == Init /\ [][Next]_vars

(* The event loop runs every microtask; VS Code answers; sessions and      *)
(* restarts settle; the interrupt timer fires; and a request that the      *)
(* kernel connection has given up on is rejected.                          *)
HostFairness ==
    /\ WF_vars(Microtask)
    /\ \A e \in Execs :
          /\ WF_vars(ClearOutputDone(e))
          /\ WF_vars(exec[e].run = "doomed" /\ RequestRejected(e))
    /\ \A s \in Sessions : WF_vars(SessionStarted(s) \/ SessionFailed(s))
    /\ \A r \in Restarts : WF_vars(RestartSucceeds(r) \/ RestartFails(r))
    /\ \A i \in Interrupts : WF_vars(InterruptGivesUp(i))

(* In addition the code of every cell ends by itself.                      *)
CellsTerminate ==
    \A e \in Execs : WF_vars(KernelReplies(e) \/ RequestRejected(e))

FairSpec == Spec /\ HostFairness

-----------------------------------------------------------------------------
(* Properties.                                                             *)

(* A queue never has two cells under way: the next cell of a queue waits   *)
(* for the result of the one before.                                       *)
OneRunPerQueue ==
    \A e, f \in Born :
        (/\ exec[e].queue = exec[f].queue
         /\ Unresolved(e) /\ exec[e].started
         /\ Unresolved(f) /\ exec[f].started) => e = f

(* What makes it so, and what the order of the runs rests on.  A run       *)
(* belongs to the queue that lists it, and that queue exists.              *)
RunsBelongToQueues ==
    /\ \A e \in Execs : exec[e].started => e \in Born
    /\ \A e \in Execs : exec[e].run # "none" => exec[e].started
    /\ \A e \in Born : exec[e].queue \in Born /\ queue[exec[e].queue].loop # "none"
    /\ \A q \in Execs : \A e \in Items(q) : e \in Born /\ exec[e].queue = q
    /\ docQueue \in 0..nExecs

(* A started run without a result is the current cell of its queue: the    *)
(* loop does not go on without it.                                         *)
Waiting(q) == queue[q].loop \in {"none", "awaitSession", "next"}
StartedRunIsCurrent ==
    \A e \in Born :
        /\ (Unresolved(e) /\ exec[e].started) =>
              queue[exec[e].queue].cell = e /\ ~Waiting(exec[e].queue)
        /\ exec[e].run = "clearing" =>
              queue[exec[e].queue].cell = e /\ queue[exec[e].queue].loop = "awaitStart"

(* A queue that has not failed lists its unfinished runs, oldest first;    *)
(* only the first can have been started, and then it is the current cell.  *)
QueueIsInOrder(q) ==
    LET s == queue[q].items
    IN  /\ \A i, j \in DOMAIN s : i < j => s[i] < s[j]
        /\ \A e \in Born : (Unresolved(e) /\ exec[e].queue = q) => e \in Items(q)
        /\ \A e \in Items(q) :
              (Waiting(q) \/ e # queue[q].cell) => ~exec[e].started /\ exec[e].result = "pending"
        /\ queue[q].loop \in {"awaitStart", "awaitResult"} =>
              s # <<>> /\ Head(s) = queue[q].cell
HealthyQueuesAreInOrder == \A q \in Execs : queue[q].failed \/ QueueIsInOrder(q)

(* interrupt() empties only the list of a queue that has failed.           *)
InterruptedQueuesFailed ==
    \A i \in Interrupts :
        /\ interruptCall[i].queue \in 0..nExecs
        /\ interruptCall[i].cancelPending =>
              /\ interruptCall[i].pc # "idle"
              /\ interruptCall[i].queue \in Born /\ queue[interruptCall[i].queue].failed

(* The loop goes on only while its kernel is alive.                        *)
LoopSeesLiveKernel ==
    \A q \in Execs :
        /\ queue[q].loop # "none" => queue[q].session # None
        /\ queue[q].loop = "awaitSession" => queue[q].cell = None
        /\ (queue[q].loop = "next" /\ queue[q].cell # None) =>
              kernelStatus[queue[q].session] = "ok"

QueueInv == /\ RunsBelongToQueues /\ StartedRunIsCurrent /\ HealthyQueuesAreInOrder
            /\ InterruptedQueuesFailed /\ LoopSeesLiveKernel

(* Ways to lose a run that the code does have: its execution was ended by  *)
(* another run of the cell, or it was queued on a notebook closed while    *)
(* executeCell() waited for a restart.                                     *)
ExecutionTaken(e) == exec[e].execution # None /\ wrapper[exec[e].execution] = "ended"
QueuedTooLate(e) == notebookClosed /\ exec[e].execution = None /\ ~exec[e].started

(* A run without a result is listed in its queue, the loop of that queue   *)
(* has not ended, and, once started, the loop is waiting for it and VS     *)
(* Code or the kernel still owe it an answer.                              *)
Driven(e) ==
    LET q == queue[exec[e].queue]
    IN  /\ e \in Members(q.items)
        /\ q.loop \notin {"none", "done"}
        /\ exec[e].started =>
              /\ q.cell = e /\ q.loop \in {"awaitStart", "awaitResult"}
              /\ exec[e].run \in {"clearing", "running", "doomed"}

NoRunIsLost ==
    \A e \in Born : Unresolved(e) => Driven(e) \/ ExecutionTaken(e) \/ QueuedTooLate(e)

(* VS Code shows a cell as executing exactly while a run of it has no      *)
(* result: a live execution is the one the creator knows for its cell and  *)
(* belongs to such a run.                                                  *)
LiveExecutionsAreOwned ==
    \A w \in Born : wrapper[w] \in {"created", "started"} =>
        /\ executionMap[exec[w].cell] = w
        /\ \E e \in Born : Unresolved(e) /\ exec[e].execution = w

(* interrupt() that waited for the cells itself and says Success: the     *)
(* queue it cancelled is finished for good.  No run of it is without a     *)
(* result, and none is added to it later.                                  *)
QueueFinished(q) ==
    \A e \in Born : exec[e].queue = q =>
        exec[e].result # "pending" \/ ExecutionTaken(e) \/ QueuedTooLate(e)
InterruptedQueueIsFinished ==
    \A i \in Interrupts :
        (interruptCall[i].result = "Success" /\ interruptCall[i].on \in {None, i})
            => QueueFinished(interruptCall[i].queue)

(* A cell starts only when all cells queued before it in its queue have    *)
(* their results, and never in a queue that was cancelled or has failed.   *)
StartsInOrder ==
    [][\A e \in Execs : (~exec[e].started /\ exec'[e].started) =>
          /\ \A f \in 1..(e - 1) : exec[f].queue = exec[e].queue => exec[f].result # "pending"
          /\ ~queue[exec[e].queue].failed
          /\ exec[e].result = "pending"]_vars

(* After a cell has finished on a kernel that is dead no other cell of the *)
(* queue is started.                                                       *)
DeadKernelEndsQueue ==
    [][\A e \in Execs : (~exec[e].started /\ exec'[e].started) =>
          \/ queue[exec[e].queue].cell = None
          \/ kernelStatus[queue[exec[e].queue].session] = "ok"]_vars

(* "At any given point in time, we can only have one cell actively         *)
(* running": two do only if an interrupt gave up on the queue of one, which*)
(* still waits for its cell when the next queue starts another.            *)
IsActive(e) == Unresolved(e) /\ exec[e].started

OneActiveCell ==
    \A e, f \in Born :
        IsActive(e) /\ IsActive(f) /\ e # f
        => \E g \in {e, f} : queue[exec[g].queue].failed

(* The queues implement CellJobs.  A run whose start() threw never began.  *)
Phase(e) ==
    IF e \notin Born THEN "absent"
    ELSE IF exec[e].result # "pending" THEN "finished"
    ELSE IF exec[e].run = "none" THEN "pending" ELSE "executing"

Jobs == INSTANCE CellJobs WITH
    Runs <- Execs,
    phase <- [e \in Execs |-> Phase(e)],
    job <- [e \in Execs |-> exec[e].queue],
    aborted <- {q \in Execs : queue[q].failed}

QueuesImplementJobs == Jobs!Spec

(* Every run gets its result, provided that the code of the cells ends; a  *)
(* run queued on a closed notebook is the exception the code makes.        *)
RunsComplete ==
    CellsTerminate =>
        \A e \in Execs :
            Unresolved(e) ~> (exec[e].result # "pending" \/ QueuedTooLate(e))

(* A restart ends the runs whose code the kernel has, even if their code   *)
(* would never end.                                                        *)
RestartEndsRuns ==
    \A r \in Restarts, e \in Execs :
        (/\ RestartInFlight(r) /\ exec[e].run = "running" /\ Unresolved(e)
         /\ queue[exec[e].queue].session = restartCall[r].session)
            ~> exec[e].result # "pending"

(* Calls return: an executeCell() that a restart holds up goes on or is    *)
(* rejected, and interrupt() returns even if the kernel never answers.     *)
WaitingRunsResume ==
    \A c \in Cells : (\E w \in waitingRuns : w.cell = c /\ w.state = "blocked")
                        ~> (\A w \in waitingRuns : w.cell = c => w.state # "blocked")

InterruptsReturn ==
    \A i \in Interrupts : interruptCall[i].pc = "race" ~> interruptCall[i].pc = "done"

CallsReturn == WaitingRunsResume /\ InterruptsReturn
=============================================================================
