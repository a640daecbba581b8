---------------------------- MODULE CellExecution ----------------------------
(***************************************************************************)
(* One run of a notebook cell (kernels/execution/cellExecution.ts) and the *)
(* VS Code execution object behind it (cellExecutionCreator.ts).  A run is *)
(* named by the order of its creation; the wrapper around a VS Code        *)
(* execution is named after the run whose constructor made it.  Runs of    *)
(* one cell may share a wrapper, because the creator keeps one per cell    *)
(* until it ends.                                                          *)
(***************************************************************************)
EXTENDS Integers, Sequences, FiniteSets

CONSTANTS
    Cells,        \* the code cells of one notebook
    EmptyCells,   \* those without text: nothing is sent for them
    MaxExecs      \* bound: how many runs are created

None == 0         \* no run, no wrapper, no queue, no session
Execs == 1..MaxExecs

ASSUME CellsAssumption ==
    /\ EmptyCells \subseteq Cells
    /\ MaxExecs \in Nat \ {0}

VARIABLES
    nExecs,         \* runs created so far
    exec,           \* the CellExecution objects
    wrapper,        \* state of the NotebookCellExecution of each wrapper
    executionMap,   \* CellExecutionCreator._map
    active,         \* activeNotebookCellExecution of the notebook
    closedCells     \* cells whose text document is closed

cellVars == <<nExecs, exec, wrapper, executionMap, active, closedCells>>

Results == {"pending", "Idle", "Success", "Error", "undefined"}
RunStates == {"none", "clearing", "running", "doomed", "settled"}

CellExecutionRec ==
    [cell : Cells \cup {None}, queue : 0..MaxExecs,
     started : BOOLEAN, completed : BOOLEAN, cancelHandled : BOOLEAN,
     execution : 0..MaxExecs, result : Results, run : RunStates]

CellTypeOK ==
    /\ nExecs \in 0..MaxExecs
    /\ exec \in [Execs -> CellExecutionRec]
    /\ wrapper \in [Execs -> {"none", "created", "started", "ended"}]
    /\ executionMap \in [Cells -> 0..MaxExecs]
    /\ active \in 0..MaxExecs
    /\ closedCells \subseteq Cells

Unborn ==
    [cell |-> None, queue |-> None, started |-> FALSE, completed |-> FALSE,
     cancelHandled |-> FALSE, execution |-> None, result |-> "pending",
     run |-> "none"]

CellInit ==
    /\ nExecs = 0
    /\ exec = [e \in Execs |-> Unborn]
    /\ wrapper = [e \in Execs |-> "none"]
    /\ executionMap = [c \in Cells |-> None]
    /\ active = None
    /\ closedCells = {}

Born == 1..nExecs
Unresolved(e) == e \in Born /\ exec[e].result = "pending"

\* The _result deferred keeps the first value it is resolved with.
Resolve(e, r) == IF exec[e].result = "pending" THEN r ELSE exec[e].result

-----------------------------------------------------------------------------
(* The constructor.  A cell whose document is already closed gets no       *)
(* execution; what the creator still holds for it is ended instead.        *)
Create(c, q) ==
    LET e == nExecs + 1
        canExecute == c \notin closedCells
        old == executionMap[c]
        w == IF ~canExecute THEN None ELSE IF old # None THEN old ELSE e
    IN  /\ nExecs' = e
        /\ exec' = [exec EXCEPT ![e] =
                      [Unborn EXCEPT !.cell = c, !.queue = q, !.execution = w]]
        /\ wrapper' = [x \in Execs |->
                         IF x = w /\ old = None THEN "created"
                         ELSE IF x = old /\ ~canExecute THEN "ended"
                         ELSE wrapper[x]]
        /\ executionMap' = [executionMap EXCEPT ![c] = w]
        /\ UNCHANGED <<active, closedCells>>

(* endCellTask for the runs S: end() runs its callback once, which takes   *)
(* the wrapper out of the map.                                             *)
ExecutionsOf(S) == {exec[e].execution : e \in S} \ {None}
EndExecutions(S) ==
    /\ wrapper' = [x \in Execs |->
            IF x \in ExecutionsOf(S) THEN "ended" ELSE wrapper[x]]
    /\ executionMap' = [c \in Cells |->
            IF executionMap[c] \in ExecutionsOf(S) THEN None ELSE executionMap[c]]
EndCellTasks(S) ==
    /\ EndExecutions(S)
    /\ active' = IF active \in ExecutionsOf(S) THEN None ELSE active

-----------------------------------------------------------------------------
(* start(): everything up to the await of clearOutput().                   *)
StartBegins(e) ==
    /\ exec' = [exec EXCEPT ![e].started = TRUE, ![e].run = "clearing"]
    /\ active' = exec[e].execution
    /\ wrapper' = [wrapper EXCEPT ![exec[e].execution] = "started"]
    /\ UNCHANGED <<nExecs, executionMap, closedCells>>

\* Faulty variant: the execution of such a cell is never ended.
StartNotExecutableLeak(e) ==
    /\ exec' = [exec EXCEPT ![e].execution = None,
                            ![e].result = Resolve(e, "undefined")]
    /\ UNCHANGED <<nExecs, wrapper, executionMap, active, closedCells>>

(* start() of a cell that can no longer be executed.                       *)
StartNotExecutable(e) ==
    /\ exec' = [exec EXCEPT ![e].execution = None,
                            ![e].result = Resolve(e, "undefined")]
    /\ EndExecutions({e})
    /\ UNCHANGED <<nExecs, active, closedCells>>

(* executeCodeCell() hands the code to the session.                        *)
SendRequest(e) ==
    /\ exec' = [exec EXCEPT ![e].run = "running"]
    /\ UNCHANGED <<nExecs, wrapper, executionMap, active, closedCells>>

CompletedSuccessfully(e, hasErrorOutput) ==
    LET runState == IF hasErrorOutput THEN "Error"
                    ELSE IF exec[e].cell \in EmptyCells THEN "Idle" ELSE "Success"
    IN  /\ exec' = [exec EXCEPT ![e].completed = TRUE, ![e].execution = None,
                                ![e].result = Resolve(e, runState),
                                ![e].run = "settled"]
        /\ EndCellTasks({e})
        /\ UNCHANGED <<nExecs, closedCells>>

(* completedWithErrors() appends the error to the cell first.  On an ended *)
(* execution that throws, and the run is left without a result.            *)
CompletedWithErrors(e) ==
    LET w == exec[e].execution
        appendThrows == w # None /\ wrapper[w] = "ended"
    IN  /\ UNCHANGED <<nExecs, closedCells>>
        /\ \/ /\ appendThrows
              /\ exec' = [exec EXCEPT ![e].run = "settled"]
              /\ UNCHANGED <<wrapper, executionMap, active>>
           \/ /\ ~appendThrows
              /\ exec' = [exec EXCEPT ![e].completed = TRUE, ![e].execution = None,
                                      ![e].result = Resolve(e, "Error"),
                                      ![e].run = "settled"]
              /\ EndCellTasks({e})

(* cancel() for the runs S it really cancels.                              *)
CancelExecs(S) ==
    /\ exec' = [e \in Execs |->
          IF e \in S THEN [exec[e] EXCEPT !.cancelHandled = TRUE, !.completed = TRUE,
                                          !.execution = None,
                                          !.result = Resolve(e, "Idle")]
          ELSE exec[e]]
    /\ EndCellTasks(S)
    /\ UNCHANGED <<nExecs, closedCells>>

\* Faulty variants: a forced cancel spares the running cell; cancel() does not
\* wait for the cell that is running.
CancellableUnforced(s, forced) ==
    {e \in {s[i] : i \in DOMAIN s} :
        ~exec[e].cancelHandled /\ ~exec[e].completed /\ ~exec[e].started}
AwaitedByNoOne(s) == {}

(* Which runs of the list s a cancel() cancels, and which it waits for.    *)
Members(s) == {s[i] : i \in DOMAIN s}
Cancellable(s, forced) ==
    {e \in Members(s) : /\ ~exec[e].cancelHandled
                        /\ ~exec[e].completed
                        /\ forced \/ ~exec[e].started}
AwaitedByCancel(s) ==
    {e \in Members(s) : exec[e].started /\ ~exec[e].cancelHandled}

(* The runs that react to the text documents of the cells D being closed:  *)
(* dispose() has not removed their listener and they are under way.        *)
StoppedByClosing(D) ==
    {e \in Born : /\ exec[e].cell \in D
                  /\ ~exec[e].cancelHandled /\ exec[e].run # "settled"
                  /\ exec[e].started /\ ~exec[e].completed}

(* onDidCloseTextDocument for the cells D, followed by a forced cancel of  *)
(* the runs C.  A request that was sent is disposed, which rejects it.     *)
CloseAndCancel(D, C) ==
    LET S == StoppedByClosing(D)
        Disposed(e) == /\ e \in Born /\ exec[e].cell \in D
                       /\ ~exec[e].cancelHandled /\ exec[e].run = "running"
    IN  /\ exec' = [e \in Execs |->
              IF e \in S \cup C
              THEN [exec[e] EXCEPT !.completed = TRUE, !.execution = None,
                                   !.result = Resolve(e, "Idle"),
                                   !.cancelHandled = @ \/ e \in C \ S,
                                   !.run = IF Disposed(e) THEN "doomed" ELSE @]
              ELSE IF Disposed(e) THEN [exec[e] EXCEPT !.run = "doomed"]
              ELSE exec[e]]
        /\ EndCellTasks(S \cup C)
        /\ closedCells' = closedCells \cup D
        /\ UNCHANGED nExecs

\* Faulty variant: the requests are left hanging.
DoomNoRequest(S) ==
    UNCHANGED <<exec, nExecs, wrapper, executionMap, active, closedCells>>

(* The kernel is gone: JupyterLab rejects the requests of the runs S.      *)
DoomRequests(S) ==
    /\ exec' = [e \in Execs |->
          IF e \in S /\ exec[e].run = "running"
          THEN [exec[e] EXCEPT !.run = "doomed"] ELSE exec[e]]
    /\ UNCHANGED <<nExecs, wrapper, executionMap, active, closedCells>>
=============================================================================
