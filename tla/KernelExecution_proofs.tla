------------------------ MODULE KernelExecution_proofs ------------------------
(***************************************************************************)
(* Proofs about KernelExecution, for every set of cells and every bound on *)
(* runs, sessions, interrupts and restarts.                                *)
(***************************************************************************)
EXTENDS KernelExecution, FiniteSetTheorems, SequenceTheorems, TLAPS

USE CellsAssumption, BoundsAssumption

-----------------------------------------------------------------------------
(* Type correctness of every operation of CellExecution on the runs of     *)
(* cells.                                                                  *)

(* The values the fields of a run take.                                    *)
LEMMA FieldValues ==
    /\ "pending" \in Results /\ "Idle" \in Results /\ "Success" \in Results
    /\ "Error" \in Results /\ "undefined" \in Results
    /\ "none" \in RunStates /\ "clearing" \in RunStates /\ "running" \in RunStates
    /\ "doomed" \in RunStates /\ "settled" \in RunStates
    /\ None \in 0..MaxExecs
    /\ \A e \in Execs : e \in 0..MaxExecs
  BY DEF Results, RunStates, None, Execs

(* The shape of a run, one field at a time.                                *)
LEMMA RunFields ==
    ASSUME CellTypeOK, NEW e \in Execs
    PROVE  /\ exec[e].cell \in Cells \cup {None} /\ exec[e].queue \in 0..MaxExecs
           /\ exec[e].started \in BOOLEAN /\ exec[e].completed \in BOOLEAN
           /\ exec[e].cancelHandled \in BOOLEAN
           /\ exec[e].execution \in 0..MaxExecs
           /\ exec[e].result \in Results /\ exec[e].run \in RunStates
  BY DEF CellTypeOK, CellExecutionRec

(* What is resolved with one of the results holds a result.                *)
LEMMA ResolveTypes ==
    ASSUME CellTypeOK, NEW e \in Execs, NEW r \in Results
    PROVE  Resolve(e, r) \in Results
  BY RunFields DEF Resolve

LEMMA RunType ==
    ASSUME CellTypeOK, NEW e \in Execs
    PROVE  exec[e] \in CellExecutionRec
  BY DEF CellTypeOK

(* Changes to the fields of one run keep it a run.                         *)
LEMMA RunChanges ==
    ASSUME NEW r \in CellExecutionRec, NEW b1 \in BOOLEAN, NEW b2 \in BOOLEAN,
           NEW w \in 0..MaxExecs, NEW v \in Results, NEW x \in RunStates
    PROVE  /\ [r EXCEPT !.cancelHandled = b1, !.completed = b2, !.execution = w,
                        !.result = v] \in CellExecutionRec
           /\ [r EXCEPT !.completed = b1, !.execution = w, !.result = v,
                        !.run = x] \in CellExecutionRec
           /\ [r EXCEPT !.completed = b1, !.execution = w, !.result = v,
                        !.cancelHandled = b2, !.run = x] \in CellExecutionRec
           /\ [r EXCEPT !.execution = w, !.result = v] \in CellExecutionRec
           /\ [r EXCEPT !.started = b1, !.run = x] \in CellExecutionRec
           /\ [r EXCEPT !.started = b1] \in CellExecutionRec
           /\ [r EXCEPT !.run = x] \in CellExecutionRec
  BY DEF CellExecutionRec

LEMMA EndTypes ==
    ASSUME CellTypeOK, NEW S, EndExecutions(S)
    PROVE  /\ wrapper' \in [Execs -> {"none", "created", "started", "ended"}]
           /\ executionMap' \in [Cells -> 0..MaxExecs]
  BY DEF EndExecutions, CellTypeOK, None

LEMMA EndTaskTypes ==
    ASSUME CellTypeOK, NEW S, EndCellTasks(S)
    PROVE  /\ wrapper' \in [Execs -> {"none", "created", "started", "ended"}]
           /\ executionMap' \in [Cells -> 0..MaxExecs]
           /\ active' \in 0..MaxExecs
  BY EndTypes DEF EndCellTasks, CellTypeOK, None

LEMMA CreateTypes ==
    ASSUME CellTypeOK, NEW c \in Cells, NEW q \in Execs, nExecs + 1 \in Execs,
           Create(c, q)
    PROVE  CellTypeOK'
<1> DEFINE w == IF c \in closedCells THEN None
                ELSE IF executionMap[c] # None THEN executionMap[c] ELSE nExecs + 1
<1>1. w \in 0..MaxExecs /\ nExecs + 1 \in 0..MaxExecs
  BY DEF CellTypeOK, Execs, None
<1>2. exec' = [exec EXCEPT ![nExecs + 1] =
                  [Unborn EXCEPT !.cell = c, !.queue = q, !.execution = w]]
  BY DEF Create
<1>3. [Unborn EXCEPT !.cell = c, !.queue = q, !.execution = w] \in CellExecutionRec
  <2> HIDE DEF w
  <2> QED BY <1>1, FieldValues DEF Unborn, CellExecutionRec
<1>4. exec' \in [Execs -> CellExecutionRec]
  <2> HIDE DEF w
  <2> QED BY <1>2, <1>3 DEF CellTypeOK
<1>5. executionMap' \in [Cells -> 0..MaxExecs]
  BY <1>1 DEF Create, CellTypeOK
<1>6. wrapper' \in [Execs -> {"none", "created", "started", "ended"}]
  BY DEF Create, CellTypeOK
<1>7. QED
  BY <1>1, <1>4, <1>5, <1>6 DEF Create, CellTypeOK

LEMMA CancelTypes ==
    ASSUME CellTypeOK, NEW S, CancelExecs(S)
    PROVE  CellTypeOK'
<1>1. ASSUME NEW e \in Execs
      PROVE  [exec[e] EXCEPT !.cancelHandled = TRUE, !.completed = TRUE,
                !.execution = None, !.result = Resolve(e, "Idle")] \in CellExecutionRec
  <2>1. Resolve(e, "Idle") \in Results
    BY ResolveTypes, FieldValues
  <2>2. QED
    BY <2>1, RunType, RunChanges, FieldValues
<1>2. exec' \in [Execs -> CellExecutionRec]
  BY <1>1, RunType DEF CancelExecs
<1>3. QED
  BY <1>2, EndTaskTypes DEF CancelExecs, CellTypeOK

LEMMA StartTypes ==
    ASSUME CellTypeOK, NEW e \in Execs, StartBegins(e) \/ StartNotExecutable(e)
    PROVE  CellTypeOK'
<1>1. CASE StartBegins(e)
  <2>1. exec' = [exec EXCEPT ![e] = [exec[e] EXCEPT !.started = TRUE, !.run = "clearing"]]
    BY <1>1 DEF StartBegins
  <2>2. exec' \in [Execs -> CellExecutionRec]
    BY <2>1, RunType, RunChanges, FieldValues DEF CellTypeOK
  <2>3. QED
    BY <1>1, <2>2, RunFields DEF StartBegins, CellTypeOK
<1>2. CASE StartNotExecutable(e)
  <2>1. Resolve(e, "undefined") \in Results
    BY ResolveTypes, FieldValues
  <2>2. exec' = [exec EXCEPT ![e] = [exec[e] EXCEPT !.execution = None,
                                        !.result = Resolve(e, "undefined")]]
    BY <1>2 DEF StartNotExecutable
  <2>3. exec' \in [Execs -> CellExecutionRec]
    BY <2>1, <2>2, RunType, RunChanges, FieldValues DEF CellTypeOK
  <2>4. QED
    BY <1>2, <2>3, EndTypes DEF StartNotExecutable, CellTypeOK
<1>3. QED
  BY <1>1, <1>2

LEMMA CompletedTypes ==
    ASSUME CellTypeOK, NEW e \in Execs,
           \/ \E hasErrorOutput \in BOOLEAN : CompletedSuccessfully(e, hasErrorOutput)
           \/ CompletedWithErrors(e)
           \/ SendRequest(e)
    PROVE  CellTypeOK'
<1>1. ASSUME NEW r \in Results,
             exec' = [exec EXCEPT ![e].completed = TRUE, ![e].execution = None,
                                  ![e].result = Resolve(e, r), ![e].run = "settled"]
      PROVE  exec' \in [Execs -> CellExecutionRec]
  <2> DEFINE run == [exec[e] EXCEPT !.completed = TRUE, !.execution = None,
                        !.result = Resolve(e, r), !.run = "settled"]
  <2>1. Resolve(e, r) \in Results
    BY ResolveTypes
  <2>2. exec' = [exec EXCEPT ![e] = run]
    BY <1>1
  <2>3. run \in CellExecutionRec
    BY <2>1, RunType, RunChanges, FieldValues
  <2> HIDE DEF run
  <2>4. QED
    BY <2>2, <2>3 DEF CellTypeOK
<1>2. ASSUME NEW x \in RunStates, exec' = [exec EXCEPT ![e].run = x]
      PROVE  exec' \in [Execs -> CellExecutionRec]
  <2>1. exec' = [exec EXCEPT ![e] = [exec[e] EXCEPT !.run = x]]
    BY <1>2
  <2>2. QED
    BY <2>1, RunType, RunChanges, FieldValues DEF CellTypeOK
<1>3. CASE \E hasErrorOutput \in BOOLEAN : CompletedSuccessfully(e, hasErrorOutput)
  BY <1>3, <1>1, EndTaskTypes, FieldValues DEF CompletedSuccessfully, CellTypeOK
<1>4. CASE CompletedWithErrors(e)
  BY <1>4, <1>1, <1>2, EndTaskTypes, FieldValues DEF CompletedWithErrors, CellTypeOK
<1>5. CASE SendRequest(e)
  BY <1>5, <1>2, FieldValues DEF SendRequest, CellTypeOK
<1>6. QED
  BY <1>3, <1>4, <1>5

LEMMA CloseTypes ==
    ASSUME CellTypeOK, NEW D \in SUBSET Cells, NEW C, CloseAndCancel(D, C)
    PROVE  CellTypeOK'
<1> DEFINE Doomed(e) == /\ e \in Born /\ exec[e].cell \in D
                        /\ ~exec[e].cancelHandled /\ exec[e].run = "running"
           Run(e) == IF Doomed(e) THEN "doomed" ELSE exec[e].run
           Handled(e) == exec[e].cancelHandled \/ e \in C \ StoppedByClosing(D)
<1>1. ASSUME NEW e \in Execs
      PROVE  /\ [exec[e] EXCEPT !.completed = TRUE, !.execution = None,
                    !.result = Resolve(e, "Idle"), !.cancelHandled = Handled(e),
                    !.run = Run(e)] \in CellExecutionRec
             /\ [exec[e] EXCEPT !.run = "doomed"] \in CellExecutionRec
  <2>1. Resolve(e, "Idle") \in Results /\ Run(e) \in RunStates /\ Handled(e) \in BOOLEAN
    BY ResolveTypes, FieldValues, RunFields
  <2> HIDE DEF Run, Handled
  <2>2. QED
    BY <2>1, RunType, RunChanges, FieldValues
<1>2. exec' = [e \in Execs |->
         IF e \in StoppedByClosing(D) \cup C
         THEN [exec[e] EXCEPT !.completed = TRUE, !.execution = None,
                  !.result = Resolve(e, "Idle"), !.cancelHandled = Handled(e),
                  !.run = Run(e)]
         ELSE IF Doomed(e) THEN [exec[e] EXCEPT !.run = "doomed"] ELSE exec[e]]
  BY DEF CloseAndCancel
<1>3. exec' \in [Execs -> CellExecutionRec]
  <2> HIDE DEF Run, Handled, Doomed
  <2> QED BY <1>1, <1>2, RunType
<1>4. QED
  BY <1>3, EndTaskTypes DEF CloseAndCancel, CellTypeOK

LEMMA DoomTypes ==
    ASSUME CellTypeOK, NEW S, DoomRequests(S)
    PROVE  CellTypeOK'
<1>1. \A e \in Execs : [exec[e] EXCEPT !.run = "doomed"] \in CellExecutionRec
  BY RunType, RunChanges, FieldValues
<1>2. exec' \in [Execs -> CellExecutionRec]
  BY <1>1, RunType DEF DoomRequests
<1>3. QED
  BY <1>2 DEF DoomRequests, CellTypeOK

-----------------------------------------------------------------------------
(* Types.  Besides TypeOK the proof needs that runs held up by a restart   *)
(* still fit the bound, and that a call of interrupt() under way has a     *)
(* queue and, when it shares the promise of another call, that call.       *)
WaitingRunsFit ==
    /\ IsFiniteSet(waitingRuns)
    /\ nExecs + Cardinality(waitingRuns) <= MaxExecs

InterruptsHaveQueue ==
    \A i \in Interrupts :
        /\ interruptCall[i].pc # "idle" => interruptCall[i].queue # None
        /\ interruptCall[i].pc = "shared" => interruptCall[i].on # None

TypeInv == TypeOK /\ WaitingRunsFit /\ InterruptsHaveQueue

(* Changes to the fields of a queue keep it a queue.                       *)
LEMMA QueueChanges ==
    ASSUME NEW r \in QueueRec, NEW s \in Seq(Execs), NEW f \in BOOLEAN,
           NEW l \in LoopStates, NEW x \in 0..MaxExecs
    PROVE  /\ [r EXCEPT !.loop = l] \in QueueRec
           /\ [r EXCEPT !.items = s] \in QueueRec
           /\ [r EXCEPT !.failed = f] \in QueueRec
           /\ [r EXCEPT !.failed = f, !.items = s] \in QueueRec
           /\ [r EXCEPT !.items = s, !.loop = l] \in QueueRec
           /\ [r EXCEPT !.loop = l, !.cell = x] \in QueueRec
           /\ [r EXCEPT !.failed = f, !.items = s, !.loop = l] \in QueueRec
           /\ [r EXCEPT !.failed = f, !.items = s, !.loop = l, !.cell = x] \in QueueRec
  BY DEF QueueRec

LEMMA LoopStateValues ==
    /\ "none" \in LoopStates /\ "awaitSession" \in LoopStates /\ "next" \in LoopStates
    /\ "awaitStart" \in LoopStates /\ "awaitResult" \in LoopStates
    /\ "done" \in LoopStates /\ <<>> \in Seq(Execs)
  BY DEF LoopStates

(* The list of a queue holds runs, and so does what is left of it.         *)
LEMMA QueueFields ==
    ASSUME TypeOK, NEW q \in Execs
    PROVE  /\ queue[q] \in QueueRec
           /\ queue[q].items \in Seq(Execs)
           /\ Members(queue[q].items) \subseteq Execs
           /\ queue[q].items # <<>> =>
                 /\ Head(queue[q].items) \in Execs
                 /\ Head(queue[q].items) \in Members(queue[q].items)
                 /\ Tail(queue[q].items) \in Seq(Execs)
                 /\ Members(Tail(queue[q].items)) \subseteq Members(queue[q].items)
<1>1. queue[q] \in QueueRec
  BY DEF TypeOK
<1>2. queue[q].items \in Seq(Execs)
  BY <1>1 DEF QueueRec
<1> DEFINE s == queue[q].items
<1> HIDE DEF s
<1>3. ASSUME s \in Seq(Execs)
      PROVE  /\ Members(s) \subseteq Execs
             /\ s # <<>> => /\ Head(s) \in Execs /\ Head(s) \in Members(s)
                            /\ Tail(s) \in Seq(Execs)
                            /\ Members(Tail(s)) \subseteq Members(s)
  BY <1>3 DEF Members
<1>4. QED
  BY <1>1, <1>2, <1>3 DEF s

LEMMA QueueUpdate ==
    ASSUME TypeOK, NEW q \in Execs, NEW r \in QueueRec, queue' = [queue EXCEPT ![q] = r]
    PROVE  queue' \in [Execs -> QueueRec]
  BY DEF TypeOK

LEMMA CancelQueueTypes ==
    ASSUME TypeOK, NEW q \in Execs, NEW s, CancelQueue(q, s)
    PROVE  CellTypeOK' /\ queue' \in [Execs -> QueueRec]
<1>1. CellTypeOK'
  BY CancelTypes DEF CancelQueue, TypeOK
<1>2. queue' = [queue EXCEPT ![q] = [queue[q] EXCEPT !.failed = TRUE, !.items = <<>>,
                                                   !.loop = "done"]]
  BY DEF CancelQueue
<1>3. queue' \in [Execs -> QueueRec]
  BY <1>2, QueueFields, QueueChanges, LoopStateValues, FieldValues DEF TypeOK
<1>4. QED
  BY <1>1, <1>3

LEMMA QueueCellTypes ==
    ASSUME TypeOK, nExecs + 1 \in Execs, NEW c \in Cells, NEW s \in Sessions, QueueCell(c, s)
    PROVE  /\ CellTypeOK' /\ queue' \in [Execs -> QueueRec] /\ docQueue' \in 0..MaxExecs
           /\ nExecs' \in {nExecs, nExecs + 1}
<1>1. CASE UNCHANGED <<cellVars, queueVars>>
  BY <1>1 DEF cellVars, queueVars, TypeOK, CellTypeOK
<1>2. CASE /\ Reusable
           /\ Create(c, docQueue)
           /\ queue' = [queue EXCEPT ![docQueue].items = Append(@, nExecs + 1)]
           /\ UNCHANGED docQueue
  <2>1. docQueue \in Execs
    BY <1>2 DEF Reusable, TypeOK, Execs, None
  <2>2. CellTypeOK'
    BY <1>2, <2>1, CreateTypes DEF TypeOK
  <2>3. Append(queue[docQueue].items, nExecs + 1) \in Seq(Execs)
    BY <2>1, QueueFields
  <2>4. queue' = [queue EXCEPT ![docQueue] =
                     [queue[docQueue] EXCEPT !.items = Append(queue[docQueue].items, nExecs + 1)]]
    BY <1>2
  <2>5. queue' \in [Execs -> QueueRec]
    BY <2>1, <2>3, <2>4, QueueFields, QueueChanges, LoopStateValues, FieldValues DEF TypeOK
  <2>6. nExecs' = nExecs + 1
    BY <1>2 DEF Create
  <2>7. QED
    BY <1>2, <2>2, <2>5, <2>6 DEF TypeOK
<1>3. CASE /\ Create(c, nExecs + 1)
           /\ queue' = [queue EXCEPT ![nExecs + 1] =
                          [items |-> <<nExecs + 1>>, failed |-> FALSE,
                           loop |-> "awaitSession", cell |-> None, session |-> s]]
           /\ docQueue' = nExecs + 1
  <2>1. CellTypeOK'
    BY <1>3, CreateTypes DEF TypeOK
  <2>2. [items |-> <<nExecs + 1>>, failed |-> FALSE, loop |-> "awaitSession",
         cell |-> None, session |-> s] \in QueueRec
    <3>1. <<nExecs + 1>> \in Seq(Execs) /\ s \in 0..MaxSessions
      BY DEF Sessions
    <3>2. QED
      BY <3>1, LoopStateValues, FieldValues DEF QueueRec
  <2>3. queue' \in [Execs -> QueueRec]
    BY <1>3, <2>2 DEF TypeOK
  <2>4. nExecs' = nExecs + 1
    BY <1>3 DEF Create
  <2>5. QED
    BY <1>3, <2>1, <2>3, <2>4, FieldValues
<1>4. QED
  BY <1>1, <1>2, <1>3 DEF QueueCell

(* The actions of a loop.                                                  *)
LEMMA LoopKeepsTypes ==
    ASSUME TypeInv, NEW q \in Execs,
           \/ LoopSessionSettled(q) \/ LoopNext(q)
           \/ LoopStartRejects(q) \/ LoopResultSettled(q)
    PROVE  TypeInv'
<1> USE DEF TypeInv
<1>1. SUFFICES /\ CellTypeOK' /\ queue' \in [Execs -> QueueRec] /\ nExecs' = nExecs
               /\ UNCHANGED <<docQueue, callVars, sessionVars, notebookClosed>>
  BY DEF TypeOK, callVars, sessionVars, WaitingRunsFit, InterruptsHaveQueue
<1>2. UNCHANGED <<docQueue, callVars, sessionVars, notebookClosed>>
  BY DEF LoopSessionSettled, LoopNext, LoopStartRejects, LoopResultSettled
<1>3. \A s : CancelQueue(q, s) => nExecs' = nExecs
  BY DEF CancelQueue, CancelExecs
<1>4. UNCHANGED cellVars => CellTypeOK' /\ nExecs' = nExecs
  BY DEF cellVars, TypeOK, CellTypeOK
<1>5. CASE LoopSessionSettled(q)
  <2>1. CASE UNCHANGED cellVars /\ queue' = [queue EXCEPT ![q].loop = "next"]
    <3>1. queue' = [queue EXCEPT ![q] = [queue[q] EXCEPT !.loop = "next"]]
      BY <2>1
    <3>2. [queue[q] EXCEPT !.loop = "next"] \in QueueRec
      BY QueueFields, QueueChanges, LoopStateValues, FieldValues
    <3>3. QED
      BY <1>2, <1>4, <2>1, <3>1, <3>2, QueueUpdate
  <2>2. CASE CancelQueue(q, queue[q].items)
    BY <1>2, <1>3, <2>2, CancelQueueTypes
  <2>3. QED
    BY <1>5, <2>1, <2>2 DEF LoopSessionSettled
<1>6. CASE LoopNext(q)
  <2> DEFINE s == queue[q].items
             e == Head(s)
  <2>1. CASE s = <<>> /\ UNCHANGED cellVars /\ queue' = [queue EXCEPT ![q].loop = "done"]
    <3>1. queue' = [queue EXCEPT ![q] = [queue[q] EXCEPT !.loop = "done"]]
      BY <2>1
    <3>2. [queue[q] EXCEPT !.loop = "done"] \in QueueRec
      BY QueueFields, QueueChanges, LoopStateValues, FieldValues
    <3>3. QED
      BY <1>2, <1>4, <2>1, <3>1, <3>2, QueueUpdate
  <2>2. CASE CancelQueue(q, Tail(s))
    BY <1>2, <1>3, <2>2, CancelQueueTypes
  <2>3. ASSUME s # <<>>, NEW l \in {"awaitResult", "awaitStart"},
               queue' = [queue EXCEPT ![q].loop = l, ![q].cell = e],
               StartBegins(e) \/ StartNotExecutable(e)
        PROVE  CellTypeOK' /\ queue' \in [Execs -> QueueRec] /\ nExecs' = nExecs
    <3>1. e \in Execs /\ e \in 0..MaxExecs /\ l \in LoopStates
      BY <2>3, QueueFields, FieldValues, LoopStateValues
    <3>2. queue' = [queue EXCEPT ![q] = [queue[q] EXCEPT !.loop = l, !.cell = e]]
      BY <2>3
    <3>3. queue' \in [Execs -> QueueRec]
      <4> HIDE DEF e
      <4> QED BY <3>1, <3>2, QueueFields, QueueChanges, LoopStateValues DEF TypeOK
    <3>4. CellTypeOK'
      BY <2>3, <3>1, StartTypes DEF TypeOK
    <3>5. QED
      BY <2>3, <3>3, <3>4 DEF StartBegins, StartNotExecutable
  <2>4. QED
    BY <1>2, <1>6, <2>1, <2>2, <2>3 DEF LoopNext
<1>7. CASE LoopStartRejects(q)
  <2> DEFINE s == queue[q].items
             e == Head(s)
             S == Cancellable(Tail(s), FALSE)
  <2>1. e \in Execs /\ e \in 0..MaxExecs
    BY <1>7, QueueFields, FieldValues DEF LoopStartRejects
  <2>2. ASSUME NEW x \in Execs PROVE exec'[x] \in CellExecutionRec
    <3>1. Resolve(x, "Idle") \in Results
      BY ResolveTypes, FieldValues DEF TypeOK
    <3>2. /\ [exec[x] EXCEPT !.started = TRUE] \in CellExecutionRec
          /\ [exec[x] EXCEPT !.cancelHandled = TRUE, !.completed = TRUE,
                 !.execution = None, !.result = Resolve(x, "Idle")] \in CellExecutionRec
      BY <3>1, RunType, RunChanges, FieldValues DEF TypeOK
    <3>3. exec'[x] = IF x = e THEN [exec[x] EXCEPT !.started = TRUE]
                     ELSE IF x \in S
                     THEN [exec[x] EXCEPT !.cancelHandled = TRUE, !.completed = TRUE,
                              !.execution = None, !.result = Resolve(x, "Idle")]
                     ELSE exec[x]
      BY <1>7 DEF LoopStartRejects
    <3> HIDE DEF e, S
    <3>4. QED
      BY <3>2, <3>3, RunType DEF TypeOK
  <2>3. exec' \in [Execs -> CellExecutionRec]
    <3>1. exec' = [x \in Execs |-> exec'[x]]
      BY <1>7 DEF LoopStartRejects
    <3>2. QED
      BY <3>1, <2>2
  <2>4. EndExecutions(S) /\ active' \in 0..MaxExecs /\ UNCHANGED <<nExecs, closedCells>>
    BY <1>7, <2>1, RunFields, FieldValues DEF LoopStartRejects, TypeOK
  <2>5. CellTypeOK'
    BY <2>3, <2>4, EndTypes DEF TypeOK, CellTypeOK
  <2>6. queue' = [queue EXCEPT ![q] = [queue[q] EXCEPT !.failed = TRUE, !.items = <<>>,
                                                      !.loop = "done", !.cell = e]]
    BY <1>7 DEF LoopStartRejects
  <2>7. queue' \in [Execs -> QueueRec]
    <3> HIDE DEF e
    <3> QED BY <2>1, <2>6, QueueFields, QueueChanges, LoopStateValues DEF TypeOK
  <2>8. QED
    BY <1>2, <2>4, <2>5, <2>7
<1>8. CASE LoopResultSettled(q)
  <2> DEFINE s == queue[q].items
             rest == IF s # <<>> /\ Head(s) = queue[q].cell THEN Tail(s) ELSE s
  <2>1. rest \in Seq(Execs)
    BY QueueFields
  <2>2. CASE CancelQueue(q, rest)
    BY <1>2, <1>3, <2>2, CancelQueueTypes
  <2>3. CASE UNCHANGED cellVars /\ queue' = [queue EXCEPT ![q].items = rest, ![q].loop = "next"]
    <3>1. queue' = [queue EXCEPT ![q] = [queue[q] EXCEPT !.items = rest, !.loop = "next"]]
      BY <2>3
    <3> HIDE DEF rest
    <3>2. [queue[q] EXCEPT !.items = rest, !.loop = "next"] \in QueueRec
      BY <2>1, QueueFields, QueueChanges, LoopStateValues, FieldValues
    <3>3. QED
      BY <1>2, <1>4, <2>3, <3>1, <3>2, QueueUpdate
  <2>4. QED
    BY <1>8, <2>2, <2>3 DEF LoopResultSettled
<1>9. QED
  BY <1>5, <1>6, <1>7, <1>8

(* The answers of VS Code and of the kernel to one run.                    *)
LEMMA AnswersKeepTypes ==
    ASSUME TypeInv, NEW e \in Execs,
           ClearOutputDone(e) \/ KernelReplies(e) \/ RequestRejected(e)
    PROVE  TypeInv'
<1> USE DEF TypeInv
<1>1. SUFFICES /\ CellTypeOK' /\ queue' \in [Execs -> QueueRec] /\ nExecs' = nExecs
               /\ UNCHANGED <<docQueue, callVars, sessionVars, notebookClosed>>
  BY DEF TypeOK, callVars, sessionVars, WaitingRunsFit, InterruptsHaveQueue
<1>2. UNCHANGED <<docQueue, callVars, sessionVars, notebookClosed>>
  BY DEF ClearOutputDone, KernelReplies, RequestRejected, queueVars
<1>3. \/ \E hasErrorOutput \in BOOLEAN : CompletedSuccessfully(e, hasErrorOutput)
      \/ CompletedWithErrors(e)
      \/ SendRequest(e)
  BY DEF ClearOutputDone, KernelReplies, RequestRejected
<1>4. CellTypeOK' /\ nExecs' = nExecs
  BY <1>3, CompletedTypes DEF TypeOK, CompletedSuccessfully, CompletedWithErrors, SendRequest
<1>5. CASE UNCHANGED queueVars
  BY <1>2, <1>4, <1>5 DEF TypeOK, queueVars
<1>6. CASE queue' = [queue EXCEPT ![exec[e].queue].loop = "awaitResult"]
  <2>1. \A q \in Execs : [queue[q] EXCEPT !.loop = "awaitResult"] \in QueueRec
    BY QueueFields, QueueChanges, LoopStateValues, FieldValues
  <2>2. queue' = [q \in Execs |-> IF q = exec[e].queue
                                  THEN [queue[q] EXCEPT !.loop = "awaitResult"]
                                  ELSE queue[q]]
    BY <1>6 DEF TypeOK
  <2>4. queue' \in [Execs -> QueueRec]
    BY <2>1, <2>2, QueueFields
  <2>3. QED
    BY <1>2, <1>4, <2>4
<1>7. QED
  BY <1>5, <1>6 DEF ClearOutputDone, KernelReplies, RequestRejected

(* The session starts, fails, dies or is disposed.                         *)
LEMMA SessionKeepsTypes ==
    ASSUME TypeInv, NEW s \in Sessions,
           \/ StartKernel(s) \/ SessionStarted(s) \/ SessionFailed(s)
           \/ KernelDies(s) \/ SessionDisposed(s)
    PROVE  TypeInv'
<1> USE DEF TypeInv
<1>1. SUFFICES /\ CellTypeOK' /\ nExecs' = nExecs
               /\ session' \in [Sessions -> {"none", "starting", "ready", "failed"}]
               /\ sessionPromise' \in 0..MaxSessions
               /\ kernelStatus' \in [Sessions -> {"ok", "dead", "disposed"}]
               /\ UNCHANGED <<queueVars, callVars, notebookClosed>>
  BY DEF TypeOK, queueVars, callVars, WaitingRunsFit, InterruptsHaveQueue
<1>2. /\ UNCHANGED cellVars \/ DoomRequests(RunsOn(s))
      /\ UNCHANGED <<queueVars, callVars, notebookClosed>>
  BY DEF StartKernel, SessionStarted, SessionFailed, KernelDies, SessionDisposed
<1>3. CellTypeOK' /\ nExecs' = nExecs
  BY <1>2, DoomTypes DEF DoomRequests, cellVars, TypeOK, CellTypeOK
<1>4. session' \in [Sessions -> {"none", "starting", "ready", "failed"}]
  BY DEF TypeOK, StartKernel, StartSession, SessionStarted, SessionFailed, KernelDies,
         SessionDisposed
<1>5. sessionPromise' \in 0..MaxSessions
  BY DEF TypeOK, StartKernel, StartSession, SessionStarted, SessionFailed, KernelDies,
         SessionDisposed, Sessions, None
<1>6. kernelStatus' \in [Sessions -> {"ok", "dead", "disposed"}]
  BY DEF TypeOK, StartKernel, StartSession, SessionStarted, SessionFailed, KernelDies,
         SessionDisposed
<1>7. QED
  BY <1>2, <1>3, <1>4, <1>5, <1>6

(* A cell is run now, is held up by a restart, or goes on after it.        *)
LEMMA ExecuteCellKeepsTypes ==
    ASSUME TypeInv, NEW c \in Cells, ExecuteCell(c)
    PROVE  TypeInv'
<1> USE DEF TypeInv
<1>1. Cardinality(waitingRuns) \in Nat /\ nExecs \in Nat
  BY FS_CardinalityType DEF WaitingRunsFit, TypeOK, CellTypeOK
<1>2. PICK s \in Sessions :
        /\ StartSession(s)
        /\ \/ /\ restartPromise # None
              /\ waitingRuns' = waitingRuns \cup
                    {[cell |-> c, session |-> s, on |-> restartPromise, state |-> "blocked"]}
              /\ UNCHANGED <<cellVars, queueVars>>
           \/ /\ restartPromise = None
              /\ QueueCell(c, s)
              /\ UNCHANGED waitingRuns
  BY DEF ExecuteCell
<1>3. /\ session' \in [Sessions -> {"none", "starting", "ready", "failed"}]
      /\ sessionPromise' \in 0..MaxSessions
  BY <1>2 DEF StartSession, TypeOK, Sessions
<1>4. /\ UNCHANGED <<interruptCall, restartCall, interruptPromise, restartPromise,
                     kernelStatus, notebookClosed>>
      /\ InterruptsHaveQueue'
  BY DEF ExecuteCell, InterruptsHaveQueue
<1>5. nExecs + Cardinality(waitingRuns) + 1 <= MaxExecs
  BY <1>1 DEF ExecuteCell
<1>6. CASE /\ restartPromise # None
           /\ waitingRuns' = waitingRuns \cup
                 {[cell |-> c, session |-> s, on |-> restartPromise, state |-> "blocked"]}
           /\ UNCHANGED <<cellVars, queueVars>>
  <2>1. waitingRuns' \subseteq WaitingRec
    BY <1>6 DEF TypeOK, WaitingRec, Restarts, None
  <2>2. WaitingRunsFit'
    <3> DEFINE w == [cell |-> c, session |-> s, on |-> restartPromise, state |-> "blocked"]
    <3>1. IsFiniteSet(waitingRuns)
      BY DEF WaitingRunsFit
    <3>2. /\ IsFiniteSet(waitingRuns \cup {w})
          /\ Cardinality(waitingRuns \cup {w}) \in
                {Cardinality(waitingRuns), Cardinality(waitingRuns) + 1}
      BY <3>1, FS_AddElement
    <3>3. waitingRuns' = waitingRuns \cup {w} /\ nExecs' = nExecs
      BY <1>6 DEF cellVars
    <3> HIDE DEF w
    <3>4. QED
      BY <1>1, <1>5, <3>2, <3>3 DEF WaitingRunsFit
  <2>3. QED
    BY <1>3, <1>4, <1>6, <2>1, <2>2 DEF TypeOK, cellVars, queueVars, CellTypeOK
<1>7. CASE QueueCell(c, s) /\ UNCHANGED waitingRuns
  <2>1. nExecs + 1 \in Execs
    BY <1>1, <1>5 DEF Execs
  <2>2. /\ CellTypeOK' /\ queue' \in [Execs -> QueueRec] /\ docQueue' \in 0..MaxExecs
        /\ nExecs' \in {nExecs, nExecs + 1}
    BY <1>7, <2>1, QueueCellTypes
  <2>3. WaitingRunsFit'
    BY <1>1, <1>5, <1>7, <2>2 DEF WaitingRunsFit
  <2>4. QED
    BY <1>3, <1>4, <1>7, <2>2, <2>3 DEF TypeOK
<1>8. QED
  BY <1>2, <1>6, <1>7

LEMMA ResumeKeepsTypes ==
    ASSUME TypeInv, NEW w \in waitingRuns, ResumeExecuteCell(w)
    PROVE  TypeInv'
<1> USE DEF TypeInv
<1>1. w.cell \in Cells /\ w.session \in Sessions
  BY DEF TypeOK, WaitingRec
<1>2. /\ IsFiniteSet(waitingRuns') /\ Cardinality(waitingRuns') \in Nat
      /\ Cardinality(waitingRuns) = Cardinality(waitingRuns') + 1
  <2>1. IsFiniteSet(waitingRuns)
    BY DEF WaitingRunsFit
  <2>2. /\ IsFiniteSet(waitingRuns \ {w})
        /\ Cardinality(waitingRuns \ {w}) = Cardinality(waitingRuns) - 1
    BY <2>1, FS_RemoveElement
  <2>3. Cardinality(waitingRuns) \in Nat /\ Cardinality(waitingRuns \ {w}) \in Nat
    BY <2>1, <2>2, FS_CardinalityType
  <2>4. waitingRuns' = waitingRuns \ {w}
    BY DEF ResumeExecuteCell
  <2>5. QED
    BY <2>2, <2>3, <2>4
<1>3. nExecs + 1 \in Execs /\ nExecs \in Nat
  BY <1>2 DEF WaitingRunsFit, TypeOK, CellTypeOK, Execs
<1>4. /\ CellTypeOK' /\ queue' \in [Execs -> QueueRec] /\ docQueue' \in 0..MaxExecs
      /\ nExecs' \in {nExecs, nExecs + 1}
  BY <1>1, <1>3, QueueCellTypes DEF ResumeExecuteCell
<1>5. WaitingRunsFit'
  BY <1>2, <1>3, <1>4 DEF WaitingRunsFit
<1>6. waitingRuns' \subseteq WaitingRec
  BY DEF ResumeExecuteCell, TypeOK
<1>7. UNCHANGED <<interruptCall, restartCall, interruptPromise, restartPromise,
                  sessionVars, notebookClosed>>
  BY DEF ResumeExecuteCell
<1>8. QED
  BY <1>4, <1>5, <1>6, <1>7 DEF TypeOK, sessionVars, InterruptsHaveQueue

(* interrupt().                                                            *)
LEMMA InterruptChanges ==
    ASSUME NEW r \in InterruptRec, NEW q \in 0..MaxExecs, NEW s \in 0..MaxSessions,
           NEW on \in 0..MaxInterrupts, NEW waits \in SUBSET Execs, NEW b \in BOOLEAN,
           NEW pc \in {"idle", "awaitSession", "awaitCells", "race", "shared", "done"},
           NEW result \in {"none", "Success", "TimedOut", "Restarted"}
    PROVE  /\ [r EXCEPT !.pc = pc, !.queue = q, !.session = s] \in InterruptRec
           /\ [r EXCEPT !.pc = pc, !.on = on, !.waits = waits, !.cancelPending = b]
                 \in InterruptRec
           /\ [r EXCEPT !.cancelPending = b] \in InterruptRec
           /\ [r EXCEPT !.pc = pc, !.result = result] \in InterruptRec
           /\ r.queue \in 0..MaxExecs /\ r.on \in 0..MaxInterrupts
           /\ r.result \in {"none", "Success", "TimedOut", "Restarted"}
  BY DEF InterruptRec

LEMMA InterruptUpdate ==
    ASSUME TypeInv, NEW i \in Interrupts, NEW r \in InterruptRec,
           interruptCall' = [interruptCall EXCEPT ![i] = r],
           r.pc # "idle" => r.queue # None, r.pc = "shared" => r.on # None
    PROVE  interruptCall' \in [Interrupts -> InterruptRec] /\ InterruptsHaveQueue'
  BY DEF TypeInv, TypeOK, InterruptsHaveQueue

LEMMA InterruptKeepsTypes ==
    ASSUME TypeInv, NEW i \in Interrupts,
           \/ Interrupt(i) \/ InterruptSessionSettled(i) \/ InterruptCellsSettled(i)
           \/ InterruptSucceeds(i) \/ InterruptGivesUp(i) \/ InterruptShared(i)
    PROVE  TypeInv'
<1> DEFINE call == interruptCall[i]
           q == call.queue
           Kept == /\ CellTypeOK' /\ queue' \in [Execs -> QueueRec] /\ nExecs' = nExecs
                   /\ interruptCall' \in [Interrupts -> InterruptRec]
                   /\ InterruptsHaveQueue'
                   /\ interruptPromise' \in 0..MaxInterrupts
                   /\ UNCHANGED <<docQueue, restartCall, restartPromise, waitingRuns,
                                  sessionVars, notebookClosed>>
<1> USE DEF TypeInv
<1>1. SUFFICES Kept
  BY DEF TypeOK, sessionVars, WaitingRunsFit
<1>2. UNCHANGED <<docQueue, restartCall, restartPromise, waitingRuns, sessionVars,
                  notebookClosed>>
  BY DEF Interrupt, InterruptSessionSettled, InterruptCellsSettled, InterruptSucceeds,
         InterruptGivesUp, InterruptShared, Returns, queueVars
<1>3. /\ call \in InterruptRec /\ q \in 0..MaxExecs /\ {} \in SUBSET Execs
      /\ call.on \in 0..MaxInterrupts
      /\ i \in 0..MaxInterrupts /\ None \in 0..MaxInterrupts
      /\ call.result \in {"none", "Success", "TimedOut", "Restarted"}
      /\ interruptPromise \in 0..MaxInterrupts
  <2>1. call \in InterruptRec
    BY DEF TypeOK
  <2>2. i \in 0..MaxInterrupts /\ None \in 0..MaxInterrupts
    BY DEF Interrupts, None
  <2>3. QED
    BY <2>1, <2>2 DEF InterruptRec, TypeOK
<1>4. /\ call.pc # "idle" => q \in Execs
      /\ call.pc = "shared" => call.on \in Interrupts
  BY <1>3 DEF InterruptsHaveQueue, Execs, Interrupts, None
<1>5. UNCHANGED cellVars => CellTypeOK' /\ nExecs' = nExecs
  BY DEF cellVars, TypeOK, CellTypeOK
<1>6. CASE Interrupt(i)
  <2> DEFINE r == [call EXCEPT !.pc = "awaitSession", !.queue = docQueue,
                               !.session = sessionPromise]
  <2>1. r \in InterruptRec
    BY <1>3, InterruptChanges DEF TypeOK
  <2>2. r.pc = "awaitSession" /\ r.queue = docQueue /\ docQueue # None
    BY <1>3, <1>6 DEF Interrupt, InterruptRec
  <2>3. interruptCall' = [interruptCall EXCEPT ![i] = r]
    BY <1>6 DEF Interrupt
  <2>4. UNCHANGED <<cellVars, queueVars, interruptPromise>>
    BY <1>6 DEF Interrupt
  <2> HIDE DEF r
  <2>5. interruptCall' \in [Interrupts -> InterruptRec] /\ InterruptsHaveQueue'
    BY <2>1, <2>2, <2>3, InterruptUpdate
  <2>6. QED
    BY <1>2, <1>5, <2>4, <2>5 DEF TypeOK, queueVars
<1>7. CASE InterruptSessionSettled(i)
  <2> DEFINE waits == AwaitedByCancel(queue[q].items)
  <2>1. /\ call.pc = "awaitSession"
        /\ CancelExecs(Cancellable(queue[q].items, FALSE))
        /\ queue' = [queue EXCEPT ![q].failed = TRUE]
    BY <1>7 DEF InterruptSessionSettled
  <2>2. q \in Execs /\ waits \in SUBSET Execs
    BY <1>4, <2>1, QueueFields DEF AwaitedByCancel
  <2>3. CellTypeOK' /\ nExecs' = nExecs
    BY <2>1, CancelTypes DEF CancelExecs, TypeOK
  <2>4. queue' \in [Execs -> QueueRec]
    <3>1. queue' = [queue EXCEPT ![q] = [queue[q] EXCEPT !.failed = TRUE]]
      BY <2>1
    <3>2. [queue[q] EXCEPT !.failed = TRUE] \in QueueRec
      BY <2>2, QueueFields, QueueChanges, LoopStateValues, FieldValues
    <3>3. QED
      BY <2>2, <3>1, <3>2, QueueUpdate
  <2>5. PICK pc \in {"awaitCells", "race", "shared"}, on \in 0..MaxInterrupts :
           /\ interruptCall' = [interruptCall EXCEPT ![i].pc = pc, ![i].on = on,
                                   ![i].waits = waits, ![i].cancelPending = TRUE]
           /\ pc = "shared" => on # None
           /\ interruptPromise' \in 0..MaxInterrupts
    BY <1>3, <1>7 DEF InterruptSessionSettled
  <2> DEFINE r == [call EXCEPT !.pc = pc, !.on = on, !.waits = waits,
                               !.cancelPending = TRUE]
  <2>6. r \in InterruptRec
    <3> HIDE DEF waits, call
    <3>1. /\ pc \in {"idle", "awaitSession", "awaitCells", "race", "shared", "done"}
          /\ 0 \in 0..MaxExecs /\ 0 \in 0..MaxSessions
      OBVIOUS
    <3>2. QED
      BY <1>3, <2>2, <3>1, InterruptChanges
  <2>7. r.pc = pc /\ r.on = on /\ r.queue = q /\ q # None
    BY <1>3, <2>2 DEF InterruptRec, Execs, None
  <2>8. interruptCall' = [interruptCall EXCEPT ![i] = r]
    BY <2>5
  <2> HIDE DEF r
  <2>9. interruptCall' \in [Interrupts -> InterruptRec] /\ InterruptsHaveQueue'
    BY <2>5, <2>6, <2>7, <2>8, InterruptUpdate
  <2>10. QED
    BY <1>2, <2>3, <2>4, <2>5, <2>9
<1>8. CASE InterruptCellsSettled(i)
  <2> DEFINE r == [call EXCEPT !.cancelPending = FALSE]
  <2>1. /\ interruptCall' = [interruptCall EXCEPT ![i] = r]
        /\ UNCHANGED <<cellVars, interruptPromise>>
    BY <1>8 DEF InterruptCellsSettled
  <2>2. r \in InterruptRec
    BY <1>3, InterruptChanges DEF TypeOK
  <2>3. /\ r.pc # "idle" => r.queue # None
        /\ r.pc = "shared" => r.on # None
    BY <1>3, <1>4 DEF InterruptRec, Execs, Interrupts, None
  <2> HIDE DEF r
  <2>4. interruptCall' \in [Interrupts -> InterruptRec] /\ InterruptsHaveQueue'
    BY <2>1, <2>2, <2>3, InterruptUpdate
  <2>5. \A p \in Execs : [queue[p] EXCEPT !.items = <<>>] \in QueueRec
    BY QueueFields, QueueChanges, LoopStateValues, FieldValues
  <2>6. queue' = [p \in Execs |-> IF p = q THEN [queue[p] EXCEPT !.items = <<>>]
                                  ELSE queue[p]]
    BY <1>8 DEF InterruptCellsSettled, TypeOK
  <2>7. queue' \in [Execs -> QueueRec]
    <3> HIDE DEF q
    <3> QED BY <2>5, <2>6, QueueFields
  <2>8. QED
    BY <1>2, <1>3, <1>5, <2>1, <2>4, <2>7
<1>9. ASSUME NEW result \in {"none", "Success", "TimedOut", "Restarted"}, Returns(i, result),
             call.pc \in {"awaitCells", "race", "shared"},
             interruptPromise' \in 0..MaxInterrupts
      PROVE  Kept
  <2> DEFINE r == [call EXCEPT !.pc = "done", !.result = result]
  <2>1. interruptCall' = [interruptCall EXCEPT ![i] = r]
    BY <1>9 DEF Returns
  <2>2. r \in InterruptRec
    BY <1>3, InterruptChanges DEF TypeOK
  <2>3. r.pc = "done" /\ r.queue = q /\ q # None
    BY <1>3, <1>4, <1>9 DEF InterruptRec, Execs, None
  <2> HIDE DEF r
  <2>4. interruptCall' \in [Interrupts -> InterruptRec] /\ InterruptsHaveQueue'
    BY <2>1, <2>2, <2>3, InterruptUpdate
  <2>5. UNCHANGED <<cellVars, queueVars>>
    BY <1>9 DEF Returns
  <2>6. QED
    BY <1>2, <1>5, <1>9, <2>4, <2>5 DEF TypeOK, queueVars
<1>10. CASE InterruptSucceeds(i)
  BY <1>3, <1>9, <1>10 DEF InterruptSucceeds
<1>11. CASE InterruptGivesUp(i)
  BY <1>3, <1>9, <1>11 DEF InterruptGivesUp
<1>12. CASE InterruptShared(i)
  <2>1. interruptCall[call.on].result \in {"none", "Success", "TimedOut", "Restarted"}
    BY <1>4, <1>12 DEF InterruptShared, TypeOK, InterruptRec
  <2>2. QED
    BY <1>3, <1>9, <1>12, <2>1 DEF InterruptShared
<1>13. QED
  BY <1>6, <1>7, <1>8, <1>10, <1>11, <1>12

(* restart().                                                              *)
LEMMA RestartKeepsTypes ==
    ASSUME TypeInv, NEW r \in Restarts,
           \/ Restart(r) \/ RestartSessionSettled(r) \/ RestartSucceeds(r) \/ RestartFails(r)
    PROVE  TypeInv'
<1> DEFINE Kept == /\ CellTypeOK' /\ queue' \in [Execs -> QueueRec] /\ nExecs' = nExecs
                   /\ restartCall' \in [Restarts -> RestartRec]
                   /\ restartPromise' \in 0..MaxRestarts
                   /\ waitingRuns' \subseteq WaitingRec /\ WaitingRunsFit'
                   /\ kernelStatus' \in [Sessions -> {"ok", "dead", "disposed"}]
                   /\ sessionPromise' \in 0..MaxSessions
                   /\ UNCHANGED <<docQueue, interruptCall, interruptPromise, session,
                                  notebookClosed>>
<1> USE DEF TypeInv
<1>1. SUFFICES Kept
  BY DEF TypeOK, InterruptsHaveQueue
<1>2. UNCHANGED <<docQueue, interruptCall, interruptPromise, session, notebookClosed>>
  BY DEF Restart, RestartSessionSettled, RestartSucceeds, RestartFails, RestartSettles,
         queueVars, sessionVars
<1>3. \A t \in Restarts : restartCall[t] \in RestartRec /\ t \in 0..MaxRestarts
  BY DEF TypeOK, Restarts
<1>4. \A t \in Restarts : \A pc \in {"idle", "awaitSession", "awaitRestart", "done", "failed"},
         q \in 0..MaxExecs, s \in 0..MaxSessions, on \in 0..MaxRestarts :
            /\ [restartCall[t] EXCEPT !.pc = pc] \in RestartRec
            /\ [restartCall[t] EXCEPT !.pc = pc, !.on = on] \in RestartRec
            /\ [restartCall[t] EXCEPT !.pc = pc, !.queue = q, !.session = s] \in RestartRec
  BY <1>3 DEF RestartRec
<1>5. /\ UNCHANGED cellVars => CellTypeOK' /\ nExecs' = nExecs
      /\ \A S : CancelExecs(S) => CellTypeOK' /\ nExecs' = nExecs
      /\ \A S : DoomRequests(S) => CellTypeOK' /\ nExecs' = nExecs
      /\ UNCHANGED waitingRuns /\ nExecs' = nExecs
            => waitingRuns' \subseteq WaitingRec /\ WaitingRunsFit'
  BY CancelTypes, DoomTypes
  DEF cellVars, TypeOK, CellTypeOK, CancelExecs, DoomRequests, WaitingRunsFit
<1>6. None \in 0..MaxRestarts /\ None \in 0..MaxSessions
  BY DEF None
<1>7. CASE Restart(r)
  <2>1. restartCall' = [restartCall EXCEPT ![r] = [restartCall[r] EXCEPT
           !.pc = "awaitSession", !.queue = docQueue, !.session = sessionPromise]]
    BY <1>7 DEF Restart
  <2>2. restartCall' \in [Restarts -> RestartRec]
    BY <1>4, <1>6, <2>1 DEF TypeOK
  <2>3. UNCHANGED <<cellVars, queueVars, restartPromise, waitingRuns, sessionVars>>
    BY <1>7 DEF Restart
  <2>4. QED
    BY <1>2, <1>5, <2>2, <2>3 DEF TypeOK, queueVars, sessionVars
<1>8. CASE RestartSessionSettled(r)
  <2> DEFINE q == restartCall[r].queue
  <2>1. /\ UNCHANGED <<waitingRuns, sessionVars>>
        /\ \/ UNCHANGED <<cellVars, queue>>
           \/ /\ CancelExecs(Cancellable(queue[q].items, TRUE))
              /\ queue' = [queue EXCEPT ![q].failed = TRUE, ![q].items = <<>>]
    BY <1>8 DEF RestartSessionSettled
  <2>2. CellTypeOK' /\ nExecs' = nExecs
    BY <1>5, <2>1
  <2>3. queue' \in [Execs -> QueueRec]
    <3>1. \A p \in Execs : [queue[p] EXCEPT !.failed = TRUE, !.items = <<>>] \in QueueRec
      BY QueueFields, QueueChanges, LoopStateValues, FieldValues
    <3>2. CASE queue' = [queue EXCEPT ![q].failed = TRUE, ![q].items = <<>>]
      <4>1. queue' = [p \in Execs |-> IF p = q
                         THEN [queue[p] EXCEPT !.failed = TRUE, !.items = <<>>] ELSE queue[p]]
        BY <3>2 DEF TypeOK
      <4> HIDE DEF q
      <4>2. QED
        BY <3>1, <4>1, QueueFields
    <3>3. QED
      BY <2>1, <3>2 DEF TypeOK
  <2>4. PICK pc \in {"done", "awaitRestart"}, on \in 0..MaxRestarts :
           \/ restartCall' = [restartCall EXCEPT ![r].pc = pc]
           \/ restartCall' = [restartCall EXCEPT ![r].pc = pc, ![r].on = on]
    BY <1>3, <1>8 DEF RestartSessionSettled, TypeOK
  <2>5. \/ restartCall' = [restartCall EXCEPT ![r] = [restartCall[r] EXCEPT !.pc = pc]]
        \/ restartCall' = [restartCall EXCEPT ![r] =
                              [restartCall[r] EXCEPT !.pc = pc, !.on = on]]
    BY <2>4
  <2>6. /\ [restartCall[r] EXCEPT !.pc = pc] \in RestartRec
        /\ [restartCall[r] EXCEPT !.pc = pc, !.on = on] \in RestartRec
    BY <1>4, <1>6, FieldValues
  <2>7. restartCall' \in [Restarts -> RestartRec]
    BY <2>5, <2>6 DEF TypeOK
  <2>8. restartPromise' \in 0..MaxRestarts
    BY <1>3, <1>6, <1>8 DEF RestartSessionSettled, TypeOK
  <2>9. QED
    BY <1>2, <1>5, <2>1, <2>2, <2>3, <2>7, <2>8 DEF TypeOK, sessionVars
<1>9. ASSUME NEW pc \in {"done", "failed"}, RestartSettles(r, pc)
      PROVE  /\ CellTypeOK' /\ nExecs' = nExecs /\ queue' \in [Execs -> QueueRec]
             /\ restartCall' \in [Restarts -> RestartRec]
             /\ restartPromise' \in 0..MaxRestarts
  <2>1. CellTypeOK' /\ nExecs' = nExecs
    BY <1>5, <1>9 DEF RestartSettles
  <2>2. \A t \in Restarts : [restartCall[t] EXCEPT !.pc = pc] \in RestartRec
    BY <1>4, <1>6, FieldValues
  <2>3. restartCall' \in [Restarts -> RestartRec]
    BY <1>3, <1>9, <2>2 DEF RestartSettles
  <2>4. QED
    BY <1>6, <1>9, <2>1, <2>3 DEF RestartSettles, queueVars, TypeOK
<1>10. CASE RestartSucceeds(r)
  <2> DEFINE Resumed(w) == IF w.on = r THEN [w EXCEPT !.state = "go"] ELSE w
  <2>1. waitingRuns' = {Resumed(w) : w \in waitingRuns}
    BY <1>10 DEF RestartSucceeds
  <2>2. waitingRuns' \subseteq WaitingRec
    BY <2>1 DEF TypeOK, WaitingRec
  <2>3. /\ IsFiniteSet({Resumed(w) : w \in waitingRuns})
        /\ Cardinality({Resumed(w) : w \in waitingRuns}) <= Cardinality(waitingRuns)
    <3> DEFINE after == {Resumed(w) : w \in waitingRuns}
               resume == [w \in waitingRuns |-> Resumed(w)]
    <3>1. IsFiniteSet(waitingRuns)
      BY DEF WaitingRunsFit
    <3>2. resume \in Surjection(waitingRuns, after)
      <4> HIDE DEF Resumed
      <4> QED BY DEF Surjection
    <3> HIDE DEF after, resume
    <3>3. IsFiniteSet(after) /\ Cardinality(after) <= Cardinality(waitingRuns)
      BY <3>1, <3>2, FS_Surjection
    <3>4. QED
      BY <3>3 DEF after
  <2>4. nExecs' = nExecs
    BY <1>9, <1>10 DEF RestartSucceeds
  <2>5. WaitingRunsFit'
    <3>1. /\ Cardinality(waitingRuns) \in Nat /\ Cardinality(waitingRuns') \in Nat
          /\ nExecs \in Nat
      BY <2>1, <2>3, FS_CardinalityType DEF WaitingRunsFit, TypeOK, CellTypeOK
    <3> HIDE DEF Resumed
    <3>2. QED
      BY <2>1, <2>3, <2>4, <3>1 DEF WaitingRunsFit
  <2>6. QED
    BY <1>2, <1>9, <1>10, <2>2, <2>5 DEF RestartSucceeds, TypeOK
<1>11. CASE RestartFails(r)
  <2>1. waitingRuns' \subseteq waitingRuns /\ nExecs' = nExecs
    BY <1>9, <1>11 DEF RestartFails
  <2>2. IsFiniteSet(waitingRuns') /\ Cardinality(waitingRuns') <= Cardinality(waitingRuns)
    BY <2>1, FS_Subset DEF WaitingRunsFit
  <2>3. WaitingRunsFit'
    <3>1. /\ Cardinality(waitingRuns) \in Nat /\ Cardinality(waitingRuns') \in Nat
          /\ nExecs \in Nat
      BY <2>2, FS_CardinalityType DEF WaitingRunsFit, TypeOK, CellTypeOK
    <3>2. QED
      BY <2>1, <2>2, <3>1 DEF WaitingRunsFit
  <2>4. kernelStatus' \in [Sessions -> {"ok", "dead", "disposed"}]
    BY <1>11 DEF RestartFails, TypeOK
  <2>5. QED
    BY <1>2, <1>6, <1>9, <1>11, <2>1, <2>3, <2>4 DEF RestartFails, TypeOK
<1>12. QED
  BY <1>7, <1>8, <1>10, <1>11

(* Documents are closed.                                                   *)
LEMMA ClosingKeepsTypes ==
    ASSUME TypeInv, (\E c \in Cells : CloseCell(c)) \/ CloseNotebook
    PROVE  TypeInv'
<1> USE DEF TypeInv
<1>1. SUFFICES /\ CellTypeOK' /\ queue' \in [Execs -> QueueRec] /\ nExecs' = nExecs
               /\ notebookClosed' \in BOOLEAN
               /\ UNCHANGED <<docQueue, callVars, sessionVars>>
  BY DEF TypeOK, callVars, sessionVars, WaitingRunsFit, InterruptsHaveQueue
<1>2. CASE \E c \in Cells : CloseCell(c)
  <2>1. PICK c \in Cells : CloseCell(c)
    BY <1>2
  <2>2. CellTypeOK' /\ nExecs' = nExecs
    BY <2>1, CloseTypes DEF CloseCell, CloseAndCancel, TypeOK
  <2>3. QED
    BY <2>1, <2>2 DEF CloseCell, queueVars, TypeOK
<1>3. CASE CloseNotebook
  <2>1. PICK C, Q :
           /\ CloseAndCancel(Cells, C)
           /\ queue' = [q \in Execs |->
                 IF q \in Q THEN [queue[q] EXCEPT !.failed = TRUE, !.items = <<>>]
                 ELSE queue[q]]
    BY <1>3 DEF CloseNotebook
  <2>2. CellTypeOK' /\ nExecs' = nExecs
    BY <2>1, CloseTypes DEF CloseAndCancel, TypeOK
  <2>3. \A q \in Execs : [queue[q] EXCEPT !.failed = TRUE, !.items = <<>>] \in QueueRec
    BY QueueFields, QueueChanges, LoopStateValues, FieldValues
  <2>4. queue' \in [Execs -> QueueRec]
    BY <2>1, <2>3, QueueFields
  <2>5. QED
    BY <1>3, <2>2, <2>4 DEF CloseNotebook
<1>4. QED
  BY <1>2, <1>3

LEMMA InitTypes == Init => TypeInv
<1> SUFFICES ASSUME Init PROVE TypeInv
  OBVIOUS
<1>1. CellTypeOK
  <2>1. Unborn \in CellExecutionRec
    BY FieldValues DEF Unborn, CellExecutionRec
  <2>2. QED
    BY <2>1, FieldValues DEF Init, CellInit, CellTypeOK
<1>2. queue \in [Execs -> QueueRec]
  <2>1. [items |-> <<>>, failed |-> FALSE, loop |-> "none", cell |-> None,
         session |-> None] \in QueueRec
    BY FieldValues, LoopStateValues DEF QueueRec, None
  <2>2. QED
    BY <2>1 DEF Init
<1>3. /\ interruptCall \in [Interrupts -> InterruptRec]
      /\ restartCall \in [Restarts -> RestartRec]
  BY FieldValues DEF Init, InterruptRec, RestartRec, None
<1>4. WaitingRunsFit /\ InterruptsHaveQueue
  BY <1>3, FS_EmptySet DEF Init, CellInit, WaitingRunsFit, InterruptsHaveQueue
<1>5. /\ docQueue \in 0..MaxExecs /\ interruptPromise \in 0..MaxInterrupts
      /\ restartPromise \in 0..MaxRestarts /\ sessionPromise \in 0..MaxSessions
  BY DEF Init, None
<1>6. /\ waitingRuns \subseteq WaitingRec
      /\ session \in [Sessions -> {"none", "starting", "ready", "failed"}]
      /\ kernelStatus \in [Sessions -> {"ok", "dead", "disposed"}]
      /\ notebookClosed \in BOOLEAN
  BY DEF Init
<1>7. QED
  BY <1>1, <1>2, <1>3, <1>4, <1>5, <1>6 DEF TypeInv, TypeOK

LEMMA NextTypes == TypeInv /\ [Next]_vars => TypeInv'
<1> SUFFICES ASSUME TypeInv, [Next]_vars PROVE TypeInv'
  OBVIOUS
<1>1. CASE Microtask
  <2>1. \A w \in waitingRuns : ResumeExecuteCell(w) => TypeInv'
    BY ResumeKeepsTypes
  <2>2. QED
    BY <1>1, <2>1, LoopKeepsTypes, InterruptKeepsTypes, RestartKeepsTypes DEF Microtask
<1>2. CASE Task
  BY <1>2, ExecuteCellKeepsTypes, AnswersKeepTypes, SessionKeepsTypes, InterruptKeepsTypes,
     RestartKeepsTypes, ClosingKeepsTypes
  DEF Task
<1>3. CASE UNCHANGED vars
  BY <1>3 DEF vars, cellVars, queueVars, callVars, sessionVars, TypeInv, TypeOK, CellTypeOK,
              WaitingRunsFit, InterruptsHaveQueue
<1>4. QED
  BY <1>1, <1>2, <1>3 DEF Next

(* Every reachable state is well typed, whatever the cells and the bounds: *)
(* in particular no run is queued beyond the runs there are, and every     *)
(* call that waits, waits for something that exists.                       *)
THEOREM TypeCorrect == Spec => []TypeOK
<1>1. Init => TypeInv
  BY InitTypes
<1>2. TypeInv /\ [Next]_vars => TypeInv'
  BY NextTypes
<1>3. TypeInv => TypeOK
  BY DEF TypeInv
<1>4. QED
  BY <1>1, <1>2, <1>3, PTL DEF Spec

-----------------------------------------------------------------------------
(***************************************************************************)
(* A queue runs its cells one at a time and in the order they were queued. *)
(***************************************************************************)

(* Most steps start nothing and queue nothing: runs may get results, lists *)
(* may be emptied because their queue has failed, and a loop may stop or   *)
(* go from clearing the output to waiting for the result.                  *)
RunsOnlyEnd ==
    \A e \in Execs :
        /\ exec'[e].queue = exec[e].queue /\ exec'[e].started = exec[e].started
        /\ exec'[e].result = "pending" => exec[e].result = "pending"
        /\ exec'[e].run # "none" => exec[e].run # "none"
        /\ exec'[e].run = "clearing" =>
              /\ exec[e].run = "clearing"
              /\ queue'[exec[e].queue].loop = queue[exec[e].queue].loop

QueuesOnlyEnd ==
    \A q \in Execs :
        /\ queue'[q].cell = queue[q].cell /\ queue'[q].session = queue[q].session
        /\ queue[q].failed => queue'[q].failed
        /\ \/ queue'[q].loop = queue[q].loop
           \/ queue'[q].loop = "done" /\ queue[q].loop # "none"
           \/ queue[q].loop = "awaitStart" /\ queue'[q].loop = "awaitResult"
        /\ queue'[q].items = queue[q].items \/ (queue'[q].failed /\ queue'[q].items = <<>>)
        /\ queue'[q].failed \/
              \A e \in Items(q) : (Waiting(q) \/ e # queue[q].cell) =>
                                     exec'[e].result = exec[e].result

OnlyEnds == /\ nExecs' = nExecs /\ docQueue' = docQueue
            /\ RunsOnlyEnd /\ QueuesOnlyEnd

LEMMA NothingInEmptyList == Members(<<>>) = {}
  BY DEF Members

LEMMA QueueNames ==
    ASSUME TypeInv
    PROVE  /\ Born \subseteq Execs /\ nExecs \in Nat /\ nExecs + 1 \notin Born
           /\ \A q \in Execs : Items(q) \subseteq Execs
<1>1. nExecs \in 0..MaxExecs
  BY DEF TypeInv, TypeOK, CellTypeOK
<1>2. /\ Born \subseteq Execs /\ nExecs \in Nat /\ nExecs + 1 \notin Born
  BY <1>1 DEF Born, Execs
<1>3. QED
  BY <1>2, QueueFields DEF TypeInv, Items

LEMMA EndingKeepsOrder ==
    ASSUME TypeInv, TypeInv', QueueInv, OnlyEnds
    PROVE  RunsBelongToQueues' /\ StartedRunIsCurrent' /\ HealthyQueuesAreInOrder'
<1> USE DEF QueueInv, OnlyEnds
<1>1. Born' = Born /\ Born \subseteq Execs
  BY QueueNames DEF Born
<1>2. ASSUME NEW q \in Execs
      PROVE  Items(q)' \subseteq Items(q)
  <2>1. CASE queue'[q].items = queue[q].items
    BY <2>1 DEF Items, Members
  <2>2. CASE queue'[q].items = <<>>
    BY <2>2, NothingInEmptyList DEF Items
  <2>3. QED
    BY <2>1, <2>2 DEF QueuesOnlyEnd
<1>3. RunsBelongToQueues'
  <2>1. \A e \in Execs : exec'[e].started => e \in Born'
    BY <1>1 DEF RunsBelongToQueues, RunsOnlyEnd
  <2>2. \A e \in Execs : exec'[e].run # "none" => exec'[e].started
    BY DEF RunsBelongToQueues, RunsOnlyEnd
  <2>3. \A e \in Born' : exec'[e].queue \in Born' /\ queue'[exec'[e].queue].loop # "none"
    BY <1>1 DEF RunsBelongToQueues, RunsOnlyEnd, QueuesOnlyEnd
  <2>4. \A q \in Execs : \A e \in Items(q)' : e \in Born' /\ exec'[e].queue = q
    BY <1>1, <1>2 DEF RunsBelongToQueues, RunsOnlyEnd
  <2>5. QED
    BY <2>1, <2>2, <2>3, <2>4 DEF RunsBelongToQueues
<1>4. StartedRunIsCurrent'
  <2> SUFFICES ASSUME NEW e \in Born'
               PROVE  /\ (Unresolved(e)' /\ exec'[e].started) =>
                            queue'[exec'[e].queue].cell = e /\ ~Waiting(exec[e].queue)'
                      /\ exec'[e].run = "clearing" =>
                            /\ queue'[exec'[e].queue].cell = e
                            /\ queue'[exec'[e].queue].loop = "awaitStart"
    BY DEF StartedRunIsCurrent, Waiting
  <2>1. e \in Born /\ e \in Execs /\ exec[e].queue \in Execs
    BY <1>1 DEF RunsBelongToQueues
  <2>2. QED
    BY <1>1, <2>1 DEF StartedRunIsCurrent, RunsOnlyEnd, QueuesOnlyEnd, Unresolved, Waiting
<1>5. ASSUME NEW q \in Execs, ~queue'[q].failed
      PROVE  QueueIsInOrder(q)'
  <2>1. QueueIsInOrder(q) /\ queue'[q].items = queue[q].items /\ Items(q)' = Items(q)
    BY <1>5 DEF HealthyQueuesAreInOrder, QueuesOnlyEnd, Items, Members
  <2>2. \A i, j \in DOMAIN queue'[q].items : i < j => queue'[q].items[i] < queue'[q].items[j]
    BY <2>1 DEF QueueIsInOrder
  <2>3. \A e \in Born' : (Unresolved(e)' /\ exec'[e].queue = q) => e \in Items(q)'
    BY <1>1, <2>1 DEF QueueIsInOrder, RunsOnlyEnd, Unresolved
  <2>4. \A e \in Items(q)' : (Waiting(q)' \/ e # queue'[q].cell) =>
              ~exec'[e].started /\ exec'[e].result = "pending"
    BY <1>5, <2>1, QueueNames DEF QueueIsInOrder, RunsOnlyEnd, QueuesOnlyEnd, Waiting
  <2>5. queue'[q].loop \in {"awaitStart", "awaitResult"} =>
              queue'[q].items # <<>> /\ Head(queue'[q].items) = queue'[q].cell
    BY <1>5, <2>1 DEF QueueIsInOrder, QueuesOnlyEnd
  <2>6. QED
    BY <2>2, <2>3, <2>4, <2>5 DEF QueueIsInOrder
<1>6. QED
  BY <1>3, <1>4, <1>5 DEF HealthyQueuesAreInOrder

-----------------------------------------------------------------------------
(* What the operations on runs leave alone.                                *)
LEMMA ChangedFields ==
    ASSUME NEW r \in CellExecutionRec, NEW b1, NEW b2, NEW w, NEW v, NEW x
    PROVE  /\ LET t == [r EXCEPT !.completed = b1, !.execution = w, !.result = v, !.run = x]
              IN  t.queue = r.queue /\ t.started = r.started /\ t.result = v /\ t.run = x
           /\ LET t == [r EXCEPT !.completed = b1, !.execution = w, !.result = v,
                                !.cancelHandled = b2, !.run = x]
              IN  t.queue = r.queue /\ t.started = r.started /\ t.result = v /\ t.run = x
           /\ LET t == [r EXCEPT !.run = x]
              IN  /\ t.queue = r.queue /\ t.started = r.started
                  /\ t.result = r.result /\ t.run = x
  BY DEF CellExecutionRec

LEMMA CancelRuns ==
    ASSUME TypeInv, NEW S, CancelExecs(S)
    PROVE  /\ nExecs' = nExecs
           /\ \A e \in Execs :
                 /\ exec'[e].queue = exec[e].queue /\ exec'[e].started = exec[e].started
                 /\ exec'[e].run = exec[e].run
                 /\ exec'[e].result = "pending" => exec[e].result = "pending"
                 /\ e \notin S => exec'[e] = exec[e]
<1>1. \A e \in Execs : exec[e] \in CellExecutionRec
  BY RunType DEF TypeInv, TypeOK
<1>2. QED
  BY <1>1 DEF CancelExecs, CellExecutionRec, Resolve

LEMMA DoomedRuns ==
    ASSUME TypeInv, NEW S, DoomRequests(S)
    PROVE  /\ nExecs' = nExecs
           /\ \A e \in Execs :
                 /\ exec'[e].queue = exec[e].queue /\ exec'[e].started = exec[e].started
                 /\ exec'[e].result = exec[e].result
                 /\ exec'[e].run = exec[e].run
                       \/ (exec[e].run # "none" /\ exec'[e].run = "doomed")
<1>1. \A e \in Execs : exec[e] \in CellExecutionRec
  BY RunType DEF TypeInv, TypeOK
<1>2. ASSUME NEW e \in Execs
      PROVE  \/ exec'[e] = exec[e]
             \/ exec[e].run = "running" /\ exec'[e] = [exec[e] EXCEPT !.run = "doomed"]
  BY DEF DoomRequests
<1>3. ASSUME NEW e \in Execs, exec'[e] = [exec[e] EXCEPT !.run = "doomed"]
      PROVE  /\ exec'[e].queue = exec[e].queue /\ exec'[e].started = exec[e].started
             /\ exec'[e].result = exec[e].result /\ exec'[e].run = "doomed"
  <2> DEFINE t == [exec[e] EXCEPT !.run = "doomed"]
  <2>1. /\ t.queue = exec[e].queue /\ t.started = exec[e].started
        /\ t.result = exec[e].result /\ t.run = "doomed"
    BY <1>1, ChangedFields
  <2>2. exec'[e] = t
    BY <1>3
  <2> HIDE DEF t
  <2>3. QED
    BY <2>1, <2>2
<1>4. QED
  BY <1>2, <1>3 DEF DoomRequests

LEMMA ClosedRuns ==
    ASSUME TypeInv, NEW D \in SUBSET Cells, NEW C, CloseAndCancel(D, C)
    PROVE  /\ nExecs' = nExecs
           /\ \A e \in Execs :
                 /\ exec'[e].queue = exec[e].queue /\ exec'[e].started = exec[e].started
                 /\ exec'[e].result = "pending" => exec[e].result = "pending"
                 /\ exec'[e].run = exec[e].run
                       \/ (exec[e].run # "none" /\ exec'[e].run = "doomed")
                 /\ (~exec[e].started /\ e \notin C) => exec'[e].result = exec[e].result
<1>1. \A e \in Execs : exec[e] \in CellExecutionRec
  BY RunType DEF TypeInv, TypeOK
<1>2. nExecs' = nExecs
  BY DEF CloseAndCancel
<1>3. ASSUME NEW e \in Execs
      PROVE  /\ exec'[e].queue = exec[e].queue /\ exec'[e].started = exec[e].started
             /\ exec'[e].result = "pending" => exec[e].result = "pending"
             /\ exec'[e].run = exec[e].run
                   \/ (exec[e].run # "none" /\ exec'[e].run = "doomed")
             /\ (~exec[e].started /\ e \notin C) => exec'[e].result = exec[e].result
  <2> DEFINE Doomed == /\ e \in Born /\ exec[e].cell \in D
                       /\ ~exec[e].cancelHandled /\ exec[e].run = "running"
             run == IF Doomed THEN "doomed" ELSE exec[e].run
             handled == exec[e].cancelHandled \/ e \in C \ StoppedByClosing(D)
             stopped == [exec[e] EXCEPT !.completed = TRUE, !.execution = None,
                            !.result = Resolve(e, "Idle"), !.cancelHandled = handled,
                            !.run = run]
             doomed == [exec[e] EXCEPT !.run = "doomed"]
  <2>1. exec'[e] = IF e \in StoppedByClosing(D) \cup C THEN stopped
                   ELSE IF Doomed THEN doomed ELSE exec[e]
    BY DEF CloseAndCancel
  <2>2. /\ stopped.queue = exec[e].queue /\ stopped.started = exec[e].started
        /\ stopped.result = Resolve(e, "Idle") /\ stopped.run = run
    <3> HIDE DEF run, handled
    <3> QED BY <1>1, ChangedFields
  <2>3. /\ doomed.queue = exec[e].queue /\ doomed.started = exec[e].started
        /\ doomed.result = exec[e].result /\ doomed.run = "doomed"
    BY <1>1, ChangedFields
  <2>4. Resolve(e, "Idle") = "pending" => exec[e].result = "pending"
    BY DEF Resolve
  <2>5. Doomed => exec[e].run # "none"
    OBVIOUS
  <2>6. ~exec[e].started => e \notin StoppedByClosing(D)
    BY DEF StoppedByClosing
  <2> HIDE DEF stopped, doomed, Doomed
  <2>7. QED
    BY <2>1, <2>2, <2>3, <2>4, <2>5, <2>6
<1>4. QED
  BY <1>2, <1>3

LEMMA CompletedRuns ==
    ASSUME TypeInv, NEW e \in Execs,
           \/ \E hasErrorOutput \in BOOLEAN : CompletedSuccessfully(e, hasErrorOutput)
           \/ CompletedWithErrors(e)
           \/ SendRequest(e)
    PROVE  /\ nExecs' = nExecs
           /\ \A f \in Execs \ {e} : exec'[f] = exec[f]
           /\ exec'[e].queue = exec[e].queue /\ exec'[e].started = exec[e].started
           /\ exec'[e].result = "pending" => exec[e].result = "pending"
           /\ exec'[e].run \in {"settled", "running"}
<1>1. /\ exec[e] \in CellExecutionRec
      /\ exec \in [Execs -> CellExecutionRec]
  BY DEF TypeInv, TypeOK, CellTypeOK
<1>2. ASSUME NEW r \in Results \ {"pending"},
             exec' = [exec EXCEPT ![e].completed = TRUE, ![e].execution = None,
                                  ![e].result = Resolve(e, r), ![e].run = "settled"]
      PROVE  /\ \A f \in Execs \ {e} : exec'[f] = exec[f]
             /\ exec'[e].queue = exec[e].queue /\ exec'[e].started = exec[e].started
             /\ exec'[e].result # "pending" /\ exec'[e].run = "settled"
  <2>1. Resolve(e, r) # "pending"
    BY DEF Resolve
  <2>2. exec' = [exec EXCEPT ![e] = [exec[e] EXCEPT !.completed = TRUE, !.execution = None,
                                        !.result = Resolve(e, r), !.run = "settled"]]
    BY <1>2
  <2>3. exec'[e] = [exec[e] EXCEPT !.completed = TRUE, !.execution = None,
                                   !.result = Resolve(e, r), !.run = "settled"]
    BY <1>1, <2>2
  <2>4. \A f \in Execs \ {e} : exec'[f] = exec[f]
    BY <1>1, <1>2
  <2>5. /\ exec'[e].queue = exec[e].queue /\ exec'[e].started = exec[e].started
        /\ exec'[e].result = Resolve(e, r) /\ exec'[e].run = "settled"
    <3> DEFINE t == [exec[e] EXCEPT !.completed = TRUE, !.execution = None,
                                    !.result = Resolve(e, r), !.run = "settled"]
    <3>1. /\ t.queue = exec[e].queue /\ t.started = exec[e].started
          /\ t.result = Resolve(e, r) /\ t.run = "settled"
      BY <1>1, ChangedFields
    <3>2. exec'[e] = t
      BY <2>3
    <3> HIDE DEF t
    <3>3. QED
      BY <3>1, <3>2
  <2>6. QED
    BY <2>1, <2>4, <2>5
<1>3. ASSUME NEW x, exec' = [exec EXCEPT ![e].run = x]
      PROVE  /\ \A f \in Execs \ {e} : exec'[f] = exec[f]
             /\ exec'[e].queue = exec[e].queue /\ exec'[e].started = exec[e].started
             /\ exec'[e].result = exec[e].result /\ exec'[e].run = x
  BY <1>1, <1>3 DEF CellExecutionRec
<1>4. CASE \E hasErrorOutput \in BOOLEAN : CompletedSuccessfully(e, hasErrorOutput)
  <2>1. PICK hasErrorOutput \in BOOLEAN : CompletedSuccessfully(e, hasErrorOutput)
    BY <1>4
  <2>2. PICK r \in {"Error", "Idle", "Success"} :
           exec' = [exec EXCEPT ![e].completed = TRUE, ![e].execution = None,
                                ![e].result = Resolve(e, r), ![e].run = "settled"]
    BY <2>1 DEF CompletedSuccessfully
  <2>3. r \in Results \ {"pending"} /\ nExecs' = nExecs
    BY <2>1, FieldValues DEF CompletedSuccessfully
  <2>4. QED
    BY <1>2, <2>2, <2>3
<1>5. CASE CompletedWithErrors(e)
  <2>1. "Error" \in Results \ {"pending"}
    BY FieldValues
  <2>2. QED
    BY <1>2, <1>3, <1>5, <2>1 DEF CompletedWithErrors
<1>6. CASE SendRequest(e)
  BY <1>3, <1>6 DEF SendRequest
<1>7. QED
  BY <1>4, <1>5, <1>6

-----------------------------------------------------------------------------
(* The steps that only end something.                                      *)
LEMMA ClearingRun ==
    ASSUME TypeInv, QueueInv, NEW e \in Execs, exec[e].run = "clearing"
    PROVE  /\ e \in Born /\ exec[e].started /\ exec[e].queue \in Execs
           /\ queue[exec[e].queue].loop = "awaitStart" /\ queue[exec[e].queue].cell = e
  BY QueueNames DEF QueueInv, RunsBelongToQueues, StartedRunIsCurrent

LEMMA ListedRun ==
    ASSUME TypeInv, QueueInv, NEW q \in Execs, NEW e \in Items(q)
    PROVE  e \in Born /\ e \in Execs /\ exec[e].queue = q
  BY QueueNames DEF QueueInv, RunsBelongToQueues

(* A cancel of the runs on the list of one queue, which fails with it.     *)
LEMMA CancelEnds ==
    ASSUME TypeInv, QueueInv, NEW q \in Execs, NEW s, NEW forced,
           Members(s) \subseteq Items(q),
           CancelExecs(Cancellable(s, forced)), docQueue' = docQueue,
           \A p \in Execs \ {q} : queue'[p] = queue[p],
           queue'[q].failed, queue'[q].cell = queue[q].cell,
           queue'[q].session = queue[q].session,
           \/ queue'[q].loop = queue[q].loop
           \/ queue'[q].loop = "done" /\ queue[q].loop \notin {"none", "awaitStart"},
           queue'[q].items = queue[q].items \/ queue'[q].items = <<>>
    PROVE  OnlyEnds
<1> DEFINE S == Cancellable(s, forced)
<1>1. S \subseteq Items(q)
  BY DEF Cancellable
<1>2. CancelExecs(S)
  OBVIOUS
<1> HIDE DEF S
<1>3. RunsOnlyEnd
  BY <1>2, CancelRuns, ClearingRun DEF RunsOnlyEnd
<1>4. \A p \in Execs \ {q} : \A e \in Items(p) : exec'[e].result = exec[e].result
  BY <1>1, <1>2, CancelRuns, ListedRun
<1>5. QueuesOnlyEnd
  BY <1>4 DEF QueuesOnlyEnd
<1>6. nExecs' = nExecs
  BY <1>2, CancelRuns
<1>7. QED
  BY <1>3, <1>5, <1>6 DEF OnlyEnds

LEMMA ChangedQueueFields ==
    ASSUME NEW r \in QueueRec, NEW f, NEW s, NEW l, NEW x
    PROVE  /\ LET t == [r EXCEPT !.failed = f, !.items = s, !.loop = l]
              IN  /\ t.failed = f /\ t.items = s /\ t.loop = l
                  /\ t.cell = r.cell /\ t.session = r.session
           /\ LET t == [r EXCEPT !.failed = f, !.items = s, !.loop = l, !.cell = x]
              IN  /\ t.failed = f /\ t.items = s /\ t.loop = l
                  /\ t.cell = x /\ t.session = r.session
           /\ LET t == [r EXCEPT !.failed = f, !.items = s]
              IN  /\ t.failed = f /\ t.items = s /\ t.loop = r.loop
                  /\ t.cell = r.cell /\ t.session = r.session
           /\ LET t == [r EXCEPT !.items = s, !.loop = l]
              IN  /\ t.failed = r.failed /\ t.items = s /\ t.loop = l
                  /\ t.cell = r.cell /\ t.session = r.session
           /\ LET t == [r EXCEPT !.failed = f]
              IN  /\ t.failed = f /\ t.items = r.items /\ t.loop = r.loop
                  /\ t.cell = r.cell /\ t.session = r.session
           /\ LET t == [r EXCEPT !.items = s]
              IN  /\ t.failed = r.failed /\ t.items = s /\ t.loop = r.loop
                  /\ t.cell = r.cell /\ t.session = r.session
           /\ LET t == [r EXCEPT !.loop = l]
              IN  /\ t.failed = r.failed /\ t.items = r.items /\ t.loop = l
                  /\ t.cell = r.cell /\ t.session = r.session
           /\ LET t == [r EXCEPT !.loop = l, !.cell = x]
              IN  /\ t.failed = r.failed /\ t.items = r.items /\ t.loop = l
                  /\ t.cell = x /\ t.session = r.session
  BY DEF QueueRec

LEMMA CancelQueueEnds ==
    ASSUME TypeInv, QueueInv, NEW q \in Execs, NEW s,
           Members(s) \subseteq Items(q), CancelQueue(q, s), docQueue' = docQueue,
           queue[q].loop \notin {"none", "awaitStart"}
    PROVE  OnlyEnds
<1> DEFINE t == [queue[q] EXCEPT !.failed = TRUE, !.items = <<>>, !.loop = "done"]
<1>1. queue[q] \in QueueRec /\ queue' = [queue EXCEPT ![q] = t]
  BY QueueFields DEF TypeInv, CancelQueue
<1>2. /\ t.failed /\ t.cell = queue[q].cell /\ t.loop = "done" /\ t.items = <<>>
      /\ t.session = queue[q].session
  BY <1>1, ChangedQueueFields
<1> HIDE DEF t
<1>3. (\A p \in Execs \ {q} : queue'[p] = queue[p]) /\ queue'[q] = t
  BY <1>1 DEF TypeInv, TypeOK
<1>4. QED
  BY <1>2, <1>3, CancelEnds DEF CancelQueue

(* Tails of a list, as a cancel sees them.                                 *)
LEMMA RestOfList ==
    ASSUME TypeInv, NEW q \in Execs, queue[q].items # <<>>
    PROVE  Members(Tail(queue[q].items)) \subseteq Items(q)
  BY QueueFields DEF TypeInv, Items

(* When nothing but runs changes, and no run is started or queued.         *)
LEMMA RunsEnd ==
    ASSUME TypeInv, QueueInv, nExecs' = nExecs, docQueue' = docQueue, queue' = queue,
           \A e \in Execs :
              /\ exec'[e].queue = exec[e].queue /\ exec'[e].started = exec[e].started
              /\ exec'[e].result = "pending" => exec[e].result = "pending"
              /\ exec'[e].run # "none" => exec[e].run # "none"
              /\ exec'[e].run = "clearing" => exec[e].run = "clearing"
              /\ ~exec[e].started => exec'[e].result = exec[e].result
    PROVE  OnlyEnds
<1>1. RunsOnlyEnd
  BY DEF RunsOnlyEnd
<1>2. ASSUME NEW q \in Execs, ~queue[q].failed, NEW e \in Items(q),
             Waiting(q) \/ e # queue[q].cell
      PROVE  exec'[e].result = exec[e].result
  <2>1. ~exec[e].started /\ e \in Execs
    BY <1>2, ListedRun DEF QueueInv, HealthyQueuesAreInOrder, QueueIsInOrder
  <2>2. QED
    BY <2>1
<1>3. QueuesOnlyEnd
  BY <1>2 DEF QueuesOnlyEnd
<1>4. QED
  BY <1>1, <1>3 DEF OnlyEnds

LEMMA EndingKeepsRest ==
    ASSUME TypeInv, QueueInv, OnlyEnds
    PROVE  /\ interruptCall' = interruptCall => InterruptedQueuesFailed'
           /\ kernelStatus' = kernelStatus \/ NoMicrotaskDue => LoopSeesLiveKernel'
<1>1. ASSUME interruptCall' = interruptCall PROVE InterruptedQueuesFailed'
  BY <1>1, QueueNames DEF QueueInv, OnlyEnds, QueuesOnlyEnd, InterruptedQueuesFailed, Born
<1>2. ASSUME kernelStatus' = kernelStatus \/ NoMicrotaskDue PROVE LoopSeesLiveKernel'
  <2>1. NoMicrotaskDue => \A q \in Execs : queue[q].loop # "next"
    BY DEF NoMicrotaskDue, LoopDue
  <2>2. QED
    BY <1>2, <2>1 DEF QueueInv, OnlyEnds, QueuesOnlyEnd, LoopSeesLiveKernel
<1>3. QED
  BY <1>1, <1>2

LEMMA EndingKeepsInv ==
    ASSUME TypeInv, TypeInv', QueueInv, OnlyEnds, interruptCall' = interruptCall,
           kernelStatus' = kernelStatus \/ NoMicrotaskDue
    PROVE  QueueInv'
  BY EndingKeepsOrder, EndingKeepsRest DEF QueueInv

(* Nothing of what QueueInv is about changes.                              *)
LEMMA NothingEnds ==
    ASSUME TypeInv, QueueInv, UNCHANGED <<cellVars, queueVars>>
    PROVE  OnlyEnds
  BY RunsEnd DEF cellVars, queueVars

LEMMA AnswersKeepOrder ==
    ASSUME TypeInv, TypeInv', QueueInv, NEW e \in Execs,
           ClearOutputDone(e) \/ KernelReplies(e) \/ RequestRejected(e)
    PROVE  QueueInv'
<1>1. \/ \E hasErrorOutput \in BOOLEAN : CompletedSuccessfully(e, hasErrorOutput)
      \/ CompletedWithErrors(e)
      \/ SendRequest(e)
  BY DEF ClearOutputDone, KernelReplies, RequestRejected
<1>2. /\ nExecs' = nExecs
      /\ \A f \in Execs \ {e} : exec'[f] = exec[f]
      /\ exec'[e].queue = exec[e].queue /\ exec'[e].started = exec[e].started
      /\ exec'[e].result = "pending" => exec[e].result = "pending"
      /\ exec'[e].run \in {"settled", "running"}
  BY <1>1, CompletedRuns
<1>3. exec[e].run # "none" /\ exec[e].started
  BY DEF ClearOutputDone, KernelReplies, RequestRejected, QueueInv, RunsBelongToQueues
<1>4. UNCHANGED <<docQueue, callVars, sessionVars>>
  BY DEF ClearOutputDone, KernelReplies, RequestRejected, queueVars
<1>5. CASE UNCHANGED queueVars
  <2>1. OnlyEnds
    BY <1>2, <1>3, <1>4, <1>5, RunsEnd DEF queueVars
  <2>2. QED
    BY <1>4, <2>1, EndingKeepsInv DEF callVars, sessionVars
<1>6. CASE ClearOutputDone(e)
  <2> DEFINE q == exec[e].queue
  <2>1. q \in Execs /\ queue[q].loop = "awaitStart" /\ queue[q].cell = e /\ e \in Born
    BY <1>6, ClearingRun DEF ClearOutputDone
  <2>2. /\ \A p \in Execs \ {q} : queue'[p] = queue[p]
        /\ queue'[q].failed = queue[q].failed /\ queue'[q].items = queue[q].items
        /\ queue'[q].loop = "awaitResult" /\ queue'[q].cell = queue[q].cell
        /\ queue'[q].session = queue[q].session
    <3> DEFINE t == [queue[q] EXCEPT !.loop = "awaitResult"]
    <3>1. queue[q] \in QueueRec /\ queue' = [queue EXCEPT ![q] = t]
      BY <1>6, <2>1, QueueFields DEF TypeInv, ClearOutputDone
    <3>2. /\ t.failed = queue[q].failed /\ t.items = queue[q].items
          /\ t.loop = "awaitResult" /\ t.cell = queue[q].cell
          /\ t.session = queue[q].session
      BY <3>1, ChangedQueueFields
    <3> HIDE DEF t
    <3>3. (\A p \in Execs \ {q} : queue'[p] = queue[p]) /\ queue'[q] = t
      BY <2>1, <3>1 DEF TypeInv, TypeOK
    <3>4. QED
      BY <3>2, <3>3
  <2>3. \A f \in Execs : (f # e /\ exec[f].run = "clearing") => exec[f].queue # q
    BY <2>1, ClearingRun
  <2>4. RunsOnlyEnd
    <3>1. ASSUME NEW f \in Execs, exec'[f].run = "clearing"
          PROVE  exec[f].run = "clearing" /\ queue'[exec[f].queue].loop = queue[exec[f].queue].loop
      <4>1. f # e /\ exec[f].run = "clearing"
        BY <1>2, <3>1
      <4>2. QED
        BY <2>2, <2>3, <4>1, ClearingRun
    <3>2. QED
      BY <1>2, <1>3, <3>1 DEF RunsOnlyEnd
  <2>5. ASSUME NEW p \in Execs, ~queue[p].failed, NEW f \in Items(p),
               Waiting(p) \/ f # queue[p].cell
        PROVE  exec'[f].result = exec[f].result
    <3>1. ~exec[f].started /\ f \in Execs
      BY <2>5, ListedRun DEF QueueInv, HealthyQueuesAreInOrder, QueueIsInOrder
    <3>2. QED
      BY <1>2, <1>3, <3>1
  <2>6. QueuesOnlyEnd
    BY <2>1, <2>2, <2>5 DEF QueuesOnlyEnd
  <2>7. OnlyEnds
    BY <1>2, <1>4, <2>4, <2>6 DEF OnlyEnds
  <2>8. QED
    BY <1>4, <2>7, EndingKeepsInv DEF callVars, sessionVars
<1>7. QED
  BY <1>5, <1>6 DEF KernelReplies, RequestRejected

LEMMA SessionKeepsOrder ==
    ASSUME TypeInv, TypeInv', QueueInv, NEW s \in Sessions,
           \/ StartKernel(s) \/ SessionStarted(s) \/ SessionFailed(s)
           \/ KernelDies(s) \/ SessionDisposed(s)
    PROVE  QueueInv'
<1>1. /\ UNCHANGED cellVars \/ DoomRequests(RunsOn(s))
      /\ NoMicrotaskDue
      /\ UNCHANGED <<queueVars, callVars>>
  BY DEF StartKernel, SessionStarted, SessionFailed, KernelDies, SessionDisposed
<1>2. CASE UNCHANGED cellVars
  BY <1>1, <1>2, NothingEnds, EndingKeepsInv DEF callVars
<1>3. CASE DoomRequests(RunsOn(s))
  <2>1. OnlyEnds
    BY <1>1, <1>3, DoomedRuns, RunsEnd DEF queueVars
  <2>2. QED
    BY <1>1, <2>1, EndingKeepsInv DEF callVars
<1>4. QED
  BY <1>1, <1>2, <1>3

LEMMA InterruptKeepsOrder ==
    ASSUME TypeInv, TypeInv', QueueInv, NEW i \in Interrupts,
           \/ Interrupt(i) \/ InterruptSessionSettled(i) \/ InterruptCellsSettled(i)
           \/ InterruptSucceeds(i) \/ InterruptGivesUp(i) \/ InterruptShared(i)
    PROVE  QueueInv'
<1> DEFINE q == interruptCall[i].queue
<1>1. UNCHANGED <<docQueue, sessionVars>>
  BY DEF Interrupt, InterruptSessionSettled, InterruptCellsSettled, InterruptSucceeds,
         InterruptGivesUp, InterruptShared, Returns, queueVars
<1>2. interruptCall[i] \in InterruptRec /\ interruptCall \in [Interrupts -> InterruptRec]
  BY DEF TypeInv, TypeOK
<1>3. /\ \A j \in Interrupts \ {i} : interruptCall'[j] = interruptCall[j]
      /\ interruptCall'[i].queue \in {q, docQueue}
      /\ interruptCall'[i].cancelPending => interruptCall'[i].pc # "idle"
  <2>1. \A j \in Interrupts \ {i} : interruptCall'[j] = interruptCall[j]
    BY <1>2 DEF Interrupt, InterruptSessionSettled, InterruptCellsSettled, InterruptSucceeds,
                InterruptGivesUp, InterruptShared, Returns
  <2>2. CASE Interrupt(i)
    BY <1>2, <2>1, <2>2 DEF Interrupt, InterruptRec
  <2>3. CASE InterruptSessionSettled(i)
    BY <1>2, <2>1, <2>3 DEF InterruptSessionSettled, InterruptRec
  <2>4. CASE InterruptCellsSettled(i)
    BY <1>2, <2>1, <2>4 DEF InterruptCellsSettled, InterruptRec
  <2>5. CASE InterruptSucceeds(i) \/ InterruptGivesUp(i) \/ InterruptShared(i)
    BY <1>2, <2>1, <2>5 DEF InterruptSucceeds, InterruptGivesUp, InterruptShared, Returns,
                            InterruptRec
  <2>6. QED
    BY <2>2, <2>3, <2>4, <2>5
<1>4. ASSUME OnlyEnds,
             interruptCall'[i].cancelPending =>
                /\ interruptCall'[i].queue = q
                /\ interruptCall[i].cancelPending \/ (q \in Born /\ queue'[q].failed)
      PROVE  QueueInv'
  <2>1. /\ q \in 0..nExecs /\ docQueue \in 0..nExecs
        /\ interruptCall[i].cancelPending => q \in Born /\ queue[q].failed
    BY DEF QueueInv, InterruptedQueuesFailed, RunsBelongToQueues
  <2>2. Born' = Born /\ nExecs' = nExecs /\ Born \subseteq Execs
    BY <1>4, QueueNames DEF OnlyEnds, Born
  <2>3. \A p \in Execs : queue[p].failed => queue'[p].failed
    BY <1>4 DEF OnlyEnds, QueuesOnlyEnd
  <2>4. ASSUME NEW j \in Interrupts
        PROVE  /\ interruptCall'[j].queue \in 0..nExecs
               /\ interruptCall'[j].cancelPending =>
                     /\ interruptCall'[j].pc # "idle"
                     /\ interruptCall'[j].queue \in Born
                     /\ queue'[interruptCall'[j].queue].failed
    <3>1. CASE j = i
      BY <1>3, <1>4, <2>1, <2>2, <2>3, <3>1
    <3>2. CASE j # i
      BY <1>3, <2>2, <2>3, <3>2 DEF QueueInv, InterruptedQueuesFailed
    <3>3. QED
      BY <3>1, <3>2
  <2>5. InterruptedQueuesFailed'
    BY <2>2, <2>4 DEF InterruptedQueuesFailed
  <2>6. QED
    BY <1>1, <1>4, <2>5, EndingKeepsOrder, EndingKeepsRest DEF QueueInv, sessionVars
<1>5. CASE Interrupt(i)
  <2>1. OnlyEnds
    BY <1>5, NothingEnds DEF Interrupt
  <2>2. ~interruptCall[i].cancelPending
    BY <1>5 DEF Interrupt, QueueInv, InterruptedQueuesFailed
  <2>3. ~interruptCall'[i].cancelPending
    BY <1>2, <1>5, <2>2 DEF Interrupt, InterruptRec
  <2>4. QED
    BY <1>4, <2>1, <2>3
<1>6. CASE InterruptSessionSettled(i)
  <2>1. q \in Execs /\ q \in Born
    BY <1>6 DEF InterruptSessionSettled, TypeInv, InterruptsHaveQueue, QueueInv,
                InterruptedQueuesFailed, Born, Execs, None, TypeOK, CellTypeOK
  <2>2. /\ \A p \in Execs \ {q} : queue'[p] = queue[p]
        /\ queue'[q].failed /\ queue'[q].items = queue[q].items
        /\ queue'[q].loop = queue[q].loop /\ queue'[q].cell = queue[q].cell
        /\ queue'[q].session = queue[q].session
    <3> DEFINE t == [queue[q] EXCEPT !.failed = TRUE]
    <3>1. queue[q] \in QueueRec /\ queue' = [queue EXCEPT ![q] = t]
      BY <1>6, <2>1, QueueFields DEF TypeInv, InterruptSessionSettled
    <3>2. /\ t.failed /\ t.items = queue[q].items /\ t.loop = queue[q].loop
          /\ t.cell = queue[q].cell /\ t.session = queue[q].session
      BY <3>1, ChangedQueueFields
    <3> HIDE DEF t
    <3>3. (\A p \in Execs \ {q} : queue'[p] = queue[p]) /\ queue'[q] = t
      BY <2>1, <3>1 DEF TypeInv, TypeOK
    <3>4. QED
      BY <3>2, <3>3
  <2>3. CancelExecs(Cancellable(queue[q].items, FALSE))
    BY <1>6 DEF InterruptSessionSettled
  <2>4. Members(queue[q].items) \subseteq Items(q)
    BY DEF Items
  <2> HIDE DEF q
  <2>5. OnlyEnds
    BY <1>1, <2>1, <2>2, <2>3, <2>4, CancelEnds
  <2>6. QED
    <3>1. interruptCall'[i].queue = q
      BY <1>2, <1>6 DEF InterruptSessionSettled, InterruptRec, q
    <3>2. QED
      BY <1>4, <2>1, <2>2, <2>5, <3>1 DEF q
<1>7. CASE InterruptCellsSettled(i)
  <2>1. q \in Execs /\ q \in Born /\ queue[q].failed
    BY <1>7, QueueNames DEF InterruptCellsSettled, CellsSettled, QueueInv,
                            InterruptedQueuesFailed
  <2>2. /\ \A p \in Execs \ {q} : queue'[p] = queue[p]
        /\ queue'[q].failed /\ queue'[q].items = <<>>
        /\ queue'[q].loop = queue[q].loop /\ queue'[q].cell = queue[q].cell
        /\ queue'[q].session = queue[q].session
    <3> DEFINE t == [queue[q] EXCEPT !.items = <<>>]
    <3>1. queue[q] \in QueueRec /\ queue' = [queue EXCEPT ![q] = t]
      BY <1>7, <2>1, QueueFields DEF TypeInv, InterruptCellsSettled
    <3>2. /\ t.failed = queue[q].failed /\ t.items = <<>> /\ t.loop = queue[q].loop
          /\ t.cell = queue[q].cell /\ t.session = queue[q].session
      BY <3>1, ChangedQueueFields
    <3> HIDE DEF t
    <3>3. (\A p \in Execs \ {q} : queue'[p] = queue[p]) /\ queue'[q] = t
      BY <2>1, <3>1 DEF TypeInv, TypeOK
    <3>4. QED
      BY <2>1, <3>2, <3>3
  <2>3. UNCHANGED cellVars
    BY <1>7 DEF InterruptCellsSettled
  <2> HIDE DEF q
  <2>4. RunsOnlyEnd
    BY <2>1, <2>2, <2>3, ClearingRun DEF RunsOnlyEnd, cellVars
  <2>5. QueuesOnlyEnd
    BY <2>1, <2>2, <2>3 DEF QueuesOnlyEnd, cellVars
  <2>6. OnlyEnds
    BY <1>1, <2>3, <2>4, <2>5 DEF OnlyEnds, cellVars
  <2>7. ~interruptCall'[i].cancelPending
    BY <1>2, <1>7 DEF InterruptCellsSettled, InterruptRec
  <2>8. QED
    BY <1>4, <2>6, <2>7
<1>8. CASE InterruptSucceeds(i) \/ InterruptGivesUp(i) \/ InterruptShared(i)
  <2>1. OnlyEnds
    BY <1>8, NothingEnds DEF InterruptSucceeds, InterruptGivesUp, InterruptShared, Returns
  <2>2. /\ interruptCall'[i].queue = q
        /\ interruptCall'[i].cancelPending = interruptCall[i].cancelPending
    BY <1>2, <1>8 DEF InterruptSucceeds, InterruptGivesUp, InterruptShared, Returns,
                      InterruptRec
  <2>3. QED
    BY <1>4, <2>1, <2>2
<1>9. QED
  BY <1>5, <1>6, <1>7, <1>8

LEMMA RestartKeepsOrder ==
    ASSUME TypeInv, TypeInv', QueueInv, NEW r \in Restarts,
           \/ Restart(r) \/ RestartSessionSettled(r) \/ RestartSucceeds(r) \/ RestartFails(r)
    PROVE  QueueInv'
<1>1. CASE Restart(r)
  <2>1. OnlyEnds
    BY <1>1, NothingEnds DEF Restart
  <2>2. QED
    BY <1>1, <2>1, EndingKeepsInv DEF Restart, sessionVars
<1>2. CASE RestartSessionSettled(r)
  <2> DEFINE q == restartCall[r].queue
  <2>1. UNCHANGED <<docQueue, interruptCall, sessionVars>>
    BY <1>2 DEF RestartSessionSettled
  <2>2. CASE q = None
    <3>1. OnlyEnds
      BY <1>2, <2>1, <2>2, NothingEnds DEF RestartSessionSettled, queueVars
    <3>2. QED
      BY <2>1, <3>1, EndingKeepsInv DEF sessionVars
  <2>3. CASE q # None
    <3>1. q \in Execs
      BY <2>3 DEF TypeInv, TypeOK, RestartRec, Execs, None
    <3>2. /\ \A p \in Execs \ {q} : queue'[p] = queue[p]
          /\ queue'[q].failed /\ queue'[q].items = <<>>
          /\ queue'[q].loop = queue[q].loop /\ queue'[q].cell = queue[q].cell
          /\ queue'[q].session = queue[q].session
      <4> DEFINE t == [queue[q] EXCEPT !.failed = TRUE, !.items = <<>>]
      <4>1. queue[q] \in QueueRec /\ queue' = [queue EXCEPT ![q] = t]
        BY <1>2, <2>3, <3>1, QueueFields DEF TypeInv, RestartSessionSettled
      <4>2. /\ t.failed /\ t.items = <<>> /\ t.loop = queue[q].loop
            /\ t.cell = queue[q].cell /\ t.session = queue[q].session
        BY <4>1, ChangedQueueFields
      <4> HIDE DEF t
      <4>3. (\A p \in Execs \ {q} : queue'[p] = queue[p]) /\ queue'[q] = t
        BY <3>1, <4>1 DEF TypeInv, TypeOK
      <4>4. QED
        BY <4>2, <4>3
    <3>3. CancelExecs(Cancellable(queue[q].items, TRUE))
      BY <1>2, <2>3 DEF RestartSessionSettled
    <3>4. Members(queue[q].items) \subseteq Items(q)
      BY DEF Items
    <3> HIDE DEF q
    <3>5. OnlyEnds
      BY <2>1, <3>1, <3>2, <3>3, <3>4, CancelEnds
    <3>6. QED
      BY <2>1, <3>5, EndingKeepsInv DEF sessionVars
  <2>4. QED
    BY <2>2, <2>3
<1>3. CASE RestartSucceeds(r) \/ RestartFails(r)
  <2>1. /\ NoMicrotaskDue /\ DoomRequests(RunsOn(restartCall[r].session))
        /\ UNCHANGED <<queueVars, interruptCall>>
    BY <1>3 DEF RestartSucceeds, RestartFails, RestartSettles
  <2>2. OnlyEnds
    BY <2>1, DoomedRuns, RunsEnd DEF queueVars
  <2>3. QED
    BY <2>1, <2>2, EndingKeepsInv
<1>4. QED
  BY <1>1, <1>2, <1>3

LEMMA CloseCellKeepsOrder ==
    ASSUME TypeInv, TypeInv', QueueInv, NEW c \in Cells, CloseCell(c)
    PROVE  QueueInv'
<1> DEFINE D == {c}
           C == {}
<1>1. /\ CloseAndCancel(D, C) /\ UNCHANGED <<queueVars, callVars, sessionVars>>
      /\ D \in SUBSET Cells /\ \A e \in Execs : e \notin C
  BY DEF CloseCell
<1> HIDE DEF D, C
<1>2. /\ nExecs' = nExecs
      /\ \A e \in Execs :
            /\ exec'[e].queue = exec[e].queue /\ exec'[e].started = exec[e].started
            /\ exec'[e].result = "pending" => exec[e].result = "pending"
            /\ exec'[e].run = exec[e].run
                  \/ (exec[e].run # "none" /\ exec'[e].run = "doomed")
            /\ ~exec[e].started => exec'[e].result = exec[e].result
  BY <1>1, ClosedRuns
<1>3. OnlyEnds
  BY <1>1, <1>2, RunsEnd DEF queueVars
<1>4. QED
  BY <1>1, <1>3, EndingKeepsInv DEF callVars, sessionVars

LEMMA CloseNotebookKeepsOrder ==
    ASSUME TypeInv, TypeInv', QueueInv, CloseNotebook
    PROVE  QueueInv'
<1> DEFINE Q == {q \in Queues : ~queue[q].failed \/ queue[q].items # <<>>}
           C == UNION {Cancellable(queue[q].items, TRUE) : q \in Q}
<1>1. /\ CloseAndCancel(Cells, C)
      /\ queue' = [q \in Execs |->
            IF q \in Q THEN [queue[q] EXCEPT !.failed = TRUE, !.items = <<>>] ELSE queue[q]]
      /\ UNCHANGED <<docQueue, callVars, sessionVars>>
  BY DEF CloseNotebook
<1>2. /\ nExecs' = nExecs
      /\ \A e \in Execs :
            /\ exec'[e].queue = exec[e].queue /\ exec'[e].started = exec[e].started
            /\ exec'[e].result = "pending" => exec[e].result = "pending"
            /\ exec'[e].run = exec[e].run
                  \/ (exec[e].run # "none" /\ exec'[e].run = "doomed")
            /\ (~exec[e].started /\ e \notin C) => exec'[e].result = exec[e].result
  <2> HIDE DEF C
  <2> QED BY <1>1, ClosedRuns
<1>3. ASSUME NEW q \in Execs
      PROVE  /\ queue'[q].loop = queue[q].loop /\ queue'[q].cell = queue[q].cell
             /\ queue'[q].session = queue[q].session
             /\ \/ queue'[q].failed /\ queue'[q].items = <<>>
                \/ queue'[q].failed = queue[q].failed /\ queue'[q].items = queue[q].items
             /\ queue[q].failed => queue'[q].failed
             /\ queue[q].loop # "none" => queue'[q].failed
  <2> DEFINE t == [queue[q] EXCEPT !.failed = TRUE, !.items = <<>>]
  <2>1. /\ t.failed /\ t.items = <<>> /\ t.loop = queue[q].loop
        /\ t.cell = queue[q].cell /\ t.session = queue[q].session
    BY QueueFields, ChangedQueueFields DEF TypeInv
  <2>2. queue'[q] = IF q \in Q THEN t ELSE queue[q]
    BY <1>1
  <2>3. q \notin Q => queue[q].failed \/ queue[q].loop = "none"
    BY DEF Queues
  <2> HIDE DEF t, Q
  <2>4. QED
    BY <2>1, <2>2, <2>3
<1>4. RunsOnlyEnd
  <2>1. ASSUME NEW e \in Execs, exec[e].run = "clearing"
        PROVE  queue'[exec[e].queue].loop = queue[exec[e].queue].loop
    BY <1>3, <2>1, ClearingRun
  <2>2. QED
    BY <1>2, <2>1 DEF RunsOnlyEnd
<1>5. ASSUME NEW q \in Execs, ~queue'[q].failed, NEW e \in Items(q)
      PROVE  FALSE
  <2>1. queue[q].loop = "none"
    BY <1>3, <1>5
  <2>2. QED
    BY <2>1, ListedRun DEF QueueInv, RunsBelongToQueues
<1>6. QueuesOnlyEnd
  BY <1>3, <1>5 DEF QueuesOnlyEnd
<1>7. OnlyEnds
  BY <1>1, <1>2, <1>4, <1>6 DEF OnlyEnds
<1>8. QED
  BY <1>1, <1>7, EndingKeepsInv DEF callVars, sessionVars

-----------------------------------------------------------------------------
(* The steps of a loop.  They leave the other queues and their runs alone. *)
LEMMA OtherQueue ==
    ASSUME TypeInv, QueueInv, NEW p \in Execs, ~queue[p].failed, queue'[p] = queue[p],
           \A e \in Born' : exec'[e].queue = p =>
              /\ e \in Born /\ exec[e].queue = p
              /\ exec'[e].started = exec[e].started /\ exec'[e].result = exec[e].result,
           \A e \in Items(p) : exec'[e].queue = p /\ e \in Born'
    PROVE  QueueIsInOrder(p)'
<1>1. QueueIsInOrder(p) /\ Items(p)' = Items(p) /\ (Waiting(p)' <=> Waiting(p))
  BY DEF QueueInv, HealthyQueuesAreInOrder, Items, Members, Waiting
<1>2. \A i, j \in DOMAIN queue'[p].items : i < j => queue'[p].items[i] < queue'[p].items[j]
  BY <1>1 DEF QueueIsInOrder
<1>3. \A e \in Born' : (Unresolved(e)' /\ exec'[e].queue = p) => e \in Items(p)'
  BY <1>1 DEF QueueIsInOrder, Unresolved
<1>4. \A e \in Items(p)' : (Waiting(p)' \/ e # queue'[p].cell) =>
            ~exec'[e].started /\ exec'[e].result = "pending"
  BY <1>1 DEF QueueIsInOrder
<1>5. queue'[p].loop \in {"awaitStart", "awaitResult"} =>
            queue'[p].items # <<>> /\ Head(queue'[p].items) = queue'[p].cell
  BY <1>1 DEF QueueIsInOrder
<1>6. QED
  BY <1>2, <1>3, <1>4, <1>5 DEF QueueIsInOrder

(* Between two cells nothing of the queue is under way.                    *)
LEMMA NothingUnderWay ==
    ASSUME TypeInv, QueueInv, NEW q \in Execs, Waiting(q), NEW e \in Born,
           exec[e].queue = q
    PROVE  /\ Unresolved(e) => ~exec[e].started
           /\ exec[e].run # "clearing"
  BY QueueNames DEF QueueInv, StartedRunIsCurrent, Waiting

(* The first of a sorted list is its least member, and the rest is sorted.  *)
LEMMA FirstOfSorted ==
    ASSUME NEW s \in Seq(Execs), s # <<>>,
           \A i, j \in DOMAIN s : i < j => s[i] < s[j]
    PROVE  /\ Head(s) \in Members(s)
           /\ \A e \in Members(s) : e # Head(s) => e > Head(s) /\ e \in Members(Tail(s))
           /\ Head(s) \notin Members(Tail(s))
           /\ \A i, j \in DOMAIN Tail(s) : i < j => Tail(s)[i] < Tail(s)[j]
<1>1. /\ Len(s) \in Nat /\ Len(s) > 0 /\ DOMAIN s = 1..Len(s) /\ Head(s) = s[1]
  OBVIOUS
<1>2. /\ Tail(s) \in Seq(Execs) /\ Len(Tail(s)) = Len(s) - 1
      /\ \A i \in 1..Len(Tail(s)) : Tail(s)[i] = s[i + 1]
  BY HeadTailProperties
<1>3. DOMAIN Tail(s) = 1..(Len(s) - 1)
  BY <1>2
<1>4. \A i \in DOMAIN s : s[i] \in Nat
  BY <1>1 DEF Execs
<1>5. Head(s) \in Members(s)
  BY <1>1 DEF Members
<1>6. \A i \in DOMAIN Tail(s) :
         i \in Nat /\ i + 1 \in DOMAIN s /\ 1 \in DOMAIN s /\ Head(s) < Tail(s)[i]
  <2>1. TAKE i \in DOMAIN Tail(s)
  <2>2. i \in Nat /\ i >= 1 /\ i + 1 \in DOMAIN s /\ 1 \in DOMAIN s
    BY <1>1, <1>3
  <2>3. s[1] < s[i + 1]
    BY <2>2
  <2>4. Tail(s)[i] = s[i + 1]
    BY <1>2, <1>3
  <2>5. QED
    BY <1>1, <2>2, <2>3, <2>4
<1>7. Head(s) \notin Members(Tail(s))
  <2>1. ASSUME NEW i \in DOMAIN Tail(s), Tail(s)[i] = Head(s) PROVE FALSE
    BY <1>1, <1>4, <1>6, <2>1
  <2>2. QED
    BY <2>1 DEF Members
<1>8. ASSUME NEW e \in Members(s), e # Head(s)
      PROVE  e > Head(s) /\ e \in Members(Tail(s))
  <2>1. PICK i \in DOMAIN s : e = s[i]
    BY DEF Members
  <2>2. i \in Nat /\ i > 1
    BY <1>1, <1>8, <2>1
  <2>3. i - 1 \in DOMAIN Tail(s) /\ (i - 1) + 1 = i
    BY <1>1, <1>3, <2>2
  <2>4. Tail(s)[i - 1] = e
    BY <1>2, <1>3, <2>1, <2>3
  <2>5. e > Head(s)
    BY <1>1, <1>4, <1>6, <2>1, <2>3, <2>4
  <2>6. QED
    BY <2>3, <2>4, <2>5 DEF Members
<1>9. \A i, j \in DOMAIN Tail(s) : i < j => Tail(s)[i] < Tail(s)[j]
  <2>1. TAKE i, j \in DOMAIN Tail(s)
  <2>2. HAVE i < j
  <2>3. i + 1 < j + 1 /\ i + 1 \in DOMAIN s /\ j + 1 \in DOMAIN s
    BY <1>1, <1>3, <2>2
  <2>4. Tail(s)[i] = s[i + 1] /\ Tail(s)[j] = s[j + 1]
    BY <1>2, <1>3
  <2>5. QED
    BY <2>3, <2>4
<1>10. QED
  BY <1>5, <1>7, <1>8, <1>9

(* The first of a list is the oldest.                                      *)
LEMMA FirstIsOldest ==
    ASSUME TypeInv, QueueInv, NEW q \in Execs, ~queue[q].failed, queue[q].items # <<>>
    PROVE  /\ Head(queue[q].items) \in Items(q)
           /\ \A e \in Items(q) : e # Head(queue[q].items) =>
                 e > Head(queue[q].items) /\ e \in Members(Tail(queue[q].items))
           /\ Head(queue[q].items) \notin Members(Tail(queue[q].items))
           /\ \A i, j \in DOMAIN Tail(queue[q].items) :
                 i < j => Tail(queue[q].items)[i] < Tail(queue[q].items)[j]
<1> DEFINE s == queue[q].items
<1>1. s \in Seq(Execs) /\ s # <<>>
  BY QueueFields DEF TypeInv
<1>2. \A i, j \in DOMAIN s : i < j => s[i] < s[j]
  BY DEF QueueInv, HealthyQueuesAreInOrder, QueueIsInOrder
<1> HIDE DEF s
<1>3. QED
  BY <1>1, <1>2, FirstOfSorted DEF s, Items

(* A step of the loop of queue q, told by what it does to that queue.      *)
LEMMA LoopMoves ==
    ASSUME TypeInv, TypeInv', QueueInv, NEW q \in Execs, queue[q].loop # "none",
           nExecs' = nExecs, docQueue' = docQueue, interruptCall' = interruptCall,
           kernelStatus' = kernelStatus,
           \A p \in Execs \ {q} : queue'[p] = queue[p],
           queue'[q].session = queue[q].session,
           queue'[q].loop \notin {"none", "awaitSession"},
           queue[q].failed => queue'[q].failed,
           Items(q)' \subseteq Items(q),
           \A e \in Execs :
              /\ exec'[e].queue = exec[e].queue
              /\ exec'[e].started => e \in Born
              /\ exec'[e].run # "none" => exec'[e].started,
           \A e \in Born : exec[e].queue # q => exec'[e] = exec[e],
           \A e \in Born : exec[e].queue = q =>
              /\ (Unresolved(e)' /\ exec'[e].started) =>
                    queue'[q].cell = e /\ ~Waiting(q)'
              /\ exec'[e].run = "clearing" =>
                    queue'[q].cell = e /\ queue'[q].loop = "awaitStart",
           queue'[q].failed \/ QueueIsInOrder(q)',
           (queue'[q].loop = "next" /\ queue'[q].cell # None) =>
              kernelStatus[queue[q].session] = "ok"
    PROVE  QueueInv'
<1>1. Born' = Born /\ Born \subseteq Execs /\ queue[q].session # None
  BY QueueNames DEF Born, QueueInv, LoopSeesLiveKernel
<1>2. RunsBelongToQueues'
  <2>1. \A e \in Born' : exec'[e].queue \in Born' /\ queue'[exec'[e].queue].loop # "none"
    BY <1>1 DEF QueueInv, RunsBelongToQueues
  <2>2. \A p \in Execs : Items(p)' \subseteq Items(p)
    BY DEF Items, Members
  <2>3. \A p \in Execs : \A e \in Items(p)' : e \in Born' /\ exec'[e].queue = p
    BY <1>1, <2>2 DEF QueueInv, RunsBelongToQueues
  <2>4. QED
    BY <1>1, <2>1, <2>3 DEF QueueInv, RunsBelongToQueues
<1>3. StartedRunIsCurrent'
  <2> SUFFICES ASSUME NEW e \in Born
               PROVE  /\ (Unresolved(e)' /\ exec'[e].started) =>
                            queue'[exec'[e].queue].cell = e /\ ~Waiting(exec[e].queue)'
                      /\ exec'[e].run = "clearing" =>
                            /\ queue'[exec'[e].queue].cell = e
                            /\ queue'[exec'[e].queue].loop = "awaitStart"
    BY <1>1 DEF StartedRunIsCurrent, Waiting
  <2>1. CASE exec[e].queue = q
    BY <1>1, <2>1
  <2>2. CASE exec[e].queue # q
    <3>1. exec'[e] = exec[e] /\ exec[e].queue \in Execs \ {q}
      BY <1>1, <2>2 DEF QueueInv, RunsBelongToQueues
    <3>2. QED
      BY <1>1, <3>1 DEF QueueInv, StartedRunIsCurrent, Unresolved, Waiting
  <2>3. QED
    BY <2>1, <2>2
<1>4. HealthyQueuesAreInOrder'
  <2>1. ASSUME NEW p \in Execs \ {q}, ~queue'[p].failed
        PROVE  QueueIsInOrder(p)'
    <3>1. \A e \in Born : exec[e].queue = p => exec'[e] = exec[e]
      OBVIOUS
    <3>2. \A e \in Items(p) : e \in Born /\ exec[e].queue = p /\ exec'[e] = exec[e]
      BY ListedRun
    <3>3. QED
      BY <1>1, <2>1, <3>1, <3>2, OtherQueue
  <2>2. QED
    BY <2>1 DEF HealthyQueuesAreInOrder
<1>5. InterruptedQueuesFailed'
  BY <1>1 DEF QueueInv, InterruptedQueuesFailed
<1>6. LoopSeesLiveKernel'
  BY <1>1 DEF QueueInv, LoopSeesLiveKernel
<1>7. QED
  BY <1>2, <1>3, <1>4, <1>5, <1>6 DEF QueueInv

(* The loop begins a turn: the session is there, or a cell has a result.   *)
LEMMA NextTurn ==
    ASSUME TypeInv, TypeInv', QueueInv, NEW q \in Execs, UNCHANGED cellVars,
           queue[q].loop \in {"awaitSession", "awaitResult"},
           docQueue' = docQueue, interruptCall' = interruptCall,
           kernelStatus' = kernelStatus, ~queue[q].failed \/ queue'[q].failed,
           \A p \in Execs \ {q} : queue'[p] = queue[p],
           queue'[q].session = queue[q].session, queue'[q].cell = queue[q].cell,
           queue'[q].loop = "next", queue'[q].failed = queue[q].failed,
           queue[q].loop = "awaitSession" => queue'[q].items = queue[q].items,
           queue[q].loop = "awaitResult" =>
              /\ ~queue[q].failed /\ Resolved({queue[q].cell})
              /\ queue'[q].items = Tail(queue[q].items)
              /\ kernelStatus[queue[q].session] = "ok"
    PROVE  QueueInv'
<1> DEFINE s == queue[q].items
<1>1. /\ nExecs' = nExecs /\ exec' = exec /\ Born' = Born /\ Born \subseteq Execs
  BY QueueNames DEF cellVars, Born
<1>2. ASSUME NEW e \in Born, exec[e].queue = q
      PROVE  ~(Unresolved(e) /\ exec[e].started) /\ exec[e].run # "clearing"
  BY <1>1, <1>2 DEF QueueInv, StartedRunIsCurrent, Waiting, Resolved, Unresolved
<1>3. (queue[q].loop = "awaitResult") => s # <<>> /\ Head(s) = queue[q].cell
  BY DEF QueueInv, HealthyQueuesAreInOrder, QueueIsInOrder
<1>4. Items(q)' \subseteq Items(q)
  <2>1. CASE queue[q].loop = "awaitSession"
    BY <2>1 DEF Items, Members
  <2>2. CASE queue[q].loop = "awaitResult"
    BY <1>3, <2>2, RestOfList DEF Items
  <2>3. QED
    BY <2>1, <2>2
<1>5. ASSUME ~queue[q].failed PROVE QueueIsInOrder(q)'
  <2>1. QueueIsInOrder(q)
    BY <1>5 DEF QueueInv, HealthyQueuesAreInOrder
  <2>2. CASE queue[q].loop = "awaitSession"
    <3>1. Items(q)' = Items(q) /\ queue'[q].items = queue[q].items
      BY <2>2 DEF Items, Members
    <3>2. QED
      BY <1>1, <2>1, <2>2, <3>1 DEF QueueIsInOrder, Waiting, Unresolved
  <2>3. CASE queue[q].loop = "awaitResult"
    <3>1. /\ \A e \in Items(q) : e # Head(s) => e \in Members(Tail(s))
          /\ Head(s) \notin Members(Tail(s))
          /\ \A i, j \in DOMAIN Tail(s) : i < j => Tail(s)[i] < Tail(s)[j]
      BY <1>3, <1>5, <2>3, FirstIsOldest
    <3>2. queue'[q].items = Tail(s) /\ Items(q)' = Members(Tail(s))
      BY <2>3 DEF Items, Members
    <3>3. \A e \in Born : Unresolved(e) => e # Head(s)
      BY <1>3, <2>3 DEF Resolved, Unresolved
    <3>4. \A e \in Born' : (Unresolved(e)' /\ exec'[e].queue = q) => e \in Items(q)'
      BY <1>1, <2>1, <3>1, <3>2, <3>3 DEF QueueIsInOrder, Unresolved
    <3>5. \A e \in Items(q)' : ~exec'[e].started /\ exec'[e].result = "pending"
      BY <1>1, <1>3, <1>4, <2>1, <2>3, <3>1, <3>2 DEF QueueIsInOrder
    <3>6. \A i, j \in DOMAIN queue'[q].items :
             i < j => queue'[q].items[i] < queue'[q].items[j]
      BY <3>1, <3>2
    <3>7. QED
      BY <3>4, <3>5, <3>6 DEF QueueIsInOrder
  <2>4. QED
    BY <2>2, <2>3
<1>6. (queue'[q].loop = "next" /\ queue'[q].cell # None) =>
         kernelStatus[queue[q].session] = "ok"
  BY DEF QueueInv, LoopSeesLiveKernel
<1>7. \A e \in Execs : exec[e].started => e \in Born
  BY DEF QueueInv, RunsBelongToQueues
<1>8. \A e \in Execs : exec[e].run # "none" => exec[e].started
  BY DEF QueueInv, RunsBelongToQueues
<1>9. \A e \in Born : exec[e].queue = q =>
         ~(Unresolved(e)' /\ exec'[e].started) /\ exec'[e].run # "clearing"
  BY <1>1, <1>2 DEF Unresolved
<1>10. QED
  BY <1>1, <1>4, <1>5, <1>6, <1>7, <1>8, <1>9, LoopMoves

LEMMA LoopSessionKeepsOrder ==
    ASSUME TypeInv, TypeInv', QueueInv, NEW q \in Execs, LoopSessionSettled(q)
    PROVE  QueueInv'
<1>1. /\ queue[q].loop = "awaitSession"
      /\ UNCHANGED <<docQueue, callVars, sessionVars>>
  BY DEF LoopSessionSettled
<1>2. CASE CancelQueue(q, queue[q].items)
  <2>1. OnlyEnds
    BY <1>1, <1>2, CancelQueueEnds DEF Items
  <2>2. QED
    BY <1>1, <2>1, EndingKeepsInv DEF callVars, sessionVars
<1>3. CASE queue' = [queue EXCEPT ![q].loop = "next"] /\ UNCHANGED cellVars
  <2> DEFINE t == [queue[q] EXCEPT !.loop = "next"]
  <2>1. queue[q] \in QueueRec /\ queue' = [queue EXCEPT ![q] = t]
    BY <1>3, QueueFields DEF TypeInv
  <2>2. /\ t.failed = queue[q].failed /\ t.items = queue[q].items /\ t.loop = "next"
        /\ t.cell = queue[q].cell /\ t.session = queue[q].session
    BY <2>1, ChangedQueueFields
  <2> HIDE DEF t
  <2>3. (\A p \in Execs \ {q} : queue'[p] = queue[p]) /\ queue'[q] = t
    BY <2>1 DEF TypeInv, TypeOK
  <2>4. QED
    BY <1>1, <1>3, <2>2, <2>3, NextTurn DEF callVars, sessionVars
<1>4. QED
  BY <1>2, <1>3 DEF LoopSessionSettled

LEMMA LoopResultKeepsOrder ==
    ASSUME TypeInv, TypeInv', QueueInv, NEW q \in Execs, LoopResultSettled(q)
    PROVE  QueueInv'
<1> DEFINE e == queue[q].cell
           s == queue[q].items
           rest == IF s # <<>> /\ Head(s) = e THEN Tail(s) ELSE s
           stop == \/ queue[q].failed
                   \/ exec[e].result = "Error"
                   \/ kernelStatus[queue[q].session] \in {"dead", "disposed"}
<1>1. /\ queue[q].loop = "awaitResult" /\ Resolved({e})
      /\ UNCHANGED <<docQueue, callVars, sessionVars>>
  BY DEF LoopResultSettled
<1>2. CASE CancelQueue(q, rest)
  <2>1. Members(rest) \subseteq Items(q)
    BY RestOfList DEF Items
  <2>2. OnlyEnds
    BY <1>1, <1>2, <2>1, CancelQueueEnds
  <2>3. QED
    BY <1>1, <2>2, EndingKeepsInv DEF callVars, sessionVars
<1>3. CASE /\ ~stop
           /\ queue' = [queue EXCEPT ![q].items = rest, ![q].loop = "next"]
           /\ UNCHANGED cellVars
  <2> DEFINE t == [queue[q] EXCEPT !.items = rest, !.loop = "next"]
  <2>1. queue[q] \in QueueRec /\ queue' = [queue EXCEPT ![q] = t]
    BY <1>3, QueueFields DEF TypeInv
  <2>2. /\ t.failed = queue[q].failed /\ t.items = rest /\ t.loop = "next"
        /\ t.cell = queue[q].cell /\ t.session = queue[q].session
    BY <2>1, ChangedQueueFields
  <2> HIDE DEF t
  <2>3. (\A p \in Execs \ {q} : queue'[p] = queue[p]) /\ queue'[q] = t
    BY <2>1 DEF TypeInv, TypeOK
  <2>4. s # <<>> /\ Head(s) = e /\ rest = Tail(s)
    BY <1>1, <1>3 DEF QueueInv, HealthyQueuesAreInOrder, QueueIsInOrder
  <2>5. kernelStatus[queue[q].session] = "ok"
    <3>1. queue[q].session \in Sessions
      BY <1>1, QueueFields DEF QueueInv, LoopSeesLiveKernel, TypeInv, QueueRec, Sessions, None
    <3>2. kernelStatus[queue[q].session] \in {"ok", "dead", "disposed"}
      BY <3>1 DEF TypeInv, TypeOK
    <3>3. QED
      BY <1>3, <3>2
  <2> HIDE DEF rest
  <2>6. QED
    BY <1>1, <1>3, <2>2, <2>3, <2>4, <2>5, NextTurn DEF callVars, sessionVars
<1>4. QED
  BY <1>2, <1>3 DEF LoopResultSettled

(* A cell is started: it is the first of the list.                         *)
LEMMA StartKeepsOrder ==
    ASSUME TypeInv, TypeInv', QueueInv, NEW q \in Execs, NEW l \in {"awaitStart", "awaitResult"},
           queue[q].loop = "next", queue[q].items # <<>>, ~queue[q].failed,
           queue' = [queue EXCEPT ![q].loop = l, ![q].cell = Head(queue[q].items)],
           UNCHANGED <<docQueue, callVars, sessionVars>>,
           nExecs' = nExecs,
           \A f \in Execs : f # Head(queue[q].items) => exec'[f] = exec[f],
           exec'[Head(queue[q].items)].queue = exec[Head(queue[q].items)].queue,
           exec'[Head(queue[q].items)].run # "none" => exec'[Head(queue[q].items)].started,
           exec'[Head(queue[q].items)].run = "clearing" => l = "awaitStart"
    PROVE  QueueInv'
<1> DEFINE e == Head(queue[q].items)
           t == [queue[q] EXCEPT !.loop = l, !.cell = e]
<1>1. queue[q] \in QueueRec /\ queue' = [queue EXCEPT ![q] = t]
  BY QueueFields DEF TypeInv
<1>2. /\ t.failed = queue[q].failed /\ t.items = queue[q].items /\ t.loop = l
      /\ t.cell = e /\ t.session = queue[q].session
  BY <1>1, ChangedQueueFields
<1> HIDE DEF t
<1>3. (\A p \in Execs \ {q} : queue'[p] = queue[p]) /\ queue'[q] = t
  BY <1>1 DEF TypeInv, TypeOK
<1>4. e \in Items(q) /\ e \in Born /\ exec[e].queue = q
  BY FirstIsOldest, ListedRun
<1>5. Items(q)' = Items(q) /\ Born' = Born /\ Born \subseteq Execs
  BY <1>2, <1>3, QueueNames DEF Items, Members, Born
<1>6. \A f \in Born : exec[f].queue = q /\ f # e =>
         ~(Unresolved(f)' /\ exec'[f].started) /\ exec'[f].run # "clearing"
  BY <1>5, NothingUnderWay DEF Waiting, Unresolved
<1>7. QueueIsInOrder(q) /\ ~Waiting(q)' /\ Waiting(q)
  BY <1>2, <1>3 DEF QueueInv, HealthyQueuesAreInOrder, Waiting
<1>8. QueueIsInOrder(q)'
  <2>1. \A i, j \in DOMAIN queue'[q].items : i < j => queue'[q].items[i] < queue'[q].items[j]
    BY <1>2, <1>3, <1>7 DEF QueueIsInOrder
  <2>2. \A f \in Born' : (Unresolved(f)' /\ exec'[f].queue = q) => f \in Items(q)'
    BY <1>4, <1>5, <1>7 DEF QueueIsInOrder, Unresolved
  <2>3. \A f \in Items(q)' : (Waiting(q)' \/ f # queue'[q].cell) =>
           ~exec'[f].started /\ exec'[f].result = "pending"
    BY <1>2, <1>3, <1>5, <1>7, QueueNames DEF QueueIsInOrder
  <2>4. queue'[q].items # <<>> /\ Head(queue'[q].items) = queue'[q].cell
    BY <1>2, <1>3
  <2>5. QED
    BY <2>1, <2>2, <2>3, <2>4 DEF QueueIsInOrder
<1>9. \A f \in Execs : /\ exec'[f].queue = exec[f].queue
                       /\ exec'[f].started => f \in Born
                       /\ exec'[f].run # "none" => exec'[f].started
  BY <1>4 DEF QueueInv, RunsBelongToQueues
<1>10. \A f \in Born : exec[f].queue # q => exec'[f] = exec[f]
  BY <1>4, <1>5
<1>11. \A f \in Born : exec[f].queue = q =>
          /\ (Unresolved(f)' /\ exec'[f].started) => queue'[q].cell = f /\ ~Waiting(q)'
          /\ exec'[f].run = "clearing" => queue'[q].cell = f /\ queue'[q].loop = "awaitStart"
  BY <1>2, <1>3, <1>6, <1>7
<1>12. QED
  BY <1>2, <1>3, <1>5, <1>8, <1>9, <1>10, <1>11, LoopMoves DEF callVars, sessionVars

LEMMA LoopNextKeepsOrder ==
    ASSUME TypeInv, TypeInv', QueueInv, NEW q \in Execs, LoopNext(q)
    PROVE  QueueInv'
<1> DEFINE s == queue[q].items
           e == Head(s)
<1>1. /\ queue[q].loop = "next"
      /\ UNCHANGED <<docQueue, callVars, sessionVars>>
  BY DEF LoopNext
<1>2. CASE s = <<>> /\ queue' = [queue EXCEPT ![q].loop = "done"] /\ UNCHANGED cellVars
  <2> DEFINE t == [queue[q] EXCEPT !.loop = "done"]
  <2>1. queue[q] \in QueueRec /\ queue' = [queue EXCEPT ![q] = t]
    BY <1>2, QueueFields DEF TypeInv
  <2>2. /\ t.failed = queue[q].failed /\ t.items = queue[q].items /\ t.loop = "done"
        /\ t.cell = queue[q].cell /\ t.session = queue[q].session
    BY <2>1, ChangedQueueFields
  <2> HIDE DEF t
  <2>3. (\A p \in Execs \ {q} : queue'[p] = queue[p]) /\ queue'[q] = t
    BY <2>1 DEF TypeInv, TypeOK
  <2>4. RunsOnlyEnd
    BY <1>1, <1>2, <2>3, ClearingRun DEF RunsOnlyEnd, cellVars
  <2>5. QueuesOnlyEnd
    BY <1>1, <1>2, <2>2, <2>3 DEF QueuesOnlyEnd, cellVars
  <2>6. OnlyEnds
    BY <1>1, <1>2, <2>4, <2>5 DEF OnlyEnds, cellVars
  <2>7. QED
    BY <1>1, <2>6, EndingKeepsInv DEF callVars, sessionVars
<1>3. CASE s # <<>> /\ CancelQueue(q, Tail(s))
  <2>1. OnlyEnds
    BY <1>1, <1>3, RestOfList, CancelQueueEnds
  <2>2. QED
    BY <1>1, <2>1, EndingKeepsInv DEF callVars, sessionVars
<1>4. CASE /\ s # <<>> /\ ~queue[q].failed
           /\ StartNotExecutable(e)
           /\ queue' = [queue EXCEPT ![q].loop = "awaitResult", ![q].cell = e]
  <2>1. e \in Items(q) /\ e \in Born /\ e \in Execs /\ exec[e].queue = q
    BY <1>4, FirstIsOldest, ListedRun
  <2>2. exec[e].run = "none" /\ exec[e] \in CellExecutionRec
    BY <1>1, <1>4, <2>1, RunType
       DEF QueueInv, HealthyQueuesAreInOrder, QueueIsInOrder, Waiting, RunsBelongToQueues,
           TypeInv, TypeOK
  <2>3. /\ nExecs' = nExecs
        /\ exec' = [exec EXCEPT ![e] = [exec[e] EXCEPT !.execution = None,
                                           !.result = Resolve(e, "undefined")]]
    BY <1>4 DEF StartNotExecutable
  <2>4. /\ \A f \in Execs : f # e => exec'[f] = exec[f]
        /\ exec'[e].queue = exec[e].queue /\ exec'[e].run = exec[e].run
    BY <2>1, <2>2, <2>3 DEF CellExecutionRec, TypeInv, TypeOK, CellTypeOK
  <2>5. QED
    BY <1>1, <1>4, <2>2, <2>3, <2>4, StartKeepsOrder
<1>5. CASE /\ s # <<>> /\ ~queue[q].failed
           /\ StartBegins(e)
           /\ queue' = [queue EXCEPT ![q].loop = "awaitStart", ![q].cell = e]
  <2>1. e \in Items(q) /\ e \in Born /\ e \in Execs /\ exec[e].queue = q
    BY <1>5, FirstIsOldest, ListedRun
  <2>2. exec[e] \in CellExecutionRec
    BY <2>1, RunType DEF TypeInv, TypeOK
  <2>3. /\ nExecs' = nExecs
        /\ exec' = [exec EXCEPT ![e] = [exec[e] EXCEPT !.started = TRUE, !.run = "clearing"]]
    BY <1>5 DEF StartBegins
  <2>4. /\ \A f \in Execs : f # e => exec'[f] = exec[f]
        /\ exec'[e].queue = exec[e].queue /\ exec'[e].started
    BY <2>1, <2>2, <2>3 DEF CellExecutionRec, TypeInv, TypeOK, CellTypeOK
  <2>5. QED
    BY <1>1, <1>5, <2>3, <2>4, StartKeepsOrder
<1>6. QED
  BY <1>2, <1>3, <1>4, <1>5 DEF LoopNext

LEMMA LoopStartKeepsOrder ==
    ASSUME TypeInv, TypeInv', QueueInv, NEW q \in Execs, LoopStartRejects(q)
    PROVE  QueueInv'
<1> DEFINE s == queue[q].items
           e == Head(s)
           S == Cancellable(Tail(s), FALSE)
           t == [queue[q] EXCEPT !.failed = TRUE, !.items = <<>>, !.loop = "done", !.cell = e]
<1>1. /\ queue[q].loop = "next" /\ s # <<>> /\ ~queue[q].failed
      /\ UNCHANGED <<nExecs, docQueue, callVars, sessionVars>>
  BY DEF LoopStartRejects
<1>2. queue[q] \in QueueRec /\ queue' = [queue EXCEPT ![q] = t]
  BY QueueFields DEF TypeInv, LoopStartRejects
<1>3. /\ t.failed /\ t.items = <<>> /\ t.loop = "done" /\ t.cell = e
      /\ t.session = queue[q].session
  BY <1>2, ChangedQueueFields
<1> HIDE DEF t
<1>4. (\A p \in Execs \ {q} : queue'[p] = queue[p]) /\ queue'[q] = t
  BY <1>2 DEF TypeInv, TypeOK
<1>5. e \in Items(q) /\ e \in Born /\ e \in Execs /\ exec[e].queue = q
  BY <1>1, FirstIsOldest, ListedRun
<1>6. S \subseteq Items(q)
  BY <1>1, RestOfList DEF Cancellable
<1>7. exec' = [x \in Execs |->
         IF x = e THEN [exec[x] EXCEPT !.started = TRUE]
         ELSE IF x \in S
         THEN [exec[x] EXCEPT !.cancelHandled = TRUE, !.completed = TRUE,
                              !.execution = None, !.result = Resolve(x, "Idle")]
         ELSE exec[x]]
  BY DEF LoopStartRejects
<1> HIDE DEF S
<1>8. \A x \in Execs : exec[x] \in CellExecutionRec
  BY RunType DEF TypeInv, TypeOK
<1>9. \A x \in Execs :
         /\ exec'[x].queue = exec[x].queue /\ exec'[x].run = exec[x].run
         /\ x # e => /\ exec'[x].started = exec[x].started
                     /\ exec'[x].result = "pending" => exec[x].result = "pending"
                     /\ x \notin S => exec'[x] = exec[x]
         /\ x = e => exec'[x].started
  BY <1>7, <1>8 DEF CellExecutionRec, Resolve
<1>10. Born' = Born /\ Born \subseteq Execs
  BY <1>1, QueueNames DEF Born
<1>11. \A x \in Born : exec[x].queue # q => exec'[x] = exec[x]
  BY <1>5, <1>6, <1>9, <1>10, ListedRun
<1>12. \A x \in Born : exec[x].queue = q =>
          /\ (Unresolved(x)' /\ exec'[x].started) => queue'[q].cell = x /\ ~Waiting(q)'
          /\ exec'[x].run = "clearing" => queue'[q].cell = x /\ queue'[q].loop = "awaitStart"
  BY <1>1, <1>3, <1>4, <1>9, <1>10, NothingUnderWay DEF Waiting, Unresolved
<1>13. \A x \in Execs : /\ exec'[x].queue = exec[x].queue
                        /\ exec'[x].started => x \in Born
                        /\ exec'[x].run # "none" => exec'[x].started
  BY <1>5, <1>9 DEF QueueInv, RunsBelongToQueues
<1>14. Items(q)' \subseteq Items(q)
  BY <1>3, <1>4, NothingInEmptyList DEF Items
<1>15. QED
  BY <1>1, <1>3, <1>4, <1>11, <1>12, <1>13, <1>14, LoopMoves DEF callVars, sessionVars

-----------------------------------------------------------------------------
(* A run is queued: a new one, last in its queue.                          *)
LEMMA CreatedRun ==
    ASSUME TypeInv, NEW c, NEW q, nExecs + 1 \in Execs, Create(c, q)
    PROVE  /\ nExecs' = nExecs + 1
           /\ \A e \in Execs : e # nExecs + 1 => exec'[e] = exec[e]
           /\ exec'[nExecs + 1].queue = q /\ ~exec'[nExecs + 1].started
           /\ exec'[nExecs + 1].result = "pending" /\ exec'[nExecs + 1].run = "none"
<1>1. \E w : exec' = [exec EXCEPT ![nExecs + 1] =
                        [Unborn EXCEPT !.cell = c, !.queue = q, !.execution = w]]
  BY DEF Create
<1>2. QED
  BY <1>1 DEF Create, Unborn, TypeInv, TypeOK, CellTypeOK

LEMMA LongerList ==
    ASSUME NEW s \in Seq(Execs), NEW n \in Execs,
           \A i, j \in DOMAIN s : i < j => s[i] < s[j],
           \A e \in Members(s) : e < n
    PROVE  /\ Members(Append(s, n)) = Members(s) \cup {n}
           /\ \A i, j \in DOMAIN Append(s, n) : i < j => Append(s, n)[i] < Append(s, n)[j]
           /\ Append(s, n) # <<>>
           /\ s # <<>> => Head(Append(s, n)) = Head(s)
<1>1. /\ Len(s) \in Nat /\ DOMAIN s = 1..Len(s) /\ Append(s, n) \in Seq(Execs)
      /\ Len(Append(s, n)) = Len(s) + 1
      /\ DOMAIN Append(s, n) = 1..(Len(s) + 1)
      /\ Append(s, n)[Len(s) + 1] = n
      /\ \A i \in 1..Len(s) : Append(s, n)[i] = s[i]
  OBVIOUS
<1>2. Members(Append(s, n)) = Members(s) \cup {n}
  <2>1. ASSUME NEW e \in Members(Append(s, n)) PROVE e \in Members(s) \cup {n}
    <3>1. PICK i \in 1..(Len(s) + 1) : e = Append(s, n)[i]
      BY <1>1 DEF Members
    <3>2. i = Len(s) + 1 \/ i \in 1..Len(s)
      BY <1>1
    <3>3. QED
      BY <1>1, <3>1, <3>2 DEF Members
  <2>2. ASSUME NEW e \in Members(s) PROVE e \in Members(Append(s, n))
    <3>1. PICK i \in 1..Len(s) : e = s[i]
      BY <1>1 DEF Members
    <3>2. i \in DOMAIN Append(s, n) /\ Append(s, n)[i] = e
      BY <1>1, <3>1
    <3>3. QED
      BY <3>2 DEF Members
  <2>3. n \in Members(Append(s, n))
    BY <1>1 DEF Members
  <2>4. QED
    BY <2>1, <2>2, <2>3
<1>3. \A i, j \in DOMAIN Append(s, n) : i < j => Append(s, n)[i] < Append(s, n)[j]
  <2>1. TAKE i, j \in DOMAIN Append(s, n)
  <2>2. HAVE i < j
  <2>3. i \in 1..Len(s) /\ Append(s, n)[i] = s[i] /\ s[i] \in Members(s)
    BY <1>1, <2>2 DEF Members
  <2>4. CASE j = Len(s) + 1
    BY <1>1, <2>3, <2>4
  <2>5. CASE j \in 1..Len(s)
    BY <1>1, <2>2, <2>3, <2>5
  <2>6. QED
    BY <1>1, <2>4, <2>5
<1>4. Append(s, n) # <<>> /\ (s # <<>> => Head(Append(s, n)) = Head(s))
  BY <1>1
<1>5. QED
  BY <1>2, <1>3, <1>4

LEMMA RunQueued ==
    ASSUME TypeInv, TypeInv', QueueInv, NEW d \in Execs, nExecs + 1 \in Execs,
           nExecs' = nExecs + 1, docQueue' = d, interruptCall' = interruptCall,
           kernelStatus' = kernelStatus,
           \A e \in Execs : e # nExecs + 1 => exec'[e] = exec[e],
           exec'[nExecs + 1].queue = d, ~exec'[nExecs + 1].started,
           exec'[nExecs + 1].result = "pending", exec'[nExecs + 1].run = "none",
           \A p \in Execs \ {d} : queue'[p] = queue[p],
           ~queue'[d].failed, queue'[d].session # None,
           \/ /\ d \in Born /\ queue[d].items # <<>> /\ ~queue[d].failed
              /\ queue'[d].loop = queue[d].loop /\ queue'[d].cell = queue[d].cell
              /\ queue'[d].session = queue[d].session
              /\ queue'[d].items = Append(queue[d].items, nExecs + 1)
           \/ /\ d = nExecs + 1 /\ queue'[d].loop = "awaitSession"
              /\ queue'[d].cell = None /\ queue'[d].items = <<nExecs + 1>>
    PROVE  QueueInv'
<1> DEFINE n == nExecs + 1
<1>1. /\ Born' = Born \cup {n} /\ Born \subseteq Execs /\ n \in Execs /\ n \notin Born
      /\ nExecs \in Nat /\ \A e \in Born : e < n
      /\ d \in Born' /\ docQueue' \in 0..nExecs'
  BY QueueNames DEF Born
<1>2. /\ \A e \in Born : exec'[e] = exec[e] /\ exec[e].queue \in Born /\ exec[e].queue # n
      /\ \A p \in Execs : \A e \in Items(p) : e \in Born /\ exec[e].queue = p
      /\ exec'[n].queue = d /\ ~exec'[n].started
      /\ exec'[n].result = "pending" /\ exec'[n].run = "none"
  <2>1. \A e \in Born : exec'[e] = exec[e] /\ exec[e].queue \in Born /\ exec[e].queue # n
    BY <1>1 DEF QueueInv, RunsBelongToQueues
  <2>2. \A p \in Execs : \A e \in Items(p) : e \in Born /\ exec[e].queue = p
    BY ListedRun
  <2>3. QED
    BY <2>1, <2>2
<1>3. /\ Items(d)' = (IF d = n THEN {} ELSE Items(d)) \cup {n}
      /\ \A i, j \in DOMAIN queue'[d].items : i < j => queue'[d].items[i] < queue'[d].items[j]
      /\ d # n => Head(queue'[d].items) = Head(queue[d].items)
      /\ queue'[d].items # <<>>
  <2>1. CASE d = n
    <3>1. queue'[d].items = <<n>>
      BY <1>1, <2>1
    <3>2. Members(<<n>>) = {n}
      BY DEF Members
    <3>3. DOMAIN <<n>> = {1} /\ <<n>> # <<>>
      OBVIOUS
    <3>4. QED
      BY <2>1, <3>1, <3>2, <3>3 DEF Items
  <2>2. CASE d # n
    <3> DEFINE s == queue[d].items
    <3>1. queue'[d].items = Append(s, n) /\ s # <<>> /\ ~queue[d].failed
      BY <2>2
    <3>2. s \in Seq(Execs)
      BY QueueFields DEF TypeInv
    <3>3. \A i, j \in DOMAIN s : i < j => s[i] < s[j]
      BY <3>1 DEF QueueInv, HealthyQueuesAreInOrder, QueueIsInOrder
    <3>4. \A e \in Members(s) : e < n
      BY <1>1, ListedRun DEF Items
    <3>5. /\ Members(Append(s, n)) = Members(s) \cup {n}
          /\ \A i, j \in DOMAIN Append(s, n) : i < j => Append(s, n)[i] < Append(s, n)[j]
          /\ Append(s, n) # <<>>
          /\ Head(Append(s, n)) = Head(s)
      BY <3>1, <3>2, <3>3, <3>4, LongerList
    <3>6. Items(d)' = Members(Append(s, n)) /\ Items(d) = Members(s)
      BY <3>1 DEF Items
    <3> HIDE DEF s
    <3>7. QED
      BY <2>2, <3>1, <3>5, <3>6
  <2>3. QED
    BY <2>1, <2>2
<1>4. ASSUME NEW e \in Born
      PROVE  /\ queue'[exec[e].queue].loop = queue[exec[e].queue].loop
             /\ queue'[exec[e].queue].cell = queue[exec[e].queue].cell
  <2>1. exec[e].queue \in Execs /\ exec[e].queue # n
    BY <1>1, <1>2
  <2>2. CASE exec[e].queue = d
    BY <2>1, <2>2
  <2>3. CASE exec[e].queue # d
    BY <2>1, <2>3
  <2>4. QED
    BY <2>2, <2>3
<1>5. queue'[d].loop # "none"
  <2>1. CASE d = n
    BY <1>1, <2>1
  <2>2. CASE d # n
    BY <2>2, FirstIsOldest, ListedRun DEF QueueInv, RunsBelongToQueues
  <2>3. QED
    BY <2>1, <2>2
<1>6. RunsBelongToQueues'
  <2>1. \A e \in Execs : /\ exec'[e].started => e \in Born'
                         /\ exec'[e].run # "none" => exec'[e].started
    BY <1>1 DEF QueueInv, RunsBelongToQueues
  <2>2. \A e \in Born' : exec'[e].queue \in Born' /\ queue'[exec'[e].queue].loop # "none"
    <3>1. ASSUME NEW e \in Born
          PROVE  exec'[e].queue \in Born' /\ queue'[exec'[e].queue].loop # "none"
      BY <1>1, <1>2, <1>4 DEF QueueInv, RunsBelongToQueues
    <3>2. exec'[n].queue \in Born' /\ queue'[exec'[n].queue].loop # "none"
      BY <1>1, <1>2, <1>5
    <3>3. QED
      BY <1>1, <3>1, <3>2
  <2>3. \A p \in Execs \ {d} : Items(p)' = Items(p)
    BY DEF Items, Members
  <2>4. \A p \in Execs : \A e \in Items(p)' : e \in Born' /\ exec'[e].queue = p
    <3>1. ASSUME NEW p \in Execs, NEW e \in Items(p)
          PROVE  e \in Born' /\ exec'[e].queue = p
      <4>1. e \in Born /\ exec[e].queue = p
        BY <1>2
      <4>2. QED
        BY <1>1, <1>2, <4>1
    <3>2. n \in Born' /\ exec'[n].queue = d
      BY <1>1, <1>2
    <3>3. Items(d)' \subseteq Items(d) \cup {n}
      BY <1>3
    <3>4. QED
      BY <2>3, <3>1, <3>2, <3>3
  <2>5. QED
    BY <1>1, <2>1, <2>2, <2>4 DEF RunsBelongToQueues
<1>7. StartedRunIsCurrent'
  <2> SUFFICES ASSUME NEW e \in Born'
               PROVE  /\ (Unresolved(e)' /\ exec'[e].started) =>
                            queue'[exec'[e].queue].cell = e /\ ~Waiting(exec[e].queue)'
                      /\ exec'[e].run = "clearing" =>
                            /\ queue'[exec'[e].queue].cell = e
                            /\ queue'[exec'[e].queue].loop = "awaitStart"
    BY DEF StartedRunIsCurrent, Waiting
  <2>1. CASE e = n
    BY <2>1
  <2>2. CASE e \in Born
    <3>1. exec'[e] = exec[e] /\ queue'[exec[e].queue].loop = queue[exec[e].queue].loop
          /\ queue'[exec[e].queue].cell = queue[exec[e].queue].cell
      BY <1>2, <1>4, <2>2
    <3>2. QED
      BY <2>2, <3>1 DEF QueueInv, StartedRunIsCurrent, Unresolved, Waiting
  <2>3. QED
    BY <1>1, <2>1, <2>2
<1>8. HealthyQueuesAreInOrder'
  <2>1. ASSUME NEW p \in Execs \ {d}, ~queue'[p].failed PROVE QueueIsInOrder(p)'
    <3>1. \A e \in Born' : exec'[e].queue = p => e \in Born /\ exec'[e] = exec[e]
      BY <1>1
    <3>2. ASSUME NEW e \in Items(p) PROVE exec'[e].queue = p /\ e \in Born'
      <4>1. e \in Born /\ exec[e].queue = p
        BY <1>2
      <4>2. QED
        BY <1>1, <1>2, <4>1
    <3>3. QED
      BY <2>1, <3>1, <3>2, OtherQueue
  <2>2. QueueIsInOrder(d)'
    <3>1. CASE d = n
      <4>1. \A e \in Born' : exec'[e].queue = d => e \in Items(d)'
        BY <1>1, <1>2, <1>3, <3>1
      <4>2. \A e \in Items(d)' : ~exec'[e].started /\ exec'[e].result = "pending"
        BY <1>3, <3>1
      <4>3. queue'[d].loop = "awaitSession"
        BY <1>1, <3>1
      <4>4. QED
        BY <1>3, <4>1, <4>2, <4>3 DEF QueueIsInOrder
    <3>2. CASE d # n
      <4>1. /\ QueueIsInOrder(d) /\ queue'[d].loop = queue[d].loop
            /\ queue'[d].cell = queue[d].cell /\ (Waiting(d)' <=> Waiting(d))
        BY <3>2 DEF QueueInv, HealthyQueuesAreInOrder, Waiting
      <4>2. \A e \in Born' : (Unresolved(e)' /\ exec'[e].queue = d) => e \in Items(d)'
        BY <1>1, <1>2, <1>3, <3>2, <4>1 DEF QueueIsInOrder, Unresolved
      <4>3. \A e \in Items(d)' : (Waiting(d)' \/ e # queue'[d].cell) =>
               ~exec'[e].started /\ exec'[e].result = "pending"
        <5>1. \A e \in Items(d) : exec'[e] = exec[e]
          BY <1>2
        <5>2. Items(d)' = Items(d) \cup {n}
          BY <1>3, <3>2
        <5>3. QED
          BY <1>2, <3>2, <4>1, <5>1, <5>2 DEF QueueIsInOrder
      <4>4. queue'[d].loop \in {"awaitStart", "awaitResult"} =>
               queue'[d].items # <<>> /\ Head(queue'[d].items) = queue'[d].cell
        BY <1>3, <3>2, <4>1 DEF QueueIsInOrder
      <4>5. QED
        BY <1>3, <4>2, <4>3, <4>4 DEF QueueIsInOrder
    <3>3. QED
      BY <3>1, <3>2
  <2>3. QED
    BY <2>1, <2>2 DEF HealthyQueuesAreInOrder
<1>9. InterruptedQueuesFailed'
  <2>1. \A q \in Born : queue[q].failed => queue'[q].failed
    BY <1>1
  <2>2. \A x \in 0..nExecs : x \in 0..nExecs'
    BY <1>1
  <2>3. QED
    BY <1>1, <2>1, <2>2 DEF QueueInv, InterruptedQueuesFailed
<1>10. LoopSeesLiveKernel'
  <2>1. \A p \in Execs \ {d} : queue'[p] = queue[p]
    OBVIOUS
  <2>2. /\ queue'[d].loop = "awaitSession" => queue'[d].cell = None
        /\ (queue'[d].loop = "next" /\ queue'[d].cell # None) =>
              kernelStatus[queue'[d].session] = "ok"
    BY DEF QueueInv, LoopSeesLiveKernel
  <2>3. QED
    BY <2>1, <2>2 DEF QueueInv, LoopSeesLiveKernel
<1>11. QED
  BY <1>6, <1>7, <1>8, <1>9, <1>10 DEF QueueInv

LEMMA QueueCellKeepsOrder ==
    ASSUME TypeInv, TypeInv', QueueInv, NEW c \in Cells, NEW s \in Sessions,
           nExecs + 1 \in Execs, QueueCell(c, s),
           interruptCall' = interruptCall, kernelStatus' = kernelStatus
    PROVE  QueueInv'
<1> DEFINE n == nExecs + 1
<1>1. CASE UNCHANGED <<cellVars, queueVars>>
  BY <1>1, NothingEnds, EndingKeepsInv
<1>2. CASE /\ Reusable
           /\ Create(c, docQueue)
           /\ queue' = [queue EXCEPT ![docQueue].items = Append(@, nExecs + 1)]
           /\ UNCHANGED docQueue
  <2> DEFINE t == [queue[docQueue] EXCEPT !.items = Append(queue[docQueue].items, n)]
  <2>1. docQueue \in Born /\ docQueue \in Execs
    <3>1. docQueue \in 0..nExecs /\ docQueue # None
      BY <1>2 DEF Reusable, QueueInv, RunsBelongToQueues
    <3>2. docQueue \in Born
      BY <3>1, QueueNames DEF Born, None
    <3>3. QED
      BY <3>2, QueueNames
  <2>2. queue[docQueue] \in QueueRec /\ queue' = [queue EXCEPT ![docQueue] = t]
    BY <1>2, <2>1, QueueFields DEF TypeInv
  <2>3. /\ t.failed = queue[docQueue].failed /\ t.loop = queue[docQueue].loop
        /\ t.cell = queue[docQueue].cell /\ t.session = queue[docQueue].session
        /\ t.items = Append(queue[docQueue].items, n)
    BY <2>2, ChangedQueueFields
  <2> HIDE DEF t
  <2>4. (\A p \in Execs \ {docQueue} : queue'[p] = queue[p]) /\ queue'[docQueue] = t
    BY <2>1, <2>2 DEF TypeInv, TypeOK
  <2>5. queue[docQueue].items # <<>> /\ ~queue[docQueue].failed
    BY <1>2 DEF Reusable
  <2>6. queue[docQueue].session # None
    <3> DEFINE e == Head(queue[docQueue].items)
    <3>1. e \in Items(docQueue)
      BY <2>1, <2>5, FirstIsOldest
    <3>2. e \in Born /\ exec[e].queue = docQueue
      BY <2>1, <3>1, ListedRun
    <3>3. queue[docQueue].loop # "none"
      BY <3>2 DEF QueueInv, RunsBelongToQueues
    <3>4. QED
      BY <2>1, <3>3 DEF QueueInv, LoopSeesLiveKernel
  <2>7. /\ nExecs' = nExecs + 1
        /\ \A e \in Execs : e # nExecs + 1 => exec'[e] = exec[e]
        /\ exec'[nExecs + 1].queue = docQueue /\ ~exec'[nExecs + 1].started
        /\ exec'[nExecs + 1].result = "pending" /\ exec'[nExecs + 1].run = "none"
    BY <1>2, CreatedRun
  <2>8. docQueue' = docQueue
    BY <1>2
  <2>9. QED
    BY <2>1, <2>3, <2>4, <2>5, <2>6, <2>7, <2>8, RunQueued
<1>3. CASE /\ Create(c, n)
           /\ queue' = [queue EXCEPT ![n] =
                          [items |-> <<n>>, failed |-> FALSE,
                           loop |-> "awaitSession", cell |-> None, session |-> s]]
           /\ docQueue' = n
  <2> DEFINE t == [items |-> <<n>>, failed |-> FALSE,
                   loop |-> "awaitSession", cell |-> None, session |-> s]
  <2>1. /\ t.items = <<n>> /\ ~t.failed /\ t.loop = "awaitSession" /\ t.cell = None
        /\ t.session = s
    OBVIOUS
  <2>2. queue' = [queue EXCEPT ![n] = t]
    BY <1>3
  <2> HIDE DEF t
  <2>3. (\A p \in Execs \ {n} : queue'[p] = queue[p]) /\ queue'[n] = t
    BY <2>2 DEF TypeInv, TypeOK
  <2>4. s # None
    BY DEF Sessions, None
  <2>5. /\ nExecs' = nExecs + 1
        /\ \A e \in Execs : e # nExecs + 1 => exec'[e] = exec[e]
        /\ exec'[nExecs + 1].queue = n /\ ~exec'[nExecs + 1].started
        /\ exec'[nExecs + 1].result = "pending" /\ exec'[nExecs + 1].run = "none"
    BY <1>3, CreatedRun
  <2>6. QED
    BY <1>3, <2>1, <2>3, <2>4, <2>5, RunQueued
<1>4. QED
  BY <1>1, <1>2, <1>3 DEF QueueCell

LEMMA ExecuteCellKeepsOrder ==
    ASSUME TypeInv, TypeInv', QueueInv, NEW c \in Cells, ExecuteCell(c)
    PROVE  QueueInv'
<1>1. interruptCall' = interruptCall /\ kernelStatus' = kernelStatus
  BY DEF ExecuteCell
<1>2. CASE UNCHANGED <<cellVars, queueVars>>
  BY <1>1, <1>2, NothingEnds, EndingKeepsInv
<1>3. ASSUME NEW s \in Sessions, QueueCell(c, s) PROVE QueueInv'
  <2>1. Cardinality(waitingRuns) \in Nat /\ nExecs \in Nat
    BY FS_CardinalityType DEF TypeInv, WaitingRunsFit, TypeOK, CellTypeOK
  <2>2. nExecs + 1 \in Execs
    BY <2>1 DEF ExecuteCell, Execs
  <2>3. QED
    BY <1>1, <1>3, <2>2, QueueCellKeepsOrder
<1>4. QED
  BY <1>2, <1>3 DEF ExecuteCell

LEMMA ResumeKeepsOrder ==
    ASSUME TypeInv, TypeInv', QueueInv, NEW w \in waitingRuns, ResumeExecuteCell(w)
    PROVE  QueueInv'
<1>1. w.cell \in Cells /\ w.session \in Sessions
  BY DEF TypeInv, TypeOK, WaitingRec
<1>2. nExecs + 1 \in Execs
  <2>1. IsFiniteSet(waitingRuns) /\ nExecs + Cardinality(waitingRuns) <= MaxExecs
    BY DEF TypeInv, WaitingRunsFit
  <2>2. /\ IsFiniteSet(waitingRuns \ {w})
        /\ Cardinality(waitingRuns \ {w}) = Cardinality(waitingRuns) - 1
    BY <2>1, FS_RemoveElement
  <2>3. Cardinality(waitingRuns) \in Nat /\ Cardinality(waitingRuns \ {w}) \in Nat
    BY <2>1, <2>2, FS_CardinalityType
  <2>4. nExecs \in Nat
    BY QueueNames
  <2>5. QED
    BY <2>1, <2>2, <2>3, <2>4 DEF Execs
<1>3. QED
  BY <1>1, <1>2, QueueCellKeepsOrder DEF ResumeExecuteCell, sessionVars

-----------------------------------------------------------------------------
LEMMA InitQueueInv == Init => QueueInv
<1> SUFFICES ASSUME Init PROVE QueueInv
  OBVIOUS
<1>1. /\ nExecs = 0 /\ docQueue = None /\ Born = {}
      /\ \A e \in Execs : ~exec[e].started /\ exec[e].run = "none"
      /\ \A q \in Execs : /\ queue[q].items = <<>> /\ queue[q].loop = "none"
      /\ \A i \in Interrupts : interruptCall[i].queue = None /\ ~interruptCall[i].cancelPending
  BY DEF Init, CellInit, Born, Unborn
<1>2. \A q \in Execs : Items(q) = {}
  BY <1>1, NothingInEmptyList DEF Items
<1>3. RunsBelongToQueues
  BY <1>1, <1>2 DEF RunsBelongToQueues, None
<1>4. HealthyQueuesAreInOrder
  BY <1>1, <1>2 DEF HealthyQueuesAreInOrder, QueueIsInOrder
<1>5. InterruptedQueuesFailed
  BY <1>1 DEF InterruptedQueuesFailed, None
<1>6. QED
  BY <1>1, <1>3, <1>4, <1>5 DEF QueueInv, StartedRunIsCurrent, LoopSeesLiveKernel

LEMMA NextQueueInv == TypeInv /\ TypeInv' /\ QueueInv /\ [Next]_vars => QueueInv'
<1> SUFFICES ASSUME TypeInv, TypeInv', QueueInv, [Next]_vars PROVE QueueInv'
  OBVIOUS
<1>1. CASE Microtask
  <2>1. \A w \in waitingRuns : ResumeExecuteCell(w) => QueueInv'
    BY ResumeKeepsOrder
  <2>2. QED
    BY <1>1, <2>1, LoopSessionKeepsOrder, LoopNextKeepsOrder, LoopStartKeepsOrder,
       LoopResultKeepsOrder, InterruptKeepsOrder, RestartKeepsOrder
    DEF Microtask
<1>2. CASE Task
  BY <1>2, ExecuteCellKeepsOrder, CloseCellKeepsOrder, AnswersKeepOrder, SessionKeepsOrder,
     InterruptKeepsOrder, RestartKeepsOrder, CloseNotebookKeepsOrder
  DEF Task
<1>3. CASE UNCHANGED vars
  BY <1>3, NothingEnds, EndingKeepsInv DEF vars, callVars, sessionVars
<1>4. QED
  BY <1>1, <1>2, <1>3 DEF Next

LEMMA AlwaysInOrder == Spec => [](TypeInv /\ QueueInv)
<1>1. Init => TypeInv /\ QueueInv
  BY InitTypes, InitQueueInv
<1>2. TypeInv /\ QueueInv /\ [Next]_vars => (TypeInv /\ QueueInv)'
  BY NextTypes, NextQueueInv
<1>3. QED
  BY <1>1, <1>2, PTL DEF Spec

(* A queue never has two cells under way.                                  *)
THEOREM OneRunAtATime == Spec => []OneRunPerQueue
<1>1. TypeInv /\ QueueInv => OneRunPerQueue
  BY DEF QueueInv, StartedRunIsCurrent, OneRunPerQueue
<1>2. QED
  BY <1>1, AlwaysInOrder, PTL

(* Only the loop starts a run, and it is the first of its list.            *)
Starts(e) ==
    \E q \in Execs :
        /\ queue[q].loop = "next" /\ queue[q].items # <<>> /\ ~queue[q].failed
        /\ e = Head(queue[q].items)

LEMMA OnlyTheLoopStarts ==
    ASSUME TypeInv, QueueInv, [Next]_vars, NEW e \in Execs,
           ~exec[e].started, exec'[e].started
    PROVE  Starts(e)
<1>1. \A x \in Execs : exec[x] \in CellExecutionRec
  BY RunType DEF TypeInv, TypeOK
<1> DEFINE Same == exec'[e].started = exec[e].started
<1>2. ASSUME NEW S, CancelExecs(S) PROVE Same
  BY <1>2, CancelRuns
<1>3. ASSUME NEW x \in Execs,
             \/ \E b \in BOOLEAN : CompletedSuccessfully(x, b)
             \/ CompletedWithErrors(x) \/ SendRequest(x)
             \/ StartNotExecutable(x)
      PROVE  Same
  <2>1. ASSUME NEW b \in BOOLEAN, CompletedSuccessfully(x, b) PROVE Same
    BY <2>1, CompletedRuns
  <2>2. CASE CompletedWithErrors(x) \/ SendRequest(x)
    BY <2>2, CompletedRuns
  <2>3. CASE StartNotExecutable(x)
    <3>1. exec' = [exec EXCEPT ![x] = [exec[x] EXCEPT !.execution = None,
                                          !.result = Resolve(x, "undefined")]]
      BY <2>3 DEF StartNotExecutable
    <3>2. QED
      BY <1>1, <3>1 DEF CellExecutionRec, TypeInv, TypeOK, CellTypeOK
  <2>4. QED
    BY <1>3, <2>1, <2>2, <2>3
<1>4. ASSUME NEW S, DoomRequests(S) PROVE Same
  BY <1>1, <1>4 DEF DoomRequests, CellExecutionRec
<1>5. ASSUME NEW D, NEW C, CloseAndCancel(D, C) PROVE Same
  BY <1>1, <1>5 DEF CloseAndCancel, CellExecutionRec
<1>6. ASSUME NEW c, NEW s, QueueCell(c, s) PROVE Same
  <2>1. ASSUME NEW q, Create(c, q) PROVE Same
    <3>1. \E w : exec' = [exec EXCEPT ![nExecs + 1] =
                            [Unborn EXCEPT !.cell = c, !.queue = q, !.execution = w]]
      BY <2>1 DEF Create
    <3>2. QED
      BY <3>1 DEF Unborn, TypeInv, TypeOK, CellTypeOK
  <2>2. QED
    BY <1>6, <2>1 DEF QueueCell, cellVars
<1>7. ASSUME NEW x, StartBegins(x) PROVE x = e
  BY <1>1, <1>7 DEF StartBegins, CellExecutionRec, TypeInv, TypeOK, CellTypeOK
<1>8. ASSUME NEW q \in Execs,
             \/ LoopSessionSettled(q) \/ LoopNext(q)
             \/ LoopStartRejects(q) \/ LoopResultSettled(q)
      PROVE  Starts(e)
  <2>1. CASE LoopSessionSettled(q) \/ LoopResultSettled(q)
    BY <1>2, <2>1 DEF LoopSessionSettled, LoopResultSettled, CancelQueue, cellVars
  <2>2. CASE LoopNext(q)
    <3>1. queue[q].items # <<>> => Head(queue[q].items) \in Execs
      BY QueueFields DEF TypeInv
    <3>2. QED
      BY <1>2, <1>3, <1>7, <2>2, <3>1 DEF LoopNext, CancelQueue, cellVars, Starts
  <2>3. CASE LoopStartRejects(q)
    <3>1. e # Head(queue[q].items) => Same
      BY <1>1, <2>3 DEF LoopStartRejects, CellExecutionRec
    <3>2. QED
      BY <2>3, <3>1 DEF LoopStartRejects, Starts
  <2>4. QED
    BY <1>8, <2>1, <2>2, <2>3
<1>9. ASSUME UNCHANGED cellVars PROVE Same
  BY <1>9 DEF cellVars
<1>10. ASSUME NEW i \in Interrupts,
             \/ Interrupt(i) \/ InterruptSessionSettled(i) \/ InterruptCellsSettled(i)
             \/ InterruptSucceeds(i) \/ InterruptGivesUp(i) \/ InterruptShared(i)
      PROVE  Same
  BY <1>2, <1>9, <1>10
  DEF Interrupt, InterruptSessionSettled, InterruptCellsSettled, InterruptSucceeds,
      InterruptGivesUp, InterruptShared, Returns
<1>11. ASSUME NEW r \in Restarts,
             \/ Restart(r) \/ RestartSessionSettled(r)
             \/ RestartSucceeds(r) \/ RestartFails(r)
      PROVE  Same
  BY <1>2, <1>4, <1>9, <1>11
  DEF Restart, RestartSessionSettled, RestartSucceeds, RestartFails, RestartSettles
<1>12. ASSUME NEW x \in Execs, ClearOutputDone(x) \/ KernelReplies(x) \/ RequestRejected(x)
       PROVE  Same
  BY <1>3, <1>12 DEF ClearOutputDone, KernelReplies, RequestRejected
<1>13. ASSUME NEW s \in Sessions,
              \/ StartKernel(s) \/ SessionStarted(s) \/ SessionFailed(s)
              \/ KernelDies(s) \/ SessionDisposed(s)
       PROVE  Same
  BY <1>4, <1>9, <1>13
  DEF StartKernel, SessionStarted, SessionFailed, KernelDies, SessionDisposed
<1>14. ASSUME NEW c \in Cells, ExecuteCell(c) \/ CloseCell(c) PROVE Same
  BY <1>5, <1>6, <1>9, <1>14 DEF ExecuteCell, CloseCell
<1>15. ASSUME NEW w \in waitingRuns, ResumeExecuteCell(w) PROVE Same
  BY <1>6, <1>15 DEF ResumeExecuteCell
<1>16. ASSUME CloseNotebook PROVE Same
  BY <1>5, <1>16 DEF CloseNotebook
<1>17. ASSUME UNCHANGED vars PROVE Same
  BY <1>9, <1>17 DEF vars
<1>18. CASE Microtask
  BY <1>8, <1>10, <1>11, <1>15, <1>18 DEF Microtask
<1>19. CASE Task
  BY <1>10, <1>11, <1>12, <1>13, <1>14, <1>16, <1>19 DEF Task
<1>20. QED
  BY <1>17, <1>18, <1>19 DEF Next

(* A cell starts only when all cells queued before it in its queue have    *)
(* their results, and never in a queue that was cancelled or has failed.   *)
THEOREM CellsStartInOrder == Spec => StartsInOrder
<1> DEFINE A(e) ==
      (~exec[e].started /\ exec'[e].started) =>
          /\ \A f \in 1..(e - 1) : exec[f].queue = exec[e].queue => exec[f].result # "pending"
          /\ ~queue[exec[e].queue].failed
          /\ exec[e].result = "pending"
<1>1. ASSUME TypeInv, QueueInv, [Next]_vars PROVE \A e \in Execs : A(e)
  <2> SUFFICES ASSUME NEW e \in Execs, ~exec[e].started, exec'[e].started
               PROVE  /\ \A f \in 1..(e - 1) :
                            exec[f].queue = exec[e].queue => exec[f].result # "pending"
                      /\ ~queue[exec[e].queue].failed
                      /\ exec[e].result = "pending"
    OBVIOUS
  <2>1. PICK q \in Execs :
          /\ queue[q].loop = "next" /\ queue[q].items # <<>> /\ ~queue[q].failed
          /\ e = Head(queue[q].items)
    BY <1>1, OnlyTheLoopStarts DEF Starts
  <2>2. e \in Items(q) /\ \A f \in Items(q) : f # e => f > e
    BY <1>1, <2>1, FirstIsOldest
  <2>3. e \in Born /\ exec[e].queue = q
    BY <1>1, <2>2, ListedRun
  <2>4. QueueIsInOrder(q)
    BY <1>1, <2>1 DEF QueueInv, HealthyQueuesAreInOrder
  <2>5. exec[e].result = "pending"
    BY <2>1, <2>2, <2>4 DEF QueueIsInOrder, Waiting
  <2>6. ASSUME NEW f \in 1..(e - 1), exec[f].queue = q PROVE exec[f].result # "pending"
    <3>1. nExecs \in Nat /\ e \in 1..nExecs
      BY <1>1, <2>3, QueueNames DEF Born
    <3>2. f \in Born /\ ~(f > e) /\ f # e
      BY <3>1 DEF Born
    <3>3. QED
      BY <2>2, <2>4, <2>6, <3>2 DEF QueueIsInOrder, Unresolved
  <2>7. QED
    BY <2>1, <2>3, <2>5, <2>6
<1> HIDE DEF A
<1>2. TypeInv /\ QueueInv /\ [Next]_vars => [\A e \in Execs : A(e)]_vars
  BY <1>1
<1>3. Spec => [][\A e \in Execs : A(e)]_vars
  BY <1>2, AlwaysInOrder, PTL DEF Spec
<1>4. QED
  BY <1>3 DEF StartsInOrder, A

(* After a cell has finished on a kernel that is dead no other cell of the *)
(* queue is started.                                                       *)
THEOREM DeadKernelsEndQueues == Spec => DeadKernelEndsQueue
<1> DEFINE A(e) ==
      (~exec[e].started /\ exec'[e].started) =>
          \/ queue[exec[e].queue].cell = None
          \/ kernelStatus[queue[exec[e].queue].session] = "ok"
<1>1. ASSUME TypeInv, QueueInv, [Next]_vars PROVE \A e \in Execs : A(e)
  <2> SUFFICES ASSUME NEW e \in Execs, ~exec[e].started, exec'[e].started
               PROVE  \/ queue[exec[e].queue].cell = None
                      \/ kernelStatus[queue[exec[e].queue].session] = "ok"
    OBVIOUS
  <2>1. PICK q \in Execs :
          /\ queue[q].loop = "next" /\ queue[q].items # <<>> /\ ~queue[q].failed
          /\ e = Head(queue[q].items)
    BY <1>1, OnlyTheLoopStarts DEF Starts
  <2>2. exec[e].queue = q
    BY <1>1, <2>1, FirstIsOldest, ListedRun
  <2>3. QED
    BY <1>1, <2>1, <2>2 DEF QueueInv, LoopSeesLiveKernel
<1> HIDE DEF A
<1>2. TypeInv /\ QueueInv /\ [Next]_vars => [\A e \in Execs : A(e)]_vars
  BY <1>1
<1>3. Spec => [][\A e \in Execs : A(e)]_vars
  BY <1>2, AlwaysInOrder, PTL DEF Spec
<1>4. QED
  BY <1>3 DEF DeadKernelEndsQueue, A
-----------------------------------------------------------------------------
(***************************************************************************)
(* The queues of a notebook implement CellJobs, they lose no run, and an   *)
(* execution that VS Code shows belongs to a run that will end it.         *)
(***************************************************************************)
(* The invariant.  Its first part is about the runs and the executions.    *)
Live(w) == wrapper[w] \in {"created", "started"}

(* A run without a result was neither completed nor cancelled, and it has  *)
(* an execution unless its cell is closed.                                 *)
UnresolvedRunsAreIntact ==
    \A e \in Born :
        /\ exec[e].cell \in Cells
        /\ exec[e].result = "pending" =>
              /\ ~exec[e].completed /\ ~exec[e].cancelHandled
              /\ exec[e].execution = None => exec[e].cell \in closedCells

(* An execution was made by a run of its cell, and the creator knows an    *)
(* execution for a cell exactly as long as that execution is live.         *)
ExecutionsAreOfTheirCell ==
    \A e \in Born, w \in Execs : exec[e].execution = w =>
        w \in Born /\ exec[w].cell = exec[e].cell /\ wrapper[w] # "none"
CreatorKnowsLiveOnes ==
    /\ \A c \in Cells, w \in Execs : executionMap[c] = w =>
          w \in Born /\ exec[w].cell = c /\ Live(w)
    /\ \A w \in Execs : Live(w) => w \in Born /\ executionMap[exec[w].cell] = w
LiveHaveRuns ==
    \A w \in Born : Live(w) => \E e \in Born : Unresolved(e) /\ exec[e].execution = w

OwnerInv == /\ UnresolvedRunsAreIntact /\ ExecutionsAreOfTheirCell
            /\ CreatorKnowsLiveOnes /\ LiveHaveRuns

(* The second part is about the queues as jobs: a run whose start() threw  *)
(* is in a failed queue, queues are named by runs, and at most the newest  *)
(* queue has not failed and lists something.                               *)
RejectedRunsFailed ==
    \A e \in Execs :
        (exec[e].started /\ exec[e].run = "none") => queue[exec[e].queue].failed
QueuesAreNamedByRuns ==
    /\ \A q \in Execs : queue[q].loop # "none" \/ queue[q].failed => q \in Born
    /\ \A r \in Restarts : restartCall[r].queue \in 0..nExecs
OnlyNewestIsHealthy ==
    \A q \in Execs : (~queue[q].failed /\ queue[q].items # <<>>) => q = docQueue

JobInv == RejectedRunsFailed /\ QueuesAreNamedByRuns /\ OnlyNewestIsHealthy

(* The third part says why no run is lost: what a failed queue still lists *)
(* was started, a loop that has ended lists nothing, and on a closed       *)
(* notebook only runs without execution wait in a queue that has not       *)
(* failed.                                                                 *)
FailedQueuesHoldStartedRuns ==
    \A q \in Execs : queue[q].failed =>
        \A e \in Items(q) : exec[e].result = "pending" => exec[e].started
EndedLoopsAreEmpty == \A q \in Execs : queue[q].loop = "done" => queue[q].items = <<>>
ClosedNotebookHasLateRuns ==
    notebookClosed =>
        /\ closedCells = Cells
        /\ \A e \in Born : (Unresolved(e) /\ ~queue[exec[e].queue].failed) =>
              exec[e].execution = None /\ ~exec[e].started

LostInv == /\ FailedQueuesHoldStartedRuns /\ EndedLoopsAreEmpty
           /\ ClosedNotebookHasLateRuns /\ NoRunIsLost

(* The last part is about interrupt(): the cells that a cancel() waits for *)
(* are all that its queue still lists; a call that shares a promise shares *)
(* that of another call; and once its own cancel() is through, the queue   *)
(* has failed and is empty.                                                *)
InterruptSound(i) ==
    LET c == interruptCall[i]
    IN  /\ c.cancelPending =>
              \A e \in Items(c.queue) : exec[e].result = "pending" => e \in c.waits
        /\ c.pc \in {"idle", "awaitSession"} =>
              ~c.cancelPending /\ interruptPromise # i
        /\ c.pc = "shared" => c.on \notin {None, i}
        /\ c.pc # "done" => c.result = "none"
        /\ (c.result = "Success" /\ c.on \in {None, i}) => ~c.cancelPending
        /\ \/ c.on \notin {None, i}
           \/ c.pc \in {"idle", "awaitSession"}
           \/ c.cancelPending
           \/ queue[c.queue].failed /\ queue[c.queue].items = <<>>
InterruptInv == \A i \in Interrupts : InterruptSound(i)

(* With the invariants above.                                              *)
BaseInv == TypeInv /\ QueueInv
RunInv == BaseInv /\ OwnerInv /\ JobInv /\ LostInv /\ InterruptInv

-----------------------------------------------------------------------------
(* How runs end.  A run of such a step is left as it is, but for what its  *)
(* request does, or gets a result and its execution is ended.              *)
RunSettles(e) ==
    /\ exec'[e].cell = exec[e].cell /\ exec'[e].queue = exec[e].queue
    /\ \/ /\ exec'[e].result = exec[e].result
          /\ exec'[e].execution = exec[e].execution
          /\ exec'[e].completed = exec[e].completed
          /\ exec'[e].cancelHandled = exec[e].cancelHandled
       \/ /\ exec'[e].result # "pending" /\ exec'[e].execution = None
          /\ exec[e].execution # None => wrapper'[exec[e].execution] = "ended"

CellsSettle ==
    /\ nExecs' = nExecs /\ closedCells \subseteq closedCells'
    /\ \E S : EndExecutions(S)
    /\ \A e \in Execs : RunSettles(e)

(* The fields of a changed run.                                            *)
LEMMA SettledFields ==
    ASSUME NEW r \in CellExecutionRec, NEW b1, NEW b2, NEW v, NEW x
    PROVE  /\ LET t == [r EXCEPT !.cancelHandled = b1, !.completed = b2,
                                !.execution = None, !.result = v]
              IN  t.cell = r.cell /\ t.queue = r.queue /\ t.execution = None /\ t.result = v
           /\ LET t == [r EXCEPT !.completed = b1, !.execution = None, !.result = v,
                                !.run = x]
              IN  t.cell = r.cell /\ t.queue = r.queue /\ t.execution = None /\ t.result = v
           /\ LET t == [r EXCEPT !.completed = b1, !.execution = None, !.result = v,
                                !.cancelHandled = b2, !.run = x]
              IN  t.cell = r.cell /\ t.queue = r.queue /\ t.execution = None /\ t.result = v
           /\ LET t == [r EXCEPT !.execution = None, !.result = v]
              IN  t.cell = r.cell /\ t.queue = r.queue /\ t.execution = None /\ t.result = v
           /\ LET t == [r EXCEPT !.started = b1]
              IN  /\ t.cell = r.cell /\ t.queue = r.queue /\ t.execution = r.execution
                  /\ t.result = r.result /\ t.completed = r.completed
                  /\ t.cancelHandled = r.cancelHandled /\ t.run = r.run /\ t.started = b1
           /\ LET t == [r EXCEPT !.run = x]
              IN  /\ t.cell = r.cell /\ t.queue = r.queue /\ t.execution = r.execution
                  /\ t.result = r.result /\ t.completed = r.completed
                  /\ t.cancelHandled = r.cancelHandled
  BY DEF CellExecutionRec

LEMMA EndedExecutions ==
    ASSUME CellTypeOK, NEW S, EndExecutions(S), NEW e \in S, e \in Execs
    PROVE  exec[e].execution # None => wrapper'[exec[e].execution] = "ended"
<1>1. exec[e].execution \in 0..MaxExecs
  BY RunFields
<1>2. exec[e].execution # None => exec[e].execution \in Execs \cap ExecutionsOf(S)
  BY <1>1 DEF ExecutionsOf, Execs, None
<1>3. QED
  BY <1>2 DEF EndExecutions

LEMMA NothingSettles ==
    ASSUME CellTypeOK, UNCHANGED <<nExecs, wrapper, executionMap, closedCells>>,
           \A e \in Execs :
              /\ exec'[e].cell = exec[e].cell /\ exec'[e].queue = exec[e].queue
              /\ exec'[e].result = exec[e].result
              /\ exec'[e].execution = exec[e].execution
              /\ exec'[e].completed = exec[e].completed
              /\ exec'[e].cancelHandled = exec[e].cancelHandled
    PROVE  CellsSettle
<1>1. EndExecutions({})
  BY DEF EndExecutions, ExecutionsOf, CellTypeOK
<1>2. QED
  BY <1>1 DEF CellsSettle, RunSettles

LEMMA ResolvedFor ==
    ASSUME NEW e, NEW v, v # "pending"
    PROVE  Resolve(e, v) # "pending" /\ (exec[e].result # "pending" => Resolve(e, v) = exec[e].result)
  BY DEF Resolve

LEMMA CancelSettles ==
    ASSUME CellTypeOK, NEW S, CancelExecs(S)
    PROVE  CellsSettle /\ \A e \in Execs \cap S : exec'[e].result # "pending"
<1>1. EndExecutions(S) /\ nExecs' = nExecs /\ closedCells' = closedCells
  BY DEF CancelExecs, EndCellTasks
<1>2. ASSUME NEW e \in Execs
      PROVE  RunSettles(e) /\ (e \in S => exec'[e].result # "pending")
  <2> DEFINE t == [exec[e] EXCEPT !.cancelHandled = TRUE, !.completed = TRUE,
                      !.execution = None, !.result = Resolve(e, "Idle")]
  <2>1. /\ t.cell = exec[e].cell /\ t.queue = exec[e].queue /\ t.execution = None
        /\ t.result = Resolve(e, "Idle")
    BY RunType, SettledFields
  <2>2. exec'[e] = IF e \in S THEN t ELSE exec[e]
    BY DEF CancelExecs
  <2> HIDE DEF t
  <2>3. e \in S => (exec[e].execution # None => wrapper'[exec[e].execution] = "ended")
    BY <1>1, EndedExecutions
  <2>4. Resolve(e, "Idle") # "pending"
    BY ResolvedFor
  <2>5. QED
    BY <2>1, <2>2, <2>3, <2>4 DEF RunSettles
<1>3. QED
  BY <1>1, <1>2 DEF CellsSettle

LEMMA DoomSettles ==
    ASSUME CellTypeOK, NEW S, DoomRequests(S)
    PROVE  CellsSettle
<1>1. ASSUME NEW e \in Execs
      PROVE  /\ exec'[e].cell = exec[e].cell /\ exec'[e].queue = exec[e].queue
             /\ exec'[e].result = exec[e].result
             /\ exec'[e].execution = exec[e].execution
             /\ exec'[e].completed = exec[e].completed
             /\ exec'[e].cancelHandled = exec[e].cancelHandled
  <2> DEFINE t == [exec[e] EXCEPT !.run = "doomed"]
  <2>1. exec'[e] = t \/ exec'[e] = exec[e]
    BY DEF DoomRequests
  <2>2. /\ t.cell = exec[e].cell /\ t.queue = exec[e].queue /\ t.execution = exec[e].execution
        /\ t.result = exec[e].result /\ t.completed = exec[e].completed
        /\ t.cancelHandled = exec[e].cancelHandled
    BY RunType, SettledFields
  <2> HIDE DEF t
  <2>3. QED
    BY <2>1, <2>2
<1>2. QED
  BY <1>1, NothingSettles DEF DoomRequests

LEMMA CompletedSettles ==
    ASSUME CellTypeOK, NEW e \in Execs,
           \/ \E hasErrorOutput \in BOOLEAN : CompletedSuccessfully(e, hasErrorOutput)
           \/ CompletedWithErrors(e)
           \/ SendRequest(e)
    PROVE  /\ CellsSettle
           /\ \/ exec'[e].result # "pending"
              \/ exec'[e].run = "running"
              \/ /\ exec[e].execution # None /\ wrapper[exec[e].execution] = "ended"
                 /\ UNCHANGED wrapper
<1>1. exec \in [Execs -> CellExecutionRec] /\ exec[e] \in CellExecutionRec
  BY DEF CellTypeOK
<1>2. ASSUME NEW v, v # "pending",
             exec' = [exec EXCEPT ![e].completed = TRUE, ![e].execution = None,
                                  ![e].result = Resolve(e, v), ![e].run = "settled"],
             EndCellTasks({e}), UNCHANGED <<nExecs, closedCells>>
      PROVE  CellsSettle /\ exec'[e].result # "pending"
  <2> DEFINE t == [exec[e] EXCEPT !.completed = TRUE, !.execution = None,
                      !.result = Resolve(e, v), !.run = "settled"]
  <2>1. /\ t.cell = exec[e].cell /\ t.queue = exec[e].queue /\ t.execution = None
        /\ t.result = Resolve(e, v)
    BY <1>1, SettledFields
  <2>2. exec' = [exec EXCEPT ![e] = t]
    BY <1>2
  <2> HIDE DEF t
  <2>3. exec'[e] = t /\ \A f \in Execs \ {e} : exec'[f] = exec[f]
    BY <1>1, <2>2
  <2>4. EndExecutions({e})
    BY <1>2 DEF EndCellTasks
  <2>5. exec[e].execution # None => wrapper'[exec[e].execution] = "ended"
    BY <2>4, EndedExecutions
  <2>6. t.result # "pending"
    BY <1>2, <2>1, ResolvedFor
  <2>7. \A f \in Execs : RunSettles(f)
    BY <2>1, <2>3, <2>5, <2>6 DEF RunSettles
  <2>8. QED
    BY <1>2, <2>3, <2>4, <2>6, <2>7 DEF CellsSettle
<1>3. ASSUME NEW x, exec' = [exec EXCEPT ![e].run = x],
             UNCHANGED <<nExecs, wrapper, executionMap, closedCells>>
      PROVE  CellsSettle /\ exec'[e].run = x
  <2> DEFINE t == [exec[e] EXCEPT !.run = x]
  <2>1. /\ t.cell = exec[e].cell /\ t.queue = exec[e].queue
        /\ t.execution = exec[e].execution /\ t.result = exec[e].result
        /\ t.completed = exec[e].completed /\ t.cancelHandled = exec[e].cancelHandled
        /\ t.run = x
    BY <1>1, SettledFields, ChangedFields
  <2>2. exec' = [exec EXCEPT ![e] = t]
    BY <1>3
  <2> HIDE DEF t
  <2>3. exec'[e] = t /\ \A f \in Execs \ {e} : exec'[f] = exec[f]
    BY <1>1, <2>2
  <2>4. QED
    BY <1>3, <2>1, <2>3, NothingSettles
<1>4. CASE \E hasErrorOutput \in BOOLEAN : CompletedSuccessfully(e, hasErrorOutput)
  <2>1. PICK v \in {"Error", "Idle", "Success"} :
           exec' = [exec EXCEPT ![e].completed = TRUE, ![e].execution = None,
                                ![e].result = Resolve(e, v), ![e].run = "settled"]
    BY <1>4 DEF CompletedSuccessfully
  <2>2. EndCellTasks({e}) /\ UNCHANGED <<nExecs, closedCells>>
    BY <1>4 DEF CompletedSuccessfully
  <2>3. v # "pending"
    OBVIOUS
  <2>4. QED
    BY <1>2, <2>1, <2>2, <2>3
<1>5. CASE CompletedWithErrors(e)
  BY <1>2, <1>3, <1>5 DEF CompletedWithErrors
<1>6. CASE SendRequest(e)
  BY <1>3, <1>6 DEF SendRequest
<1>7. QED
  BY <1>4, <1>5, <1>6

LEMMA CloseSettles ==
    ASSUME CellTypeOK, NEW D \in SUBSET Cells, NEW C, CloseAndCancel(D, C)
    PROVE  /\ CellsSettle /\ closedCells' = closedCells \cup D
           /\ \A e \in Execs \cap C : exec'[e].result # "pending"
           /\ \A e \in Execs : (exec[e].result = "pending" /\ exec'[e].result # "pending")
                                   => e \in C \/ (e \in Born /\ exec[e].started)
<1> DEFINE S == StoppedByClosing(D) \cup C
<1>1. /\ EndExecutions(S) /\ nExecs' = nExecs /\ closedCells' = closedCells \cup D
  BY DEF CloseAndCancel, EndCellTasks
<1>2. ASSUME NEW e \in Execs
      PROVE  /\ RunSettles(e) /\ (e \in S => exec'[e].result # "pending")
             /\ e \notin S => exec'[e].result = exec[e].result
  <2> DEFINE Doomed == /\ e \in Born /\ exec[e].cell \in D
                       /\ ~exec[e].cancelHandled /\ exec[e].run = "running"
             run == IF Doomed THEN "doomed" ELSE exec[e].run
             handled == exec[e].cancelHandled \/ e \in C \ StoppedByClosing(D)
             stopped == [exec[e] EXCEPT !.completed = TRUE, !.execution = None,
                            !.result = Resolve(e, "Idle"), !.cancelHandled = handled,
                            !.run = run]
             doomed == [exec[e] EXCEPT !.run = "doomed"]
  <2>1. exec'[e] = IF e \in S THEN stopped ELSE IF Doomed THEN doomed ELSE exec[e]
    BY DEF CloseAndCancel
  <2>2. /\ stopped.cell = exec[e].cell /\ stopped.queue = exec[e].queue
        /\ stopped.execution = None /\ stopped.result = Resolve(e, "Idle")
    <3> HIDE DEF run, handled
    <3> QED BY RunType, SettledFields
  <2>3. /\ doomed.cell = exec[e].cell /\ doomed.queue = exec[e].queue
        /\ doomed.execution = exec[e].execution
        /\ doomed.result = exec[e].result /\ doomed.completed = exec[e].completed
        /\ doomed.cancelHandled = exec[e].cancelHandled
    BY RunType, SettledFields
  <2>4. Resolve(e, "Idle") # "pending"
    BY ResolvedFor
  <2> HIDE DEF stopped, doomed, Doomed, S
  <2>5. e \in S => (exec[e].execution # None => wrapper'[exec[e].execution] = "ended")
    BY <1>1, EndedExecutions
  <2>6. QED
    BY <2>1, <2>2, <2>3, <2>4, <2>5 DEF RunSettles
<1>3. StoppedByClosing(D) \subseteq {e \in Born : exec[e].started}
  BY DEF StoppedByClosing
<1>4. CellsSettle
  <2> HIDE DEF S
  <2> QED BY <1>1, <1>2 DEF CellsSettle
<1>5. QED
  BY <1>1, <1>2, <1>3, <1>4

LEMMA NotExecutableSettles ==
    ASSUME CellTypeOK, NEW e \in Execs, StartNotExecutable(e)
    PROVE  /\ CellsSettle /\ exec'[e].result # "pending" /\ exec'[e].started = exec[e].started
           /\ exec'[e].run = exec[e].run
           /\ \A f \in Execs \ {e} : exec'[f] = exec[f]
<1> DEFINE t == [exec[e] EXCEPT !.execution = None, !.result = Resolve(e, "undefined")]
<1>1. exec \in [Execs -> CellExecutionRec] /\ exec[e] \in CellExecutionRec
  BY DEF CellTypeOK
<1>2. /\ t.cell = exec[e].cell /\ t.queue = exec[e].queue /\ t.execution = None
      /\ t.result = Resolve(e, "undefined")
  BY <1>1, SettledFields
<1>3. t.started = exec[e].started /\ t.run = exec[e].run
  BY <1>1 DEF CellExecutionRec
<1>4. exec' = [exec EXCEPT ![e] = t]
  BY DEF StartNotExecutable
<1> HIDE DEF t
<1>5. exec'[e] = t /\ \A f \in Execs \ {e} : exec'[f] = exec[f]
  BY <1>1, <1>4
<1>6. EndExecutions({e}) /\ nExecs' = nExecs /\ closedCells' = closedCells
  BY DEF StartNotExecutable
<1>7. exec[e].execution # None => wrapper'[exec[e].execution] = "ended"
  BY <1>6, EndedExecutions
<1>8. t.result # "pending"
  BY <1>2, ResolvedFor
<1>9. \A f \in Execs : RunSettles(f)
  BY <1>2, <1>5, <1>7, <1>8 DEF RunSettles
<1>10. QED
  BY <1>3, <1>5, <1>6, <1>8, <1>9 DEF CellsSettle

LEMMA RejectSettles ==
    ASSUME CellTypeOK, NEW q \in Execs, LoopStartRejects(q),
           Head(queue[q].items) \in Execs
    PROVE  /\ CellsSettle
           /\ \A e \in Cancellable(Tail(queue[q].items), FALSE) \cap Execs :
                 e # Head(queue[q].items) => exec'[e].result # "pending"
           /\ \A e \in Execs : /\ exec'[e].run = exec[e].run
                               /\ e # Head(queue[q].items) => exec'[e].started = exec[e].started
                               /\ e \notin Cancellable(Tail(queue[q].items), FALSE) =>
                                     exec'[e].result = exec[e].result
<1> DEFINE h == Head(queue[q].items)
           S == Cancellable(Tail(queue[q].items), FALSE)
<1>1. /\ EndExecutions(S) /\ nExecs' = nExecs /\ closedCells' = closedCells
      /\ exec' = [x \in Execs |->
            IF x = h THEN [exec[x] EXCEPT !.started = TRUE]
            ELSE IF x \in S
            THEN [exec[x] EXCEPT !.cancelHandled = TRUE, !.completed = TRUE,
                                 !.execution = None, !.result = Resolve(x, "Idle")]
            ELSE exec[x]]
  BY DEF LoopStartRejects
<1> HIDE DEF h, S
<1>2. ASSUME NEW e \in Execs
      PROVE  /\ RunSettles(e) /\ ((e \in S /\ e # h) => exec'[e].result # "pending")
             /\ exec'[e].run = exec[e].run
             /\ e # h => exec'[e].started = exec[e].started
             /\ e \notin S => exec'[e].result = exec[e].result
  <2> DEFINE t == [exec[e] EXCEPT !.cancelHandled = TRUE, !.completed = TRUE,
                      !.execution = None, !.result = Resolve(e, "Idle")]
             u == [exec[e] EXCEPT !.started = TRUE]
  <2>1. /\ t.cell = exec[e].cell /\ t.queue = exec[e].queue /\ t.execution = None
        /\ t.result = Resolve(e, "Idle")
        /\ u.cell = exec[e].cell /\ u.queue = exec[e].queue
        /\ u.execution = exec[e].execution /\ u.result = exec[e].result
        /\ u.completed = exec[e].completed /\ u.cancelHandled = exec[e].cancelHandled
        /\ u.run = exec[e].run
    BY RunType, SettledFields
  <2>2. t.run = exec[e].run /\ t.started = exec[e].started
    BY RunType DEF CellExecutionRec
  <2>3. exec'[e] = IF e = h THEN u ELSE IF e \in S THEN t ELSE exec[e]
    BY <1>1
  <2> HIDE DEF t, u
  <2>4. e \in S => (exec[e].execution # None => wrapper'[exec[e].execution] = "ended")
    BY <1>1, EndedExecutions
  <2>5. Resolve(e, "Idle") # "pending"
    BY ResolvedFor
  <2>6. QED
    BY <2>1, <2>2, <2>3, <2>4, <2>5 DEF RunSettles
<1>3. QED
  BY <1>1, <1>2 DEF CellsSettle, h, S

-----------------------------------------------------------------------------
(* Executions and their runs.                                              *)
LEMMA RunNames ==
    ASSUME CellTypeOK
    PROVE  /\ Born \subseteq Execs /\ nExecs \in Nat /\ nExecs + 1 \notin Born
           /\ None \notin Born /\ None \notin Execs
           /\ \A c \in Cells : executionMap[c] \in Execs \cup {None}
           /\ \A e \in Execs : exec[e].execution \in Execs \cup {None}
<1>1. nExecs \in 0..MaxExecs
  BY DEF CellTypeOK
<1>2. 0..MaxExecs = Execs \cup {None}
  BY DEF Execs, None
<1>3. QED
  BY <1>1, <1>2, RunFields DEF Born, Execs, CellTypeOK, None

(* A step that settles runs ends the executions of those that get results, *)
(* and the creator forgets what ends.                                      *)
LEMMA SettlingKeepsOwners ==
    ASSUME CellTypeOK, OwnerInv, CellsSettle
    PROVE  OwnerInv'
<1> USE RunNames DEF OwnerInv
<1>1. Born' = Born /\ closedCells \subseteq closedCells'
  BY DEF CellsSettle, Born
<1>2. \A e \in Execs : RunSettles(e)
  BY DEF CellsSettle
<1>3. PICK S : EndExecutions(S)
  BY DEF CellsSettle
<1>4. /\ \A w \in Execs : /\ wrapper'[w] \in {wrapper[w], "ended"}
                          /\ w \in ExecutionsOf(S) => wrapper'[w] = "ended"
                          /\ w \notin ExecutionsOf(S) => wrapper'[w] = wrapper[w]
      /\ \A c \in Cells : executionMap'[c] = IF executionMap[c] \in ExecutionsOf(S)
                                             THEN None ELSE executionMap[c]
  BY <1>3 DEF EndExecutions
<1>5. UnresolvedRunsAreIntact'
  BY <1>1, <1>2 DEF UnresolvedRunsAreIntact, RunSettles
<1>6. ExecutionsAreOfTheirCell'
  <2> SUFFICES ASSUME NEW e \in Born, NEW w \in Execs, exec'[e].execution = w
               PROVE  w \in Born /\ exec'[w].cell = exec'[e].cell /\ wrapper'[w] # "none"
    BY <1>1 DEF ExecutionsAreOfTheirCell
  <2>1. exec[e].execution = w /\ exec'[e].cell = exec[e].cell
    BY <1>2 DEF RunSettles
  <2>2. w \in Born /\ exec[w].cell = exec[e].cell /\ wrapper[w] # "none"
    BY <2>1 DEF ExecutionsAreOfTheirCell
  <2>3. exec'[w].cell = exec[w].cell /\ wrapper'[w] # "none"
    BY <1>2, <1>4, <2>2 DEF RunSettles
  <2>4. QED
    BY <2>1, <2>2, <2>3
<1>7. CreatorKnowsLiveOnes'
  <2>1. \A w \in Execs : Live(w)' <=> Live(w) /\ w \notin ExecutionsOf(S)
    BY <1>4 DEF Live
  <2>2. ASSUME NEW c \in Cells, NEW w \in Execs, executionMap'[c] = w
        PROVE  w \in Born /\ exec'[w].cell = c /\ Live(w)'
    <3>1. executionMap[c] = w /\ w \notin ExecutionsOf(S)
      BY <1>4, <2>2
    <3>2. w \in Born /\ exec[w].cell = c /\ Live(w)
      BY <3>1 DEF CreatorKnowsLiveOnes
    <3>3. QED
      BY <1>2, <2>1, <3>1, <3>2 DEF RunSettles
  <2>4. ASSUME NEW w \in Execs, Live(w)'
        PROVE  executionMap'[exec'[w].cell] = w
    <3>1. Live(w) /\ w \notin ExecutionsOf(S)
      BY <2>1, <2>4
    <3>2. executionMap[exec[w].cell] = w /\ w \in Born
      BY <3>1 DEF CreatorKnowsLiveOnes
    <3>3. exec[w].cell \in Cells /\ exec'[w].cell = exec[w].cell
      BY <1>2, <3>2 DEF UnresolvedRunsAreIntact, RunSettles
    <3>4. QED
      BY <1>4, <3>1, <3>2, <3>3
  <2>5. \A w \in Execs : Live(w)' => w \in Born'
    BY <1>1, <2>1 DEF CreatorKnowsLiveOnes
  <2>6. QED
    BY <1>1, <2>2, <2>4, <2>5 DEF CreatorKnowsLiveOnes
<1>8. LiveHaveRuns'
  <2> SUFFICES ASSUME NEW w \in Born, Live(w)'
               PROVE  \E e \in Born : Unresolved(e)' /\ exec'[e].execution = w
    BY <1>1 DEF LiveHaveRuns
  <2>1. Live(w) /\ w \in Execs /\ w # None
    BY <1>4 DEF Live
  <2>2. PICK e \in Born : Unresolved(e) /\ exec[e].execution = w
    BY <2>1 DEF LiveHaveRuns
  <2>3. wrapper'[w] # "ended"
    BY DEF Live
  <2>4. exec'[e].result = "pending" /\ exec'[e].execution = w
    BY <1>2, <2>1, <2>2, <2>3 DEF RunSettles, Unresolved
  <2>5. QED
    BY <1>1, <2>4 DEF Unresolved
<1>9. QED
  BY <1>5, <1>6, <1>7, <1>8

(* start() of a run whose cell can be executed.                            *)
LEMMA StartingKeepsOwners ==
    ASSUME CellTypeOK, OwnerInv, NEW e \in Born, StartBegins(e),
           Unresolved(e), exec[e].cell \notin closedCells,
           wrapper[exec[e].execution] # "ended"
    PROVE  OwnerInv'
<1> DEFINE w == exec[e].execution
<1> USE RunNames DEF OwnerInv
<1>1. w \in Born /\ exec[w].cell = exec[e].cell /\ Live(w)
  <2>1. w # None
    BY DEF UnresolvedRunsAreIntact, Unresolved
  <2>2. w \in Born /\ exec[w].cell = exec[e].cell /\ wrapper[w] # "none"
    BY <2>1 DEF ExecutionsAreOfTheirCell
  <2>3. wrapper[w] \in {"none", "created", "started", "ended"}
    BY <2>2 DEF CellTypeOK
  <2>4. QED
    BY <2>2, <2>3 DEF Live
<1>2. /\ wrapper' = [wrapper EXCEPT ![w] = "started"]
      /\ exec' = [exec EXCEPT ![e] = [exec[e] EXCEPT !.started = TRUE, !.run = "clearing"]]
      /\ UNCHANGED <<nExecs, executionMap, closedCells>>
  BY DEF StartBegins
<1>3. \A f \in Execs : /\ exec'[f].cell = exec[f].cell /\ exec'[f].result = exec[f].result
                       /\ exec'[f].execution = exec[f].execution
                       /\ exec'[f].completed = exec[f].completed
                       /\ exec'[f].cancelHandled = exec[f].cancelHandled
  <2> DEFINE t == [exec[e] EXCEPT !.started = TRUE, !.run = "clearing"]
  <2>1. /\ t.cell = exec[e].cell /\ t.result = exec[e].result
        /\ t.execution = exec[e].execution /\ t.completed = exec[e].completed
        /\ t.cancelHandled = exec[e].cancelHandled
    BY RunType DEF CellExecutionRec
  <2> HIDE DEF t
  <2>2. exec' = [exec EXCEPT ![e] = t]
    BY <1>2 DEF t
  <2>3. QED
    BY <2>1, <2>2 DEF CellTypeOK
<1>4. Born' = Born /\ \A f \in Execs : Live(f)' <=> Live(f)
  BY <1>1, <1>2 DEF Born, Live, CellTypeOK
<1>5. \A f \in Execs : wrapper'[f] = "none" <=> wrapper[f] = "none"
  BY <1>1, <1>2 DEF Live, CellTypeOK
<1> HIDE DEF w
<1>6. UnresolvedRunsAreIntact'
  BY <1>2, <1>3, <1>4 DEF UnresolvedRunsAreIntact
<1>7. ExecutionsAreOfTheirCell'
  BY <1>3, <1>4, <1>5 DEF ExecutionsAreOfTheirCell
<1>8. CreatorKnowsLiveOnes'
  BY <1>2, <1>3, <1>4, <1>5 DEF CreatorKnowsLiveOnes
<1>9. LiveHaveRuns'
  BY <1>3, <1>4 DEF LiveHaveRuns, Unresolved
<1>10. QED
  BY <1>6, <1>7, <1>8, <1>9

(* The constructor.                                                        *)
LEMMA CreateMakes ==
    ASSUME CellTypeOK, nExecs + 1 \in Execs, NEW c \in Cells, NEW q, Create(c, q)
    PROVE  LET n == nExecs + 1 IN
           /\ nExecs' = n /\ closedCells' = closedCells
           /\ \A e \in Execs \ {n} : exec'[e] = exec[e]
           /\ exec'[n].cell = c /\ exec'[n].queue = q /\ exec'[n].result = "pending"
           /\ ~exec'[n].started /\ ~exec'[n].completed /\ ~exec'[n].cancelHandled
           /\ exec'[n].run = "none"
           /\ exec'[n].execution = IF c \in closedCells THEN None
                                   ELSE IF executionMap[c] # None THEN executionMap[c] ELSE n
           /\ executionMap' = [executionMap EXCEPT ![c] = exec'[n].execution]
           /\ \A w \in Execs :
                 wrapper'[w] = IF w = exec'[n].execution /\ executionMap[c] = None
                               THEN "created"
                               ELSE IF w = executionMap[c] /\ c \in closedCells
                               THEN "ended" ELSE wrapper[w]
<1> DEFINE n == nExecs + 1
           x == IF c \in closedCells THEN None
                ELSE IF executionMap[c] # None THEN executionMap[c] ELSE n
           t == [Unborn EXCEPT !.cell = c, !.queue = q, !.execution = x]
<1>1. /\ exec' = [exec EXCEPT ![n] = t]
      /\ nExecs' = n /\ closedCells' = closedCells
      /\ executionMap' = [executionMap EXCEPT ![c] = x]
      /\ \A w \in Execs :
            wrapper'[w] = IF w = x /\ executionMap[c] = None THEN "created"
                          ELSE IF w = executionMap[c] /\ c \in closedCells
                          THEN "ended" ELSE wrapper[w]
  BY DEF Create
<1> HIDE DEF x
<1>2. /\ t.cell = c /\ t.queue = q /\ t.execution = x /\ t.result = "pending"
      /\ ~t.started /\ ~t.completed /\ ~t.cancelHandled /\ t.run = "none"
  BY DEF Unborn
<1> HIDE DEF t, n
<1>3. exec'[n] = t /\ \A e \in Execs \ {n} : exec'[e] = exec[e]
  BY <1>1 DEF n, CellTypeOK
<1>4. /\ exec'[n].cell = c /\ exec'[n].queue = q /\ exec'[n].result = "pending"
      /\ ~exec'[n].started /\ ~exec'[n].completed /\ ~exec'[n].cancelHandled
      /\ exec'[n].run = "none" /\ exec'[n].execution = x
  BY <1>2, <1>3
<1>5. /\ executionMap' = [executionMap EXCEPT ![c] = exec'[n].execution]
      /\ \A w \in Execs :
            wrapper'[w] = IF w = exec'[n].execution /\ executionMap[c] = None THEN "created"
                          ELSE IF w = executionMap[c] /\ c \in closedCells
                          THEN "ended" ELSE wrapper[w]
  BY <1>1, <1>4
<1>6. QED
  BY <1>1, <1>3, <1>4, <1>5 DEF n, x

LEMMA CreatingKeepsOwners ==
    ASSUME CellTypeOK, OwnerInv, nExecs + 1 \in Execs, NEW c \in Cells, NEW q, Create(c, q)
    PROVE  OwnerInv'
<1> DEFINE n == nExecs + 1
           x == exec'[n].execution
           old == executionMap[c]
<1> USE RunNames DEF OwnerInv
<1>1. /\ nExecs' = n /\ closedCells' = closedCells
      /\ \A e \in Execs \ {n} : exec'[e] = exec[e]
      /\ exec'[n].cell = c /\ exec'[n].result = "pending"
      /\ ~exec'[n].completed /\ ~exec'[n].cancelHandled
      /\ x = IF c \in closedCells THEN None ELSE IF old # None THEN old ELSE n
      /\ executionMap' = [executionMap EXCEPT ![c] = x]
      /\ \A w \in Execs :
            wrapper'[w] = IF w = x /\ old = None THEN "created"
                          ELSE IF w = old /\ c \in closedCells THEN "ended" ELSE wrapper[w]
  BY CreateMakes
<1>2. Born' = Born \cup {n} /\ n \notin Born /\ n \in Execs /\ n # None
  BY <1>1 DEF Born
<1>3. old \in Execs \cup {None} /\ old # n
      /\ (old \in Execs => old \in Born /\ exec[old].cell = c /\ Live(old))
  BY <1>2 DEF CreatorKnowsLiveOnes
<1>4. \A c2 \in Cells : executionMap'[c2] = IF c2 = c THEN x ELSE executionMap[c2]
  BY <1>1 DEF CellTypeOK
<1> HIDE DEF x, old, n
<1>5. UnresolvedRunsAreIntact'
  <2>1. x = None => c \in closedCells
    BY <1>1, <1>2
  <2>2. QED
    BY <1>1, <1>2, <2>1 DEF UnresolvedRunsAreIntact, x
<1>6. ASSUME NEW w \in Born
      PROVE  exec'[w] = exec[w] /\ (wrapper[w] # "none" => wrapper'[w] # "none")
             /\ w # n /\ (w # old \/ c \notin closedCells => wrapper'[w] = wrapper[w])
  BY <1>1, <1>2, <1>3
<1>7. ExecutionsAreOfTheirCell'
  <2> SUFFICES ASSUME NEW e \in Born', NEW w \in Execs, exec'[e].execution = w
               PROVE  w \in Born' /\ exec'[w].cell = exec'[e].cell /\ wrapper'[w] # "none"
    BY DEF ExecutionsAreOfTheirCell
  <2>1. CASE e # n
    <3>1. exec[e].execution = w /\ exec'[e] = exec[e] /\ e \in Born
      BY <1>2, <1>6, <2>1
    <3>2. w \in Born /\ exec[w].cell = exec[e].cell /\ wrapper[w] # "none"
      BY <3>1 DEF ExecutionsAreOfTheirCell
    <3>3. QED
      BY <1>2, <1>6, <3>1, <3>2
  <2>2. CASE e = n
    <3>1. w = x /\ c \notin closedCells
      BY <1>1, <2>2 DEF x
    <3>2. CASE old = None
      BY <1>1, <1>2, <2>2, <3>1, <3>2
    <3>3. CASE old # None
      <4>1. w = old /\ w \in Born /\ exec[w].cell = c /\ Live(w)
        BY <1>1, <1>3, <3>1, <3>3
      <4>2. QED
        BY <1>1, <1>2, <1>6, <2>2, <4>1 DEF Live
    <3>4. QED
      BY <3>2, <3>3
  <2>3. QED
    BY <2>1, <2>2
<1>8. CreatorKnowsLiveOnes'
  <2>1. ASSUME NEW c2 \in Cells, NEW w \in Execs, executionMap'[c2] = w
        PROVE  w \in Born' /\ exec'[w].cell = c2 /\ Live(w)'
    <3>1. CASE c2 # c
      <4>1. w \in Born /\ exec[w].cell = c2 /\ Live(w)
        BY <1>4, <2>1, <3>1 DEF CreatorKnowsLiveOnes
      <4>2. w # old
        BY <1>3, <3>1, <4>1
      <4>3. QED
        BY <1>2, <1>6, <4>1, <4>2 DEF Live
    <3>2. CASE c2 = c
      <4>1. w = x /\ c \notin closedCells
        BY <1>1, <1>4, <2>1, <3>2
      <4>2. CASE old = None
        BY <1>1, <1>2, <3>2, <4>1, <4>2 DEF Live
      <4>3. CASE old # None
        BY <1>1, <1>2, <1>3, <1>6, <3>2, <4>1, <4>3 DEF Live
      <4>4. QED
        BY <4>2, <4>3
    <3>3. QED
      BY <3>1, <3>2
  <2>2. ASSUME NEW w \in Execs, Live(w)'
        PROVE  w \in Born' /\ executionMap'[exec'[w].cell] = w
    <3>1. CASE w = n /\ x = n
      BY <1>1, <1>2, <1>4, <3>1
    <3>2. CASE ~(w = n /\ x = n)
      <4>1. Live(w) /\ (w # old \/ c \notin closedCells)
        <5>1. CASE w = x /\ old = None
          BY <1>1, <1>2, <3>2, <5>1
        <5>2. CASE ~(w = x /\ old = None)
          BY <1>1, <2>2, <5>2 DEF Live
        <5>3. QED
          BY <5>1, <5>2
      <4>2. w \in Born /\ executionMap[exec[w].cell] = w /\ exec'[w] = exec[w]
        BY <1>6, <4>1 DEF CreatorKnowsLiveOnes
      <4>3. exec[w].cell \in Cells
        BY <4>2 DEF UnresolvedRunsAreIntact
      <4>4. CASE exec[w].cell = c
        <5>1. old = w /\ c \notin closedCells
          BY <4>1, <4>2, <4>4 DEF old
        <5>2. x = w
          BY <1>1, <5>1
        <5>3. QED
          BY <1>2, <1>4, <4>2, <4>3, <4>4, <5>2
      <4>5. CASE exec[w].cell # c
        BY <1>2, <1>4, <4>2, <4>3, <4>5
      <4>6. QED
        BY <4>4, <4>5
    <3>3. QED
      BY <3>1, <3>2
  <2>3. QED
    BY <2>1, <2>2 DEF CreatorKnowsLiveOnes
<1>9. LiveHaveRuns'
  <2> SUFFICES ASSUME NEW w \in Born', Live(w)'
               PROVE  \E e \in Born' : exec'[e].result = "pending" /\ exec'[e].execution = w
    BY DEF LiveHaveRuns, Unresolved
  <2>1. n \in Born' /\ exec'[n].result = "pending" /\ exec'[n].execution = x
    BY <1>1, <1>2 DEF x
  <2>2. CASE w = x
    BY <1>2, <2>1, <2>2
  <2>3. CASE w # x
    <3>1. Live(w) /\ w \in Execs
      BY <1>1, <1>2, <2>3 DEF Live
    <3>2. w \in Born
      BY <3>1 DEF CreatorKnowsLiveOnes
    <3>3. PICK e \in Born : Unresolved(e) /\ exec[e].execution = w
      BY <3>1, <3>2 DEF LiveHaveRuns
    <3>4. QED
      BY <1>2, <1>6, <3>3 DEF Unresolved
  <2>4. QED
    BY <2>2, <2>3
<1>10. QED
  BY <1>5, <1>7, <1>8, <1>9

-----------------------------------------------------------------------------
(* The steps.  All but the start of a run and the queueing of a new one    *)
(* settle: runs get results, queues fail, lists become shorter, and loops  *)
(* go on.  A run that gets a result was under way, is in a queue that has  *)
(* failed, or is skipped because its turn has come and its cell is gone.   *)
ItsTurn(e) ==
    \A p \in Born : (p < e /\ exec[p].queue = exec[e].queue) => exec[p].result # "pending"

RunEnds(e) ==
    /\ exec[e].result # "pending" => exec'[e].result # "pending"
    /\ \/ exec'[e].started = exec[e].started
       \/ exec'[e].started /\ ExecutionTaken(e)' /\ queue'[exec[e].queue].failed
    /\ exec'[e].run = "none" <=> exec[e].run = "none"
    /\ (exec[e].result = "pending" /\ exec'[e].result # "pending") =>
          exec[e].run # "none" \/ queue'[exec[e].queue].failed \/ ItsTurn(e)
    /\ exec'[e].result = "pending" =>
          exec'[e].run \in {exec[e].run, "running", "doomed"} \/ ExecutionTaken(e)'

RunStarts(e) ==
    /\ exec'[e].started /\ exec'[e].run = "clearing"
    /\ exec'[e].result = exec[e].result
    /\ queue'[exec[e].queue].cell = e /\ queue'[exec[e].queue].loop = "awaitStart"
    /\ ~queue'[exec[e].queue].failed /\ ~notebookClosed /\ ~notebookClosed'

QueueProceeds(q) ==
    /\ queue[q].failed => queue'[q].failed
    /\ queue'[q].failed => queue[q].failed \/ q \in Born
    /\ Items(q)' \subseteq Items(q) /\ (queue[q].items = <<>> => queue'[q].items = <<>>)
    /\ \A e \in Items(q) :
          e \in Items(q)' \/ exec'[e].result # "pending" \/ ExecutionTaken(e)' \/ QueuedTooLate(e)'
    /\ (queue'[q].failed /\ ~queue[q].failed) =>
          \A e \in Items(q)' : exec'[e].result = "pending" => exec[e].started
    /\ \/ queue'[q].loop = queue[q].loop /\ queue'[q].cell = queue[q].cell
       \/ queue'[q].loop = "done" /\ queue[q].loop # "none" /\ queue'[q].items = <<>>
       \/ /\ queue[q].loop = "awaitStart" /\ queue'[q].loop = "awaitResult"
          /\ queue'[q].cell = queue[q].cell
       \/ /\ queue[q].loop \in {"awaitSession", "next", "awaitResult"}
          /\ queue'[q].loop \in {"next", "awaitStart", "awaitResult"}
          /\ \A e \in Items(q) : exec[e].result = "pending" => ~exec[e].started

QueuesProceed ==
    /\ nExecs' = nExecs /\ docQueue' = docQueue /\ closedCells \subseteq closedCells'
    /\ \A w \in Execs : wrapper[w] = "ended" => wrapper'[w] = "ended"
    /\ \A e \in Execs : RunSettles(e)
    /\ \A q \in Execs : QueueProceeds(q)
    /\ \/ notebookClosed' = notebookClosed
       \/ /\ notebookClosed' /\ closedCells' = Cells
          /\ \A q \in Queues : queue'[q].failed
    /\ \A r \in Restarts : restartCall'[r].queue \in {restartCall[r].queue, docQueue}

StepSettles == QueuesProceed /\ CellsSettle /\ \A e \in Execs : RunEnds(e)
StepStarts == /\ QueuesProceed /\ \A e \in Execs : RunEnds(e) \/ RunStarts(e)
              /\ \E q \in Execs :
                    /\ queue[q].loop = "next" /\ queue[q].items # <<>>
                    /\ ~queue[q].failed /\ ~notebookClosed
                    /\ exec[Head(queue[q].items)].cell \notin closedCells
                    /\ wrapper[exec[Head(queue[q].items)].execution] # "ended"
                    /\ StartBegins(Head(queue[q].items))
                    /\ \A p \in Execs : queue'[p].failed = queue[p].failed
StepQueues(d) ==
    /\ nExecs + 1 \in Execs /\ \E c \in Cells : Create(c, d)
    /\ docQueue' = d /\ d \in Born \cup {nExecs + 1}
    /\ UNCHANGED <<interruptCall, restartCall, interruptPromise, notebookClosed>>
    /\ \A q \in Execs \ {d} : queue'[q] = queue[q] /\ (queue[q].failed \/ queue[q].items = <<>>)
    /\ ~queue[d].failed /\ ~queue'[d].failed
    /\ Items(d)' = Items(d) \cup {nExecs + 1}
    /\ \/ /\ queue[d].loop \notin {"none", "done"} /\ d \in Born
          /\ queue'[d].loop = queue[d].loop /\ queue'[d].cell = queue[d].cell
       \/ d = nExecs + 1 /\ queue'[d].loop = "awaitSession"

(* What is left alone has proceeded.                                       *)
LEMMA SameQueueProceeds ==
    ASSUME NEW q, queue'[q] = queue[q]
    PROVE  QueueProceeds(q)
<1>1. Items(q)' = Items(q)
  BY DEF Items, Members
<1>2. QED
  BY <1>1 DEF QueueProceeds

LEMMA SettledWrappers ==
    ASSUME CellsSettle
    PROVE  \A w \in Execs : wrapper[w] = "ended" => wrapper'[w] = "ended"
  BY DEF CellsSettle, EndExecutions

LEMMA SteadyRunEnds ==
    ASSUME NEW e, exec'[e] = exec[e]
    PROVE  RunEnds(e)
  BY DEF RunEnds

(* A step that only touches the queue q, if any.                           *)
LEMMA OneQueueSettles ==
    ASSUME CellsSettle, NEW q, docQueue' = docQueue, notebookClosed' = notebookClosed,
           \A p \in Execs \ {q} : queue'[p] = queue[p],
           q \in Execs => QueueProceeds(q),
           \A r \in Restarts : restartCall'[r].queue \in {restartCall[r].queue, docQueue},
           \A e \in Execs : RunEnds(e)
    PROVE  StepSettles
<1>1. \A p \in Execs : QueueProceeds(p)
  BY SameQueueProceeds
<1>2. QED
  BY <1>1, SettledWrappers DEF StepSettles, QueuesProceed, CellsSettle

(* A cancel() of runs of one queue, which fails with it.                   *)
LEMMA CancelProceeds ==
    ASSUME BaseInv, OwnerInv, NEW q \in Execs, NEW s, NEW forced \in BOOLEAN,
           Members(s) \subseteq Items(q),
           CancelExecs(Cancellable(s, forced)),
           docQueue' = docQueue, notebookClosed' = notebookClosed,
           \A r \in Restarts : restartCall'[r].queue \in {restartCall[r].queue, docQueue},
           \A p \in Execs \ {q} : queue'[p] = queue[p],
           queue'[q].failed, queue'[q].cell = queue[q].cell, q \in Born,
           \/ queue'[q].loop = queue[q].loop
           \/ queue'[q].loop = "done" /\ queue[q].loop # "none" /\ queue'[q].items = <<>>,
           \/ queue'[q].items = queue[q].items /\ Members(s) = Items(q)
           \/ /\ queue'[q].items = <<>>
              /\ \A e \in Items(q) : exec[e].result = "pending" =>
                    \/ e \in Members(s) /\ (forced \/ ~exec[e].started)
                    \/ QueuedTooLate(e)
    PROVE  StepSettles
<1> USE DEF BaseInv
<1> DEFINE S == Cancellable(s, forced)
<1>1. CellsSettle /\ \A e \in Execs \cap S : exec'[e].result # "pending"
  BY CancelSettles DEF TypeInv, TypeOK
<1>2. /\ nExecs' = nExecs
      /\ \A e \in Execs :
            /\ exec'[e].queue = exec[e].queue /\ exec'[e].started = exec[e].started
            /\ exec'[e].run = exec[e].run
            /\ exec'[e].result = "pending" => exec[e].result = "pending"
            /\ e \notin S => exec'[e] = exec[e]
  BY CancelRuns
<1>3. \A e \in Items(q) : e \in Born /\ e \in Execs /\ exec[e].queue = q
  BY ListedRun
<1>4. S \subseteq Items(q)
  BY DEF Cancellable
<1>5. \A e \in Members(s) : exec[e].result = "pending" => e \in S \/ (~forced /\ exec[e].started)
  BY <1>3 DEF Cancellable, OwnerInv, UnresolvedRunsAreIntact
<1> HIDE DEF S
<1>6. ASSUME NEW e \in Execs PROVE RunEnds(e)
  BY <1>2, <1>3, <1>4 DEF RunEnds
<1>7. QueueProceeds(q)
  <2>1. Items(q)' \subseteq Items(q) /\ (queue[q].items = <<>> => queue'[q].items = <<>>)
    <3>1. CASE queue'[q].items = <<>>
      BY <3>1, NothingInEmptyList DEF Items
    <3>2. CASE queue'[q].items = queue[q].items
      BY <3>2 DEF Items, Members
    <3>3. QED
      BY <3>1, <3>2
  <2>2. ASSUME NEW e \in Items(q)
        PROVE  e \in Items(q)' \/ exec'[e].result # "pending" \/ QueuedTooLate(e)'
    <3>1. CASE queue'[q].items = queue[q].items
      BY <3>1 DEF Items, Members
    <3>2. CASE exec[e].result = "pending" /\ queue'[q].items = <<>> /\ QueuedTooLate(e) /\ e \notin S
      BY <1>2, <1>3, <3>2 DEF QueuedTooLate
    <3>3. CASE e \in S \/ exec[e].result # "pending"
      BY <1>1, <1>2, <1>3, <3>3
    <3>4. QED
      BY <1>5, <3>1, <3>2, <3>3
  <2>3. \A e \in Items(q)' : exec'[e].result = "pending" => exec[e].started
    <3>1. CASE queue'[q].items = <<>>
      BY <3>1, NothingInEmptyList DEF Items
    <3>2. CASE Members(s) = Items(q)
      BY <1>1, <1>2, <1>3, <1>5, <2>1, <3>2
    <3>3. QED
      BY <3>1, <3>2
  <2>4. QED
    BY <2>1, <2>2, <2>3 DEF QueueProceeds
<1>8. QED
  BY <1>1, <1>6, <1>7, OneQueueSettles

LEMMA CancelQueueProceeds ==
    ASSUME BaseInv, OwnerInv, NEW q \in Execs, NEW s, Members(s) \subseteq Items(q),
           CancelQueue(q, s), UNCHANGED <<docQueue, callVars, notebookClosed>>,
           queue[q].loop # "none", q \in Born,
           \A e \in Items(q) : exec[e].result = "pending" =>
              (e \in Members(s) /\ ~exec[e].started) \/ QueuedTooLate(e)
    PROVE  StepSettles
<1> DEFINE t == [queue[q] EXCEPT !.failed = TRUE, !.items = <<>>, !.loop = "done"]
<1>1. queue[q] \in QueueRec /\ queue' = [queue EXCEPT ![q] = t]
  BY QueueFields DEF BaseInv, TypeInv, CancelQueue
<1>2. t.failed /\ t.cell = queue[q].cell /\ t.loop = "done" /\ t.items = <<>>
  BY <1>1, ChangedQueueFields
<1> HIDE DEF t
<1>3. (\A p \in Execs \ {q} : queue'[p] = queue[p]) /\ queue'[q] = t
  BY <1>1 DEF BaseInv, TypeInv, TypeOK
<1>4. CancelExecs(Cancellable(s, FALSE)) /\ restartCall' = restartCall
  BY DEF CancelQueue, callVars
<1>5. QED
  BY <1>2, <1>3, <1>4, CancelProceeds

(* Steps that leave the queues alone.                                      *)
LEMMA SameQueuesProceed ==
    ASSUME CellsSettle, queue' = queue, docQueue' = docQueue,
           notebookClosed' = notebookClosed,
           \A r \in Restarts : restartCall'[r].queue \in {restartCall[r].queue, docQueue},
           \A e \in Execs : RunEnds(e)
    PROVE  StepSettles
<1>1. \A p \in Execs : QueueProceeds(p)
  BY SameQueueProceeds
<1>2. QED
  BY <1>1, SettledWrappers DEF StepSettles, QueuesProceed, CellsSettle

LEMMA NothingProceeds ==
    ASSUME CellTypeOK, UNCHANGED cellVars
    PROVE  CellsSettle /\ \A e \in Execs : RunEnds(e)
  BY NothingSettles, SteadyRunEnds DEF cellVars

LEMMA DoomProceeds ==
    ASSUME TypeInv, NEW S, DoomRequests(S)
    PROVE  CellsSettle /\ \A e \in Execs : RunEnds(e)
<1>1. CellsSettle
  BY DoomSettles DEF TypeInv, TypeOK
<1>2. \A e \in Execs : RunEnds(e)
  BY DoomedRuns DEF RunEnds
<1>3. QED
  BY <1>1, <1>2

(* VS Code or the kernel answers a run that is under way.                  *)
LEMMA AnswersProceed ==
    ASSUME BaseInv, NEW e \in Execs,
           ClearOutputDone(e) \/ KernelReplies(e) \/ RequestRejected(e)
    PROVE  StepSettles
<1> USE DEF BaseInv
<1>1. \/ \E hasErrorOutput \in BOOLEAN : CompletedSuccessfully(e, hasErrorOutput)
      \/ CompletedWithErrors(e)
      \/ SendRequest(e)
  BY DEF ClearOutputDone, KernelReplies, RequestRejected
<1>2. /\ \A f \in Execs \ {e} : exec'[f] = exec[f]
      /\ exec'[e].queue = exec[e].queue /\ exec'[e].started = exec[e].started
      /\ exec'[e].result = "pending" => exec[e].result = "pending"
      /\ exec'[e].run \in {"settled", "running"}
  BY <1>1, CompletedRuns
<1>3. /\ CellsSettle
      /\ \/ exec'[e].result # "pending"
         \/ exec'[e].run = "running"
         \/ /\ exec[e].execution # None /\ wrapper[exec[e].execution] = "ended"
            /\ UNCHANGED wrapper
  BY <1>1, CompletedSettles DEF TypeInv, TypeOK
<1>4. exec'[e].result = "pending" => exec'[e].execution = exec[e].execution
  BY <1>3 DEF CellsSettle, RunSettles
<1>5. exec[e].run # "none"
  BY DEF ClearOutputDone, KernelReplies, RequestRejected
<1>6. \A f \in Execs : RunEnds(f)
  <2>1. RunEnds(e)
    BY <1>2, <1>3, <1>4, <1>5 DEF RunEnds, ExecutionTaken
  <2>2. QED
    BY <1>2, <2>1, SteadyRunEnds
<1>7. UNCHANGED <<docQueue, restartCall, notebookClosed>>
  BY DEF ClearOutputDone, KernelReplies, RequestRejected, queueVars, callVars
<1>8. CASE UNCHANGED queueVars
  BY <1>3, <1>6, <1>7, <1>8, SameQueuesProceed DEF queueVars
<1>9. CASE ClearOutputDone(e)
  <2>1. PICK q \in Execs : q = exec[e].queue /\ queue[q].loop = "awaitStart"
    BY <1>9, ClearingRun DEF ClearOutputDone
  <2> DEFINE t == [queue[q] EXCEPT !.loop = "awaitResult"]
  <2>2. queue[q] \in QueueRec /\ queue' = [queue EXCEPT ![q] = t]
    BY <1>9, <2>1, QueueFields DEF TypeInv, ClearOutputDone
  <2>3. /\ t.failed = queue[q].failed /\ t.items = queue[q].items
        /\ t.loop = "awaitResult" /\ t.cell = queue[q].cell
    BY <2>2, ChangedQueueFields
  <2> HIDE DEF t
  <2>4. (\A p \in Execs \ {q} : queue'[p] = queue[p]) /\ queue'[q] = t
    BY <2>1, <2>2 DEF TypeInv, TypeOK
  <2>5. Items(q)' = Items(q)
    BY <2>3, <2>4 DEF Items, Members
  <2>6. QueueProceeds(q)
    BY <2>1, <2>3, <2>4, <2>5 DEF QueueProceeds
  <2>7. QED
    BY <1>3, <1>6, <1>7, <2>4, <2>6, OneQueueSettles
<1>10. QED
  BY <1>8, <1>9 DEF KernelReplies, RequestRejected

(* Sessions and kernels.                                                   *)
LEMMA SessionsProceed ==
    ASSUME BaseInv, NEW s \in Sessions,
           \/ StartKernel(s) \/ SessionStarted(s) \/ SessionFailed(s)
           \/ KernelDies(s) \/ SessionDisposed(s)
    PROVE  StepSettles
<1>1. /\ UNCHANGED cellVars \/ DoomRequests(RunsOn(s))
      /\ UNCHANGED <<queueVars, callVars, notebookClosed>>
  BY DEF StartKernel, SessionStarted, SessionFailed, KernelDies, SessionDisposed
<1>2. CellsSettle /\ \A e \in Execs : RunEnds(e)
  BY <1>1, NothingProceeds, DoomProceeds DEF BaseInv, TypeInv, TypeOK
<1>3. QED
  BY <1>1, <1>2, SameQueuesProceed DEF queueVars, callVars

(* interrupt().                                                            *)
LEMMA InterruptsProceed ==
    ASSUME BaseInv, OwnerInv, InterruptInv, NEW i \in Interrupts,
           \/ Interrupt(i) \/ InterruptSessionSettled(i) \/ InterruptCellsSettled(i)
           \/ InterruptSucceeds(i) \/ InterruptGivesUp(i) \/ InterruptShared(i)
    PROVE  StepSettles
<1> USE DEF BaseInv
<1>1. UNCHANGED <<docQueue, restartCall, notebookClosed>>
  BY DEF Interrupt, InterruptSessionSettled, InterruptCellsSettled, InterruptSucceeds,
         InterruptGivesUp, InterruptShared, Returns, queueVars
<1>2. CASE InterruptSessionSettled(i)
  <2>1. PICK q \in Execs : q = interruptCall[i].queue /\ q \in Born
    BY <1>2 DEF InterruptSessionSettled, TypeInv, InterruptsHaveQueue, QueueInv,
                InterruptedQueuesFailed, Born, Execs, None, TypeOK, CellTypeOK
  <2> DEFINE t == [queue[q] EXCEPT !.failed = TRUE]
  <2>2. queue[q] \in QueueRec /\ queue' = [queue EXCEPT ![q] = t]
    BY <1>2, <2>1, QueueFields DEF TypeInv, InterruptSessionSettled
  <2>3. /\ t.failed /\ t.items = queue[q].items /\ t.loop = queue[q].loop
        /\ t.cell = queue[q].cell
    BY <2>2, ChangedQueueFields
  <2> HIDE DEF t
  <2>4. (\A p \in Execs \ {q} : queue'[p] = queue[p]) /\ queue'[q] = t
    BY <2>1, <2>2 DEF TypeInv, TypeOK
  <2>5. CancelExecs(Cancellable(queue[q].items, FALSE))
    BY <1>2, <2>1 DEF InterruptSessionSettled
  <2>6. Members(queue[q].items) = Items(q)
    BY DEF Items
  <2>7. QED
    BY <1>1, <2>1, <2>3, <2>4, <2>5, <2>6, CancelProceeds
<1>3. CASE InterruptCellsSettled(i)
  <2>1. PICK q \in Execs : q = interruptCall[i].queue /\ q \in Born /\ queue[q].failed
    BY <1>3, QueueNames DEF InterruptCellsSettled, CellsSettled, QueueInv,
                            InterruptedQueuesFailed
  <2>2. \A e \in Items(q) : exec[e].result # "pending"
    BY <1>3, <2>1 DEF InterruptCellsSettled, CellsSettled, InterruptInv, InterruptSound, Resolved
  <2> DEFINE t == [queue[q] EXCEPT !.items = <<>>]
  <2>3. queue[q] \in QueueRec /\ queue' = [queue EXCEPT ![q] = t]
    BY <1>3, <2>1, QueueFields DEF TypeInv, InterruptCellsSettled
  <2>4. /\ t.failed = queue[q].failed /\ t.items = <<>> /\ t.loop = queue[q].loop
        /\ t.cell = queue[q].cell
    BY <2>3, ChangedQueueFields
  <2> HIDE DEF t
  <2>5. (\A p \in Execs \ {q} : queue'[p] = queue[p]) /\ queue'[q] = t
    BY <2>1, <2>3 DEF TypeInv, TypeOK
  <2>6. UNCHANGED cellVars
    BY <1>3 DEF InterruptCellsSettled
  <2>7. Items(q)' = {}
    BY <2>4, <2>5, NothingInEmptyList DEF Items
  <2>8. QueueProceeds(q)
    BY <2>1, <2>2, <2>4, <2>5, <2>6, <2>7 DEF QueueProceeds, cellVars
  <2>9. CellsSettle /\ \A e \in Execs : RunEnds(e)
    BY <2>6, NothingProceeds DEF TypeInv, TypeOK
  <2>10. QED
    BY <1>1, <2>5, <2>8, <2>9, OneQueueSettles
<1>4. CASE Interrupt(i) \/ InterruptSucceeds(i) \/ InterruptGivesUp(i) \/ InterruptShared(i)
  <2>1. UNCHANGED <<cellVars, queueVars>>
    BY <1>4 DEF Interrupt, InterruptSucceeds, InterruptGivesUp, InterruptShared, Returns
  <2>2. CellsSettle /\ \A e \in Execs : RunEnds(e)
    BY <2>1, NothingProceeds DEF TypeInv, TypeOK
  <2>3. QED
    BY <1>1, <2>1, <2>2, SameQueuesProceed DEF queueVars
<1>5. QED
  BY <1>2, <1>3, <1>4

(* restart().                                                              *)
LEMMA RestartsProceed ==
    ASSUME BaseInv, OwnerInv, JobInv, NEW r \in Restarts,
           \/ Restart(r) \/ RestartSessionSettled(r) \/ RestartSucceeds(r) \/ RestartFails(r)
    PROVE  StepSettles
<1> USE DEF BaseInv
<1>1. UNCHANGED <<docQueue, notebookClosed>>
  BY DEF Restart, RestartSessionSettled, RestartSucceeds, RestartFails, RestartSettles,
         queueVars
<1>2. \A t \in Restarts : restartCall'[t].queue \in {restartCall[t].queue, docQueue}
  <2>1. \A t \in Restarts : restartCall[t] \in RestartRec
    BY DEF TypeInv, TypeOK
  <2>2. CASE Restart(r)
    BY <2>1, <2>2 DEF Restart, RestartRec, TypeInv, TypeOK
  <2>3. CASE RestartSessionSettled(r)
    <3> DEFINE x == IF restartPromise = None THEN r ELSE restartPromise
    <3>1. \/ restartCall' = [restartCall EXCEPT ![r].pc = "done"]
          \/ restartCall' = [restartCall EXCEPT ![r].pc = "awaitRestart", ![r].on = x]
      BY <2>3 DEF RestartSessionSettled
    <3> HIDE DEF x
    <3>2. QED
      BY <2>1, <3>1 DEF RestartRec, TypeInv, TypeOK
  <2>4. CASE RestartSucceeds(r) \/ RestartFails(r)
    BY <2>1, <2>4 DEF RestartSucceeds, RestartFails, RestartSettles, RestartRec
  <2>5. QED
    BY <2>2, <2>3, <2>4
<1>3. CASE Restart(r)
  <2>1. CellsSettle /\ \A e \in Execs : RunEnds(e)
    BY <1>3, NothingProceeds DEF Restart, TypeInv, TypeOK
  <2>2. QED
    BY <1>1, <1>2, <1>3, <2>1, SameQueuesProceed DEF Restart, queueVars
<1>4. CASE RestartSessionSettled(r)
  <2> DEFINE q == restartCall[r].queue
  <2>1. CASE q = None
    <3>1. UNCHANGED <<cellVars, queue>>
      BY <1>4, <2>1 DEF RestartSessionSettled
    <3>2. CellsSettle /\ \A e \in Execs : RunEnds(e)
      BY <3>1, NothingProceeds DEF TypeInv, TypeOK
    <3>3. QED
      BY <1>1, <1>2, <3>1, <3>2, SameQueuesProceed
  <2>2. CASE q # None
    <3>1. q \in Execs /\ q \in Born
      BY <2>2, QueueNames DEF JobInv, QueuesAreNamedByRuns, Born, None
    <3> DEFINE t == [queue[q] EXCEPT !.failed = TRUE, !.items = <<>>]
    <3>2. queue[q] \in QueueRec /\ queue' = [queue EXCEPT ![q] = t]
      BY <1>4, <2>2, <3>1, QueueFields DEF TypeInv, RestartSessionSettled
    <3>3. t.failed /\ t.items = <<>> /\ t.loop = queue[q].loop /\ t.cell = queue[q].cell
      BY <3>2, ChangedQueueFields
    <3> HIDE DEF t
    <3>4. (\A p \in Execs \ {q} : queue'[p] = queue[p]) /\ queue'[q] = t
      BY <3>1, <3>2 DEF TypeInv, TypeOK
    <3>5. CancelExecs(Cancellable(queue[q].items, TRUE))
      BY <1>4, <2>2 DEF RestartSessionSettled
    <3>6. Members(queue[q].items) = Items(q)
      BY DEF Items
    <3> HIDE DEF q
    <3>7. QED
      BY <1>1, <1>2, <3>1, <3>3, <3>4, <3>5, <3>6, CancelProceeds
  <2>3. QED
    BY <2>1, <2>2
<1>5. CASE RestartSucceeds(r) \/ RestartFails(r)
  <2>1. DoomRequests(RunsOn(restartCall[r].session)) /\ UNCHANGED queueVars
    BY <1>5 DEF RestartSucceeds, RestartFails, RestartSettles
  <2>2. CellsSettle /\ \A e \in Execs : RunEnds(e)
    BY <2>1, DoomProceeds
  <2>3. QED
    BY <1>1, <1>2, <2>1, <2>2, SameQueuesProceed DEF queueVars
<1>6. QED
  BY <1>3, <1>4, <1>5

(* Cells and notebooks are closed.                                         *)
LEMMA CloseCellProceeds ==
    ASSUME BaseInv, OwnerInv, JobInv, NEW c \in Cells, CloseCell(c)
    PROVE  StepSettles
<1> USE DEF BaseInv
<1> DEFINE D == {c}
           C == {}
<1>1. /\ CloseAndCancel(D, C) /\ UNCHANGED <<queueVars, callVars, notebookClosed>>
      /\ D \in SUBSET Cells /\ \A e \in Execs : e \notin C
  BY DEF CloseCell
<1> HIDE DEF D, C
<1>2. \A e \in Execs :
         /\ exec'[e].queue = exec[e].queue /\ exec'[e].started = exec[e].started
         /\ exec'[e].result = "pending" => exec[e].result = "pending"
         /\ exec'[e].run = exec[e].run \/ (exec[e].run # "none" /\ exec'[e].run = "doomed")
  BY <1>1, ClosedRuns
<1>3. /\ CellsSettle
      /\ \A e \in Execs : (exec[e].result = "pending" /\ exec'[e].result # "pending")
                              => e \in C \/ (e \in Born /\ exec[e].started)
  BY <1>1, CloseSettles DEF TypeInv, TypeOK
<1>4. \A e \in Execs : RunEnds(e)
  BY <1>1, <1>2, <1>3 DEF RunEnds, JobInv, RejectedRunsFailed, queueVars
<1>5. QED
  BY <1>1, <1>3, <1>4, SameQueuesProceed DEF queueVars, callVars

LEMMA CloseNotebookProceeds ==
    ASSUME BaseInv, OwnerInv, JobInv, CloseNotebook
    PROVE  StepSettles
<1> USE DEF BaseInv
<1> DEFINE Q == {q \in Queues : ~queue[q].failed \/ queue[q].items # <<>>}
           C == UNION {Cancellable(queue[q].items, TRUE) : q \in Q}
           D == Cells
<1>1. /\ CloseAndCancel(D, C) /\ notebookClosed'
      /\ queue' = [q \in Execs |->
            IF q \in Q THEN [queue[q] EXCEPT !.failed = TRUE, !.items = <<>>] ELSE queue[q]]
      /\ UNCHANGED <<docQueue, callVars>>
  BY DEF CloseNotebook
<1>2. \A q \in Q : \A e \in Items(q) : exec[e].result = "pending" => e \in C
  <2> SUFFICES ASSUME NEW q \in Q, NEW e \in Items(q), exec[e].result = "pending"
               PROVE  e \in Cancellable(queue[q].items, TRUE)
    OBVIOUS
  <2>1. e \in Born
    BY ListedRun DEF Queues
  <2>2. QED
    BY <2>1 DEF Cancellable, Items, OwnerInv, UnresolvedRunsAreIntact
<1> HIDE DEF C
<1>3. /\ nExecs' = nExecs
      /\ \A e \in Execs :
            /\ exec'[e].queue = exec[e].queue /\ exec'[e].started = exec[e].started
            /\ exec'[e].result = "pending" => exec[e].result = "pending"
            /\ exec'[e].run = exec[e].run \/ (exec[e].run # "none" /\ exec'[e].run = "doomed")
            /\ (~exec[e].started /\ e \notin C) => exec'[e].result = exec[e].result
  BY <1>1, ClosedRuns
<1>4. /\ CellsSettle /\ closedCells' = closedCells \cup Cells
      /\ \A e \in Execs \cap C : exec'[e].result # "pending"
  BY <1>1, CloseSettles DEF TypeInv, TypeOK
<1>5. closedCells' = Cells
  BY <1>4 DEF TypeInv, TypeOK, CellTypeOK
<1>6. ASSUME NEW q \in Execs
      PROVE  /\ q \in Queues => queue'[q].failed
             /\ q \in Q => /\ queue'[q].failed /\ queue'[q].items = <<>>
                           /\ queue'[q].loop = queue[q].loop
                           /\ queue'[q].cell = queue[q].cell
             /\ q \notin Q => queue'[q] = queue[q]
  <2> DEFINE t == [queue[q] EXCEPT !.failed = TRUE, !.items = <<>>]
  <2>1. t.failed /\ t.items = <<>> /\ t.loop = queue[q].loop /\ t.cell = queue[q].cell
    BY QueueFields, ChangedQueueFields DEF TypeInv
  <2>2. queue'[q] = IF q \in Q THEN t ELSE queue[q]
    BY <1>1
  <2>3. q \in Queues \ Q => queue[q].failed
    OBVIOUS
  <2> HIDE DEF t, Q
  <2>4. QED
    BY <2>1, <2>2, <2>3
<1>7. \A q \in Q : q \in Execs /\ queue[q].loop # "none"
  BY DEF Queues
<1> HIDE DEF Q
<1>8. ASSUME NEW q \in Execs PROVE QueueProceeds(q)
  <2>1. CASE q \in Q
    <3>1. q \in Born
      BY <1>7, <2>1 DEF JobInv, QueuesAreNamedByRuns
    <3>2. Items(q)' = {}
      BY <1>6, <2>1, NothingInEmptyList DEF Items
    <3>3. \A e \in Items(q) : exec'[e].result # "pending"
      BY <1>2, <1>3, <1>4, <2>1, ListedRun
    <3>4. QED
      BY <1>6, <2>1, <3>1, <3>2, <3>3 DEF QueueProceeds
  <2>2. CASE q \notin Q
    BY <1>6, <2>2, SameQueueProceeds
  <2>3. QED
    BY <2>1, <2>2
<1>9. ASSUME NEW e \in Execs PROVE RunEnds(e)
  <2>1. e \in Born => queue'[exec[e].queue].failed
    BY <1>6, QueueNames DEF QueueInv, RunsBelongToQueues, Queues
  <2>2. (exec[e].result = "pending" /\ exec'[e].result # "pending") => e \in Born
    <3>1. e \in C => e \in Born
      BY <1>7, ListedRun DEF C, Cancellable, Items
    <3>2. exec[e].started => e \in Born
      BY DEF QueueInv, RunsBelongToQueues
    <3>3. QED
      BY <1>3, <3>1, <3>2
  <2>3. QED
    BY <1>3, <2>1, <2>2 DEF RunEnds
<1>10. QED
  BY <1>1, <1>4, <1>5, <1>6, <1>8, <1>9, SettledWrappers
     DEF StepSettles, QueuesProceed, CellsSettle, Queues, callVars

(* The loop of a queue.                                                    *)
LEMMA BetweenTurns ==
    ASSUME BaseInv, NEW q \in Execs,
           \/ Waiting(q)
           \/ queue[q].loop = "awaitResult" /\ Resolved({queue[q].cell})
    PROVE  \A e \in Items(q) : exec[e].result = "pending" => ~exec[e].started
  BY ListedRun DEF BaseInv, QueueInv, StartedRunIsCurrent, Waiting, Resolved, Unresolved

LEMMA HeadOrRest ==
    ASSUME NEW s \in Seq(Execs), s # <<>>, NEW e \in Members(s)
    PROVE  e = Head(s) \/ e \in Members(Tail(s))
<1>1. /\ Len(s) \in Nat /\ Len(s) > 0 /\ DOMAIN s = 1..Len(s) /\ Head(s) = s[1]
  OBVIOUS
<1>2. /\ Tail(s) \in Seq(Execs) /\ Len(Tail(s)) = Len(s) - 1
      /\ \A i \in 1..Len(Tail(s)) : Tail(s)[i] = s[i + 1]
  BY HeadTailProperties
<1>3. PICK i \in 1..Len(s) : e = s[i]
  BY <1>1 DEF Members
<1>4. CASE i # 1
  <2>1. i - 1 \in 1..Len(Tail(s)) /\ (i - 1) + 1 = i
    BY <1>1, <1>2, <1>4
  <2>2. Tail(s)[i - 1] = e /\ i - 1 \in DOMAIN Tail(s)
    BY <1>2, <1>3, <2>1
  <2>3. QED
    BY <2>2 DEF Members
<1>5. QED
  BY <1>1, <1>3, <1>4

LEMMA NamedQueue ==
    ASSUME JobInv, NEW q \in Execs, queue[q].loop # "none"
    PROVE  q \in Born
  BY DEF JobInv, QueuesAreNamedByRuns

LEMMA LoopSessionProceeds ==
    ASSUME BaseInv, OwnerInv, JobInv, NEW q \in Execs, LoopSessionSettled(q)
    PROVE  StepSettles
<1> USE DEF BaseInv
<1>1. /\ queue[q].loop = "awaitSession" /\ q \in Born
      /\ UNCHANGED <<docQueue, callVars, notebookClosed>>
  BY NamedQueue DEF LoopSessionSettled
<1>2. \A e \in Items(q) : exec[e].result = "pending" => ~exec[e].started
  BY <1>1, BetweenTurns DEF Waiting
<1>3. CASE CancelQueue(q, queue[q].items)
  BY <1>1, <1>2, <1>3, CancelQueueProceeds DEF Items
<1>4. CASE queue' = [queue EXCEPT ![q].loop = "next"] /\ UNCHANGED cellVars
  <2> DEFINE t == [queue[q] EXCEPT !.loop = "next"]
  <2>1. queue[q] \in QueueRec /\ queue' = [queue EXCEPT ![q] = t]
    BY <1>4, QueueFields DEF TypeInv
  <2>2. t.failed = queue[q].failed /\ t.items = queue[q].items /\ t.loop = "next"
    BY <2>1, ChangedQueueFields
  <2> HIDE DEF t
  <2>3. (\A p \in Execs \ {q} : queue'[p] = queue[p]) /\ queue'[q] = t
    BY <2>1 DEF TypeInv, TypeOK
  <2>4. Items(q)' = Items(q)
    BY <2>2, <2>3 DEF Items, Members
  <2>5. QueueProceeds(q)
    BY <1>1, <1>2, <2>2, <2>3, <2>4 DEF QueueProceeds
  <2>6. CellsSettle /\ \A e \in Execs : RunEnds(e)
    BY <1>4, NothingProceeds DEF TypeInv, TypeOK
  <2>7. QED
    BY <1>1, <2>3, <2>5, <2>6, OneQueueSettles DEF callVars
<1>5. QED
  BY <1>3, <1>4 DEF LoopSessionSettled

LEMMA LoopResultProceeds ==
    ASSUME BaseInv, OwnerInv, JobInv, NEW q \in Execs, LoopResultSettled(q)
    PROVE  StepSettles
<1> USE DEF BaseInv
<1> DEFINE s == queue[q].items
           rest == IF s # <<>> /\ Head(s) = queue[q].cell THEN Tail(s) ELSE s
<1>1. /\ queue[q].loop = "awaitResult" /\ Resolved({queue[q].cell}) /\ q \in Born
      /\ UNCHANGED <<docQueue, callVars, notebookClosed>>
  BY NamedQueue DEF LoopResultSettled
<1>2. \A e \in Items(q) : exec[e].result = "pending" => ~exec[e].started
  BY <1>1, BetweenTurns
<1>3. Members(rest) \subseteq Items(q)
  BY RestOfList DEF Items
<1>4. \A e \in Items(q) : exec[e].result = "pending" => e \in Members(rest)
  <2>1. s \in Seq(Execs)
    BY QueueFields DEF TypeInv
  <2>2. \A e \in Items(q) : exec[e].result = "pending" => e # queue[q].cell
    BY <1>1 DEF Resolved
  <2>3. s # <<>> => \A e \in Items(q) : e = Head(s) \/ e \in Members(Tail(s))
    BY <2>1, HeadOrRest DEF Items
  <2>4. QED
    BY <2>2, <2>3 DEF Items
<1>5. CASE CancelQueue(q, rest)
  <2> HIDE DEF rest
  <2>1. QED
    BY <1>1, <1>2, <1>3, <1>4, <1>5, CancelQueueProceeds
<1>6. CASE /\ ~queue[q].failed
           /\ queue' = [queue EXCEPT ![q].items = rest, ![q].loop = "next"]
           /\ UNCHANGED cellVars
  <2> DEFINE t == [queue[q] EXCEPT !.items = rest, !.loop = "next"]
  <2>1. queue[q] \in QueueRec /\ queue' = [queue EXCEPT ![q] = t]
    BY <1>6, QueueFields DEF TypeInv
  <2>2. t.failed = queue[q].failed /\ t.items = rest /\ t.loop = "next"
    BY <2>1, ChangedQueueFields
  <2> HIDE DEF t
  <2>3. (\A p \in Execs \ {q} : queue'[p] = queue[p]) /\ queue'[q] = t
    BY <2>1 DEF TypeInv, TypeOK
  <2>4. Items(q)' = Members(rest)
    BY <2>2, <2>3 DEF Items, Members
  <2>5. s # <<>>
    BY <1>1, <1>6 DEF QueueInv, HealthyQueuesAreInOrder, QueueIsInOrder
  <2> HIDE DEF rest
  <2>6. QueueProceeds(q)
    BY <1>1, <1>2, <1>3, <1>4, <1>6, <2>2, <2>3, <2>4, <2>5 DEF QueueProceeds, cellVars
  <2>7. CellsSettle /\ \A e \in Execs : RunEnds(e)
    BY <1>6, NothingProceeds DEF TypeInv, TypeOK
  <2>8. QED
    BY <1>1, <2>3, <2>6, <2>7, OneQueueSettles DEF callVars
<1>7. QED
  BY <1>5, <1>6 DEF LoopResultSettled

(* The cell whose turn it is.                                              *)
LEMMA FirstHasItsTurn ==
    ASSUME BaseInv, NEW q \in Execs, queue[q].loop = "next", ~queue[q].failed,
           queue[q].items # <<>>
    PROVE  LET h == Head(queue[q].items)
           IN  /\ h \in Items(q) /\ h \in Born /\ h \in Execs /\ exec[h].queue = q
               /\ exec[h].result = "pending" /\ ~exec[h].started /\ exec[h].run = "none"
               /\ ItsTurn(h)
<1> USE DEF BaseInv
<1> DEFINE h == Head(queue[q].items)
<1>1. h \in Items(q) /\ h \in Born /\ h \in Execs /\ exec[h].queue = q
  BY FirstIsOldest, ListedRun
<1>2. QueueIsInOrder(q) /\ Waiting(q)
  BY DEF QueueInv, HealthyQueuesAreInOrder, Waiting
<1>3. exec[h].result = "pending" /\ ~exec[h].started /\ exec[h].run = "none"
  BY <1>1, <1>2 DEF QueueIsInOrder, QueueInv, RunsBelongToQueues
<1>4. ASSUME NEW p \in Born, p < h, exec[p].queue = q
      PROVE  exec[p].result # "pending"
  <2>1. p \notin Items(q)
    BY <1>4, <1>1, FirstIsOldest, QueueNames DEF Execs
  <2>2. QED
    BY <1>2, <1>4, <2>1 DEF QueueIsInOrder, Unresolved
<1>5. QED
  BY <1>1, <1>3, <1>4 DEF ItsTurn

LEMMA LoopNextProceeds ==
    ASSUME BaseInv, OwnerInv, JobInv, LostInv, NEW q \in Execs, LoopNext(q)
    PROVE  StepSettles \/ StepStarts
<1> USE DEF BaseInv
<1> DEFINE s == queue[q].items
           h == Head(s)
<1>1. /\ queue[q].loop = "next" /\ q \in Born
      /\ UNCHANGED <<docQueue, callVars, notebookClosed>>
  BY NamedQueue DEF LoopNext
<1>2. \A e \in Items(q) : exec[e].result = "pending" => ~exec[e].started
  BY <1>1, BetweenTurns DEF Waiting
<1>3. CASE s = <<>> /\ queue' = [queue EXCEPT ![q].loop = "done"] /\ UNCHANGED cellVars
  <2> DEFINE t == [queue[q] EXCEPT !.loop = "done"]
  <2>1. queue[q] \in QueueRec /\ queue' = [queue EXCEPT ![q] = t]
    BY <1>3, QueueFields DEF TypeInv
  <2>2. t.failed = queue[q].failed /\ t.items = queue[q].items /\ t.loop = "done"
    BY <2>1, ChangedQueueFields
  <2> HIDE DEF t
  <2>3. (\A p \in Execs \ {q} : queue'[p] = queue[p]) /\ queue'[q] = t
    BY <2>1 DEF TypeInv, TypeOK
  <2>4. Items(q)' = Items(q)
    BY <2>2, <2>3 DEF Items, Members
  <2>5. QueueProceeds(q)
    BY <1>1, <1>3, <2>2, <2>3, <2>4 DEF QueueProceeds
  <2>6. CellsSettle /\ \A e \in Execs : RunEnds(e)
    BY <1>3, NothingProceeds DEF TypeInv, TypeOK
  <2>7. QED
    BY <1>1, <2>3, <2>5, <2>6, OneQueueSettles DEF callVars
<1>4. CASE s # <<>> /\ (notebookClosed \/ queue[q].failed) /\ CancelQueue(q, Tail(s))
  <2>1. ASSUME NEW e \in Items(q), exec[e].result = "pending"
        PROVE  (e \in Members(Tail(s)) /\ ~exec[e].started) \/ QueuedTooLate(e)
    <3>1. e \in Born /\ exec[e].queue = q /\ ~exec[e].started
      BY <1>2, <2>1, ListedRun
    <3>2. ~queue[q].failed
      BY <2>1, <3>1 DEF LostInv, FailedQueuesHoldStartedRuns
    <3>3. QED
      BY <1>4, <2>1, <3>1, <3>2
         DEF QueuedTooLate, LostInv, ClosedNotebookHasLateRuns, Unresolved
  <2>2. Members(Tail(s)) \subseteq Items(q)
    BY <1>4, RestOfList
  <2>3. QED
    BY <1>1, <1>4, <2>1, <2>2, CancelQueueProceeds
<1>5. CASE /\ s # <<>> /\ ~queue[q].failed /\ StartNotExecutable(h)
           /\ queue' = [queue EXCEPT ![q].loop = "awaitResult", ![q].cell = h]
  <2>1. h \in Execs /\ exec[h].queue = q /\ ItsTurn(h)
    BY <1>1, <1>5, FirstHasItsTurn
  <2> HIDE DEF h
  <2>2. /\ CellsSettle /\ exec'[h].result # "pending" /\ exec'[h].started = exec[h].started
        /\ exec'[h].run = exec[h].run
        /\ \A f \in Execs \ {h} : exec'[f] = exec[f]
    BY <1>5, <2>1, NotExecutableSettles DEF TypeInv, TypeOK
  <2>3. \A e \in Execs : RunEnds(e)
    BY <2>1, <2>2, SteadyRunEnds DEF RunEnds
  <2> DEFINE t == [queue[q] EXCEPT !.loop = "awaitResult", !.cell = h]
  <2>4. queue[q] \in QueueRec /\ queue' = [queue EXCEPT ![q] = t]
    BY <1>5, QueueFields DEF TypeInv
  <2>5. t.failed = queue[q].failed /\ t.items = queue[q].items /\ t.loop = "awaitResult"
    BY <2>4, ChangedQueueFields
  <2> HIDE DEF t
  <2>6. (\A p \in Execs \ {q} : queue'[p] = queue[p]) /\ queue'[q] = t
    BY <2>4 DEF TypeInv, TypeOK
  <2>7. Items(q)' = Items(q)
    BY <2>5, <2>6 DEF Items, Members
  <2>8. QueueProceeds(q)
    BY <1>1, <1>2, <2>5, <2>6, <2>7 DEF QueueProceeds
  <2>9. QED
    BY <1>1, <2>2, <2>3, <2>6, <2>8, OneQueueSettles DEF callVars
<1>6. CASE /\ s # <<>> /\ ~notebookClosed /\ ~queue[q].failed
           /\ exec[h].cell \notin closedCells /\ wrapper[exec[h].execution] # "ended"
           /\ StartBegins(h)
           /\ queue' = [queue EXCEPT ![q].loop = "awaitStart", ![q].cell = h]
  <2>1. /\ h \in Execs /\ h \in Born /\ exec[h].queue = q /\ exec[h].result = "pending"
        /\ ~exec[h].started
    BY <1>1, <1>6, FirstHasItsTurn
  <2> DEFINE t == [queue[q] EXCEPT !.loop = "awaitStart", !.cell = h]
  <2>2. queue[q] \in QueueRec /\ queue' = [queue EXCEPT ![q] = t]
    BY <1>6, QueueFields DEF TypeInv
  <2>3. /\ t.failed = queue[q].failed /\ t.items = queue[q].items /\ t.loop = "awaitStart"
        /\ t.cell = h
    BY <2>2, ChangedQueueFields
  <2> HIDE DEF t
  <2>4. (\A p \in Execs \ {q} : queue'[p] = queue[p]) /\ queue'[q] = t
    BY <2>2 DEF TypeInv, TypeOK
  <2>5. Items(q)' = Items(q)
    BY <2>3, <2>4 DEF Items, Members
  <2>6. QueueProceeds(q)
    BY <1>1, <1>2, <2>3, <2>4, <2>5 DEF QueueProceeds
  <2> DEFINE u == [exec[h] EXCEPT !.started = TRUE, !.run = "clearing"]
  <2>7. exec[h] \in CellExecutionRec /\ exec' = [exec EXCEPT ![h] = u]
    BY <1>6, <2>1, RunType DEF StartBegins, TypeInv, TypeOK
  <2>8. /\ u.cell = exec[h].cell /\ u.queue = exec[h].queue /\ u.result = exec[h].result
        /\ u.execution = exec[h].execution /\ u.completed = exec[h].completed
        /\ u.cancelHandled = exec[h].cancelHandled /\ u.started /\ u.run = "clearing"
    BY <2>7 DEF CellExecutionRec
  <2> HIDE DEF u
  <2>9. exec'[h] = u /\ \A e \in Execs \ {h} : exec'[e] = exec[e]
    BY <2>1, <2>7 DEF TypeInv, TypeOK, CellTypeOK
  <2>10. RunStarts(h) /\ \A e \in Execs \ {h} : RunEnds(e)
    BY <1>1, <1>6, <2>1, <2>3, <2>4, <2>8, <2>9, SteadyRunEnds DEF RunStarts
  <2>11. \A e \in Execs : RunSettles(e)
    BY <2>8, <2>9 DEF RunSettles
  <2>12. \A w \in Execs : wrapper[w] = "ended" => wrapper'[w] = "ended"
    BY <1>6 DEF StartBegins, TypeInv, TypeOK, CellTypeOK
  <2>13. nExecs' = nExecs /\ closedCells' = closedCells
    BY <1>6 DEF StartBegins
  <2>14. \A p \in Execs : QueueProceeds(p)
    BY <2>4, <2>6, SameQueueProceeds
  <2>15. \A p \in Execs : queue'[p].failed = queue[p].failed
    BY <2>3, <2>4
  <2>16. QueuesProceed
    BY <1>1, <2>11, <2>12, <2>13, <2>14 DEF QueuesProceed, callVars
  <2>17. QED
    BY <1>1, <1>6, <2>10, <2>15, <2>16 DEF StepStarts
<1>7. QED
  BY <1>3, <1>4, <1>5, <1>6 DEF LoopNext

LEMMA LoopStartProceeds ==
    ASSUME BaseInv, OwnerInv, JobInv, NEW q \in Execs, LoopStartRejects(q)
    PROVE  StepSettles
<1> USE DEF BaseInv
<1> DEFINE s == queue[q].items
           h == Head(s)
           S == Cancellable(Tail(s), FALSE)
           t == [queue[q] EXCEPT !.failed = TRUE, !.items = <<>>, !.loop = "done", !.cell = h]
<1>1. /\ queue[q].loop = "next" /\ s # <<>> /\ ~queue[q].failed /\ q \in Born
      /\ exec[h].cell \notin closedCells /\ wrapper[exec[h].execution] = "ended"
      /\ UNCHANGED <<docQueue, callVars, notebookClosed>>
  BY NamedQueue DEF LoopStartRejects
<1>2. /\ h \in Execs /\ h \in Born /\ exec[h].queue = q /\ exec[h].result = "pending"
  BY <1>1, FirstHasItsTurn
<1>3. queue[q] \in QueueRec /\ queue' = [queue EXCEPT ![q] = t]
  BY QueueFields DEF TypeInv, LoopStartRejects
<1>4. t.failed /\ t.items = <<>> /\ t.loop = "done"
  BY <1>3, ChangedQueueFields
<1> HIDE DEF t
<1>5. (\A p \in Execs \ {q} : queue'[p] = queue[p]) /\ queue'[q] = t
  BY <1>3 DEF TypeInv, TypeOK
<1>6. /\ CellsSettle
      /\ \A e \in S \cap Execs : e # h => exec'[e].result # "pending"
      /\ \A e \in Execs : /\ exec'[e].run = exec[e].run
                          /\ e # h => exec'[e].started = exec[e].started
                          /\ e \notin S => exec'[e].result = exec[e].result
  BY <1>2, RejectSettles DEF TypeInv, TypeOK
<1>7. h \notin S /\ S \subseteq Items(q)
  BY <1>1, FirstIsOldest, RestOfList DEF Cancellable
<1>8. \A e \in Execs : exec[e].result # "pending" => exec'[e].result # "pending"
  BY <1>6 DEF CellsSettle, RunSettles
<1>9. exec'[h].started /\ exec'[h].result = "pending" /\ exec'[h].execution = exec[h].execution
  <2>1. exec'[h] = [exec[h] EXCEPT !.started = TRUE] /\ exec[h] \in CellExecutionRec
    BY <1>2, RunType DEF LoopStartRejects, TypeInv, TypeOK
  <2> HIDE DEF h
  <2>2. QED
    BY <1>2, <2>1 DEF CellExecutionRec
<1>10. exec[h].execution # None
  BY <1>1, <1>2 DEF OwnerInv, UnresolvedRunsAreIntact
<1>11. exec[h].execution \in Execs
  BY <1>2, <1>10, RunNames DEF TypeInv, TypeOK
<1>12. \E v \in Execs : v = exec[h].execution /\ exec'[h].execution = v /\ wrapper'[v] = "ended"
  BY <1>1, <1>6, <1>9, <1>11, SettledWrappers
<1>13. exec'[h].execution # None /\ wrapper'[exec'[h].execution] = "ended"
  BY <1>10, <1>12
<1>14. \A e \in Execs : e \in S => queue'[exec[e].queue].failed
  BY <1>4, <1>5, <1>7, ListedRun
<1> HIDE DEF S
<1>15. ASSUME NEW e \in Execs PROVE RunEnds(e)
  <2>1. CASE e = h
    BY <1>2, <1>4, <1>5, <1>6, <1>9, <1>13, <2>1 DEF RunEnds, ExecutionTaken
  <2>2. CASE e # h
    BY <1>6, <1>8, <1>14, <2>2 DEF RunEnds
  <2>3. QED
    BY <2>1, <2>2
<1>16. \A e \in Items(q) : exec[e].result = "pending" => ~exec[e].started
  BY <1>1, BetweenTurns DEF Waiting
<1>17. ASSUME NEW e \in Items(q)
       PROVE  exec'[e].result # "pending" \/ ExecutionTaken(e)'
  <2>1. e \in Born /\ e \in Execs
    BY ListedRun
  <2>2. CASE e = h
    BY <1>13, <2>2 DEF ExecutionTaken
  <2>3. CASE exec[e].result # "pending"
    BY <1>8, <2>1, <2>3
  <2>4. CASE e # h /\ exec[e].result = "pending"
    <3>1. e \in Members(Tail(s))
      BY <1>1, <2>4, FirstIsOldest
    <3>2. e \in S
      BY <1>16, <2>1, <2>4, <3>1 DEF S, Cancellable, OwnerInv, UnresolvedRunsAreIntact
    <3>3. QED
      BY <1>6, <2>1, <2>4, <3>2
  <2>5. QED
    BY <2>2, <2>3, <2>4
<1>18. Items(q)' = {}
  BY <1>4, <1>5, NothingInEmptyList DEF Items
<1>19. QueueProceeds(q)
  BY <1>1, <1>4, <1>5, <1>17, <1>18 DEF QueueProceeds
<1>20. QED
  BY <1>1, <1>5, <1>6, <1>15, <1>19, OneQueueSettles DEF callVars

-----------------------------------------------------------------------------
(* What such a step keeps.                                                 *)
LEMMA ProceedingKeepsJobs ==
    ASSUME BaseInv, JobInv, LostInv, QueuesProceed,
           \A e \in Execs : RunEnds(e) \/ RunStarts(e)
    PROVE  JobInv'
<1> USE DEF BaseInv
<1>1. Born' = Born /\ Born \subseteq Execs /\ nExecs' = nExecs /\ docQueue' = docQueue
  BY QueueNames DEF QueuesProceed, Born
<1>2. \A e \in Execs : exec'[e].queue = exec[e].queue
  BY DEF QueuesProceed, RunSettles
<1>3. RejectedRunsFailed'
  <2> SUFFICES ASSUME NEW e \in Execs, exec'[e].started, exec'[e].run = "none"
               PROVE  queue'[exec'[e].queue].failed
    BY DEF RejectedRunsFailed
  <2>1. RunEnds(e)
    BY DEF RunStarts
  <2>2. CASE queue'[exec[e].queue].failed
    BY <1>2, <2>2
  <2>3. CASE exec[e].started /\ exec[e].run = "none"
    <3>1. exec[e].queue \in Execs
      BY <1>1, <2>3 DEF QueueInv, RunsBelongToQueues
    <3>2. queue[exec[e].queue].failed
      BY <2>3 DEF JobInv, RejectedRunsFailed
    <3>3. QED
      BY <1>2, <3>1, <3>2 DEF QueuesProceed, QueueProceeds
  <2>4. QED
    BY <2>1, <2>2, <2>3 DEF RunEnds
<1>4. QueuesAreNamedByRuns'
  <2>1. ASSUME NEW q \in Execs, queue'[q].loop # "none" \/ queue'[q].failed
        PROVE  q \in Born'
    BY <1>1, <2>1 DEF JobInv, QueuesAreNamedByRuns, QueuesProceed, QueueProceeds
  <2>2. \A r \in Restarts : restartCall'[r].queue \in 0..nExecs'
    BY <1>1 DEF JobInv, QueuesAreNamedByRuns, QueuesProceed, QueueInv, RunsBelongToQueues
  <2>3. QED
    BY <2>1, <2>2 DEF QueuesAreNamedByRuns
<1>5. OnlyNewestIsHealthy'
  BY <1>1 DEF JobInv, OnlyNewestIsHealthy, QueuesProceed, QueueProceeds
<1>6. QED
  BY <1>3, <1>4, <1>5 DEF JobInv

LEMMA ProceedingLosesNothing ==
    ASSUME BaseInv, BaseInv', JobInv, LostInv, QueuesProceed,
           \A e \in Execs : RunEnds(e) \/ RunStarts(e)
    PROVE  LostInv'
<1> USE DEF BaseInv
<1>1. Born' = Born /\ Born \subseteq Execs
  BY QueueNames DEF QueuesProceed, Born
<1>2. \A e \in Execs : /\ exec'[e].queue = exec[e].queue
                       /\ exec'[e].result = "pending" =>
                             exec[e].result = "pending" /\ exec'[e].execution = exec[e].execution
                       /\ exec[e].started => exec'[e].started
  BY DEF QueuesProceed, RunSettles, RunEnds, RunStarts
<1>3. \A q \in Execs : \A e \in Items(q)' : e \in Items(q) /\ e \in Execs /\ exec[e].queue = q
  BY ListedRun DEF QueuesProceed, QueueProceeds
<1>4. FailedQueuesHoldStartedRuns'
  <2> SUFFICES ASSUME NEW q \in Execs, queue'[q].failed, NEW e \in Items(q)',
                      exec'[e].result = "pending"
               PROVE  exec'[e].started
    BY DEF FailedQueuesHoldStartedRuns
  <2>1. e \in Items(q) /\ e \in Execs /\ exec[e].result = "pending"
    BY <1>2, <1>3
  <2>2. exec[e].started
    BY <2>1 DEF LostInv, FailedQueuesHoldStartedRuns, QueuesProceed, QueueProceeds
  <2>3. QED
    BY <1>2, <2>1, <2>2
<1>5. EndedLoopsAreEmpty'
  <2> SUFFICES ASSUME NEW q \in Execs, queue'[q].loop = "done"
               PROVE  queue'[q].items = <<>>
    BY DEF EndedLoopsAreEmpty
  <2>1. QueueProceeds(q)
    BY DEF QueuesProceed
  <2>2. QED
    BY <2>1 DEF LostInv, EndedLoopsAreEmpty, QueueProceeds
<1>6. \A e \in Born : exec[e].queue \in Execs /\ queue[exec[e].queue].loop # "none"
  BY <1>1 DEF QueueInv, RunsBelongToQueues
<1>7. ClosedNotebookHasLateRuns'
  <2> SUFFICES ASSUME notebookClosed'
               PROVE  /\ closedCells' = Cells
                      /\ \A e \in Born : (exec'[e].result = "pending"
                                           /\ ~queue'[exec'[e].queue].failed) =>
                            exec'[e].execution = None /\ ~exec'[e].started
    BY <1>1 DEF ClosedNotebookHasLateRuns, Unresolved
  <2>1. CASE notebookClosed
    <3>1. closedCells' = Cells
      BY <2>1 DEF LostInv, ClosedNotebookHasLateRuns, QueuesProceed, TypeInv, TypeOK, CellTypeOK
    <3>2. ASSUME NEW e \in Born, exec'[e].result = "pending", ~queue'[exec'[e].queue].failed
          PROVE  exec'[e].execution = None /\ ~exec'[e].started
      <4>1. ~queue[exec[e].queue].failed
        BY <1>1, <1>2, <1>6, <3>2 DEF QueuesProceed, QueueProceeds
      <4>2. exec[e].execution = None /\ ~exec[e].started
        BY <1>1, <1>2, <2>1, <3>2, <4>1 DEF LostInv, ClosedNotebookHasLateRuns, Unresolved
      <4>3. RunEnds(e)
        BY <1>1, <2>1 DEF RunStarts
      <4>4. QED
        BY <1>1, <1>2, <3>2, <4>2, <4>3 DEF RunEnds
    <3>3. QED
      BY <3>1, <3>2
  <2>2. CASE ~notebookClosed
    <3>1. closedCells' = Cells /\ \A q \in Queues : queue'[q].failed
      BY <2>2 DEF QueuesProceed
    <3>2. \A e \in Born : queue'[exec'[e].queue].failed
      BY <1>1, <1>2, <1>6, <3>1 DEF Queues
    <3>3. QED
      BY <3>1, <3>2
  <2>3. QED
    BY <2>1, <2>2
<1>8. NoRunIsLost'
  <2> SUFFICES ASSUME NEW e \in Born, exec'[e].result = "pending"
               PROVE  Driven(e)' \/ ExecutionTaken(e)' \/ QueuedTooLate(e)'
    BY <1>1 DEF NoRunIsLost, Unresolved
  <2>1. e \in Execs /\ Unresolved(e) /\ exec'[e].execution = exec[e].execution
    BY <1>1, <1>2 DEF Unresolved
  <2>2. CASE ExecutionTaken(e)
    <3>1. exec[e].execution \in Execs
      BY <2>1, <2>2, RunNames DEF ExecutionTaken, TypeInv, TypeOK
    <3>2. \E w \in Execs : w = exec[e].execution /\ wrapper'[w] = "ended"
      BY <2>2, <3>1 DEF ExecutionTaken, QueuesProceed
    <3>3. QED
      BY <2>1, <2>2, <3>2 DEF ExecutionTaken
  <2>3. CASE QueuedTooLate(e) /\ ~ExecutionTaken(e)'
    <3>1. RunEnds(e) /\ notebookClosed'
      BY <2>1, <2>3 DEF QueuedTooLate, RunStarts, QueuesProceed
    <3>2. QED
      BY <2>1, <2>3, <3>1 DEF QueuedTooLate, RunEnds
  <2>4. CASE Driven(e) /\ ~ExecutionTaken(e)' /\ ~QueuedTooLate(e)'
    <3>1. PICK q \in Execs : q = exec[e].queue /\ q = exec'[e].queue
      BY <1>2, <1>6, <2>1
    <3>2. /\ e \in Items(q) /\ queue[q].loop \notin {"none", "done"}
          /\ exec[e].started =>
                /\ queue[q].cell = e /\ queue[q].loop \in {"awaitStart", "awaitResult"}
                /\ exec[e].run \in {"clearing", "running", "doomed"}
      BY <2>4, <3>1 DEF Driven, Items
    <3>3. QueueProceeds(q)
      BY DEF QueuesProceed
    <3>4. e \in Items(q)'
      BY <2>4, <3>2, <3>3 DEF QueueProceeds
    <3>5. queue'[q].items # <<>>
      BY <3>4, NothingInEmptyList DEF Items
    <3>6. queue'[q].loop \notin {"none", "done"}
      BY <3>2, <3>3, <3>5 DEF QueueProceeds
    <3>7. CASE RunStarts(e)
      BY <3>1, <3>4, <3>6, <3>7 DEF RunStarts, Driven, Items
    <3>8. CASE RunEnds(e)
      <4>1. exec'[e].started => exec[e].started
        BY <2>4, <3>8 DEF RunEnds
      <4>2. exec'[e].run \in {exec[e].run, "running", "doomed"}
        BY <2>4, <3>8 DEF RunEnds
      <4>3. exec[e].started => /\ queue'[q].cell = e
                               /\ queue'[q].loop \in {"awaitStart", "awaitResult"}
        BY <2>1, <3>2, <3>3, <3>5 DEF QueueProceeds, Unresolved
      <4>4. QED
        BY <3>1, <3>2, <3>4, <3>6, <4>1, <4>2, <4>3 DEF Driven, Items
    <3>9. QED
      BY <2>1, <3>7, <3>8
  <2>5. QED
    BY <2>1, <2>2, <2>3, <2>4 DEF LostInv, NoRunIsLost
<1>9. QED
  BY <1>4, <1>5, <1>7, <1>8 DEF LostInv

-----------------------------------------------------------------------------
(* A run is queued, unless its cell is in the list already.                *)
LEMMA QueueCellQueues ==
    ASSUME BaseInv, JobInv, LostInv, NEW c \in Cells, NEW s \in Sessions,
           nExecs + 1 \in Execs, QueueCell(c, s),
           UNCHANGED <<interruptCall, restartCall, interruptPromise, notebookClosed>>
    PROVE  StepSettles \/ \E d \in Execs : StepQueues(d)
<1> USE DEF BaseInv
<1> DEFINE n == nExecs + 1
<1>1. CASE UNCHANGED <<cellVars, queueVars>>
  BY <1>1, NothingProceeds, SameQueuesProceed DEF queueVars, TypeInv, TypeOK
<1>2. CASE /\ Reusable
           /\ Create(c, docQueue)
           /\ queue' = [queue EXCEPT ![docQueue].items = Append(@, nExecs + 1)]
           /\ UNCHANGED docQueue
  <2>1. PICK d \in Execs : d = docQueue /\ d \in Born
    <3>1. docQueue \in 0..nExecs /\ docQueue # None
      BY <1>2 DEF Reusable, QueueInv, RunsBelongToQueues
    <3>2. docQueue \in Born
      BY <3>1, QueueNames DEF Born, None
    <3>3. QED
      BY <3>2, QueueNames
  <2> DEFINE l == queue[d].items
             t == [queue[d] EXCEPT !.items = Append(l, n)]
  <2>2. queue[d] \in QueueRec /\ queue' = [queue EXCEPT ![d] = t]
    BY <1>2, <2>1, QueueFields DEF TypeInv
  <2>3. /\ t.failed = queue[d].failed /\ t.loop = queue[d].loop
        /\ t.cell = queue[d].cell /\ t.items = Append(l, n)
    BY <2>2, ChangedQueueFields
  <2> HIDE DEF t
  <2>4. (\A p \in Execs \ {d} : queue'[p] = queue[p]) /\ queue'[d] = t
    BY <2>2 DEF TypeInv, TypeOK
  <2>5. l # <<>> /\ ~queue[d].failed
    BY <1>2, <2>1 DEF Reusable
  <2>6. l \in Seq(Execs) /\ \A i, j \in DOMAIN l : i < j => l[i] < l[j]
    BY <2>1, <2>5, QueueFields DEF TypeInv, QueueInv, HealthyQueuesAreInOrder, QueueIsInOrder
  <2>7. \A e \in Members(l) : e < n
    BY ListedRun, QueueNames DEF Items, Born
  <2> HIDE DEF l
  <2>8. Members(Append(l, n)) = Members(l) \cup {n}
    BY <2>6, <2>7, LongerList
  <2>9. Items(d)' = Items(d) \cup {n}
    BY <2>3, <2>4, <2>8 DEF Items, Members, l
  <2>10. queue[d].loop \notin {"none", "done"}
    <3>1. Head(queue[d].items) \in Items(d)
      BY <2>5, FirstIsOldest DEF l
    <3>2. queue[d].loop # "none"
      BY <3>1, ListedRun DEF QueueInv, RunsBelongToQueues
    <3>3. QED
      BY <2>5, <3>2 DEF LostInv, EndedLoopsAreEmpty, l
  <2>11. \A q \in Execs \ {d} : queue[q].failed \/ queue[q].items = <<>>
    BY <2>1 DEF JobInv, OnlyNewestIsHealthy
  <2>12. StepQueues(d)
    BY <1>2, <2>1, <2>3, <2>4, <2>5, <2>9, <2>10, <2>11 DEF StepQueues
  <2>13. QED
    BY <2>12
<1>3. CASE /\ ~Reusable
           /\ Create(c, n)
           /\ queue' = [queue EXCEPT ![n] =
                          [items |-> <<n>>, failed |-> FALSE,
                           loop |-> "awaitSession", cell |-> None, session |-> s]]
           /\ docQueue' = n
  <2>1. PICK d \in Execs : d = n /\ d \notin Born
    BY QueueNames
  <2> DEFINE t == [items |-> <<n>>, failed |-> FALSE,
                   loop |-> "awaitSession", cell |-> None, session |-> s]
  <2>2. t.items = <<n>> /\ ~t.failed /\ t.loop = "awaitSession"
    OBVIOUS
  <2>3. queue' = [queue EXCEPT ![d] = t]
    BY <1>3, <2>1
  <2> HIDE DEF t
  <2>4. (\A p \in Execs \ {d} : queue'[p] = queue[p]) /\ queue'[d] = t
    BY <2>3 DEF TypeInv, TypeOK
  <2>5. Members(<<n>>) = {n}
    BY DEF Members
  <2>6. Items(d) = {}
    BY <2>1, ListedRun DEF QueueInv, RunsBelongToQueues
  <2>7. Items(d)' = Items(d) \cup {n}
    BY <2>2, <2>4, <2>5, <2>6 DEF Items, Members
  <2>8. \A q \in Execs \ {d} : queue[q].failed \/ queue[q].items = <<>>
    BY <1>3 DEF JobInv, OnlyNewestIsHealthy, Reusable, None, Execs
  <2>9. ~queue[d].failed
    BY <2>1 DEF JobInv, QueuesAreNamedByRuns
  <2>10. StepQueues(d)
    BY <1>3, <2>1, <2>2, <2>4, <2>7, <2>8, <2>9 DEF StepQueues
  <2>11. QED
    BY <2>10
<1>4. QED
  BY <1>1, <1>2, <1>3 DEF QueueCell

LEMMA QueuedRun ==
    ASSUME BaseInv, NEW d \in Execs, StepQueues(d)
    PROVE  /\ nExecs' = nExecs + 1 /\ Born' = Born \cup {nExecs + 1} /\ Born \subseteq Execs
           /\ nExecs + 1 \notin Born /\ closedCells' = closedCells
           /\ \A e \in Execs : e # nExecs + 1 => exec'[e] = exec[e]
           /\ exec'[nExecs + 1].queue = d /\ ~exec'[nExecs + 1].started
           /\ exec'[nExecs + 1].result = "pending" /\ exec'[nExecs + 1].run = "none"
           /\ closedCells = Cells => exec'[nExecs + 1].execution = None
           /\ \A w \in Execs : wrapper[w] = "ended" =>
                 wrapper'[w] = "ended" \/ w = nExecs + 1
<1> USE DEF BaseInv
<1>1. PICK c \in Cells : Create(c, d)
  BY DEF StepQueues
<1>2. /\ nExecs' = nExecs + 1
      /\ \A e \in Execs : e # nExecs + 1 => exec'[e] = exec[e]
      /\ exec'[nExecs + 1].queue = d /\ ~exec'[nExecs + 1].started
      /\ exec'[nExecs + 1].result = "pending" /\ exec'[nExecs + 1].run = "none"
  BY <1>1, CreatedRun DEF StepQueues
<1>3. closedCells = Cells => exec'[nExecs + 1].execution = None
  BY <1>1, CreateMakes DEF StepQueues, TypeInv, TypeOK
<1>4. ASSUME NEW w \in Execs, wrapper[w] = "ended", w # nExecs + 1
      PROVE  wrapper'[w] = "ended"
  <2>1. wrapper'[w] = IF w = exec'[nExecs + 1].execution /\ executionMap[c] = None
                      THEN "created"
                      ELSE IF w = executionMap[c] /\ c \in closedCells
                      THEN "ended" ELSE wrapper[w]
    BY <1>1, CreateMakes DEF StepQueues, TypeInv, TypeOK
  <2>2. exec'[nExecs + 1].execution =
           IF c \in closedCells THEN None
           ELSE IF executionMap[c] # None THEN executionMap[c] ELSE nExecs + 1
    BY <1>1, CreateMakes DEF StepQueues, TypeInv, TypeOK
  <2>3. w # None
    BY DEF Execs, None
  <2>4. QED
    BY <1>4, <2>1, <2>2, <2>3
<1>5. Born' = Born \cup {nExecs + 1} /\ Born \subseteq Execs /\ nExecs + 1 \notin Born
  BY <1>2, QueueNames DEF Born
<1>6. closedCells' = closedCells
  BY <1>1 DEF Create
<1>7. QED
  BY <1>2, <1>3, <1>4, <1>5, <1>6

LEMMA QueueingKeepsJobs ==
    ASSUME BaseInv, JobInv, LostInv, NEW d \in Execs, StepQueues(d)
    PROVE  JobInv'
<1> USE DEF BaseInv, StepQueues
<1>1. RejectedRunsFailed'
  <2> SUFFICES ASSUME NEW e \in Execs, exec'[e].started, exec'[e].run = "none"
               PROVE  queue'[exec'[e].queue].failed
    BY DEF RejectedRunsFailed
  <2>1. e # nExecs + 1 /\ exec'[e] = exec[e]
    BY QueuedRun
  <2>2. e \in Born /\ exec[e].queue \in Execs /\ queue[exec[e].queue].failed
    BY <2>1, QueueNames DEF JobInv, RejectedRunsFailed, QueueInv, RunsBelongToQueues
  <2>3. exec[e].queue # d
    BY <2>2
  <2>4. QED
    BY <2>1, <2>2, <2>3
<1>2. QueuesAreNamedByRuns'
  <2>1. ASSUME NEW q \in Execs, queue'[q].loop # "none" \/ queue'[q].failed
        PROVE  q \in Born'
    <3>1. CASE q = d
      BY <3>1, QueuedRun
    <3>2. CASE q # d
      BY <2>1, <3>2, QueuedRun DEF JobInv, QueuesAreNamedByRuns
    <3>3. QED
      BY <3>1, <3>2
  <2>2. \A r \in Restarts : restartCall'[r].queue \in 0..nExecs'
    BY QueuedRun, QueueNames DEF JobInv, QueuesAreNamedByRuns
  <2>3. QED
    BY <2>1, <2>2 DEF QueuesAreNamedByRuns
<1>3. OnlyNewestIsHealthy'
  BY DEF OnlyNewestIsHealthy
<1>4. QED
  BY <1>1, <1>2, <1>3 DEF JobInv

LEMMA QueueingLosesNothing ==
    ASSUME BaseInv, OwnerInv, JobInv, LostInv, NEW d \in Execs, StepQueues(d)
    PROVE  LostInv'
<1> USE DEF BaseInv
<1> DEFINE n == nExecs + 1
<1>1. /\ Born' = Born \cup {n} /\ Born \subseteq Execs /\ n \notin Born
      /\ closedCells' = closedCells
      /\ \A e \in Execs : e # n => exec'[e] = exec[e]
      /\ exec'[n].queue = d /\ ~exec'[n].started
      /\ exec'[n].result = "pending" /\ exec'[n].run = "none"
      /\ closedCells = Cells => exec'[n].execution = None
      /\ \A w \in Execs : wrapper[w] = "ended" => wrapper'[w] = "ended" \/ w = n
  BY QueuedRun
<1>2. /\ \A q \in Execs \ {d} : queue'[q] = queue[q]
      /\ ~queue[d].failed /\ ~queue'[d].failed /\ notebookClosed' = notebookClosed
      /\ Items(d)' = Items(d) \cup {n}
      /\ \/ /\ queue[d].loop \notin {"none", "done"} /\ d \in Born
            /\ queue'[d].loop = queue[d].loop /\ queue'[d].cell = queue[d].cell
         \/ d = n /\ queue'[d].loop = "awaitSession"
  BY DEF StepQueues
<1> HIDE DEF n
<1>3. \A e \in Born : e # n /\ exec'[e] = exec[e] /\ exec[e].queue \in Execs
  BY <1>1 DEF QueueInv, RunsBelongToQueues
<1>4. FailedQueuesHoldStartedRuns'
  <2> SUFFICES ASSUME NEW q \in Execs, queue'[q].failed, NEW e \in Items(q)',
                      exec'[e].result = "pending"
               PROVE  exec'[e].started
    BY DEF FailedQueuesHoldStartedRuns
  <2>1. q # d /\ queue'[q] = queue[q]
    BY <1>2
  <2>2. e \in Items(q)
    BY <2>1 DEF Items, Members
  <2>3. e \in Born /\ exec'[e] = exec[e]
    BY <1>3, <2>2, ListedRun
  <2>4. QED
    BY <2>1, <2>2, <2>3 DEF LostInv, FailedQueuesHoldStartedRuns
<1>5. EndedLoopsAreEmpty'
  BY <1>2 DEF LostInv, EndedLoopsAreEmpty
<1>6. ClosedNotebookHasLateRuns'
  <2> SUFFICES ASSUME notebookClosed
               PROVE  /\ closedCells' = Cells
                      /\ \A e \in Born' : (exec'[e].result = "pending"
                                           /\ ~queue'[exec'[e].queue].failed) =>
                            exec'[e].execution = None /\ ~exec'[e].started
    BY <1>2 DEF ClosedNotebookHasLateRuns, Unresolved
  <2>1. closedCells = Cells
    BY DEF LostInv, ClosedNotebookHasLateRuns
  <2>2. ASSUME NEW e \in Born, exec'[e].result = "pending", ~queue'[exec'[e].queue].failed
        PROVE  exec'[e].execution = None /\ ~exec'[e].started
    <3>1. exec'[e] = exec[e] /\ exec[e].queue \in Execs
      BY <1>3
    <3>2. ~queue[exec[e].queue].failed
      BY <1>2, <2>2, <3>1
    <3>3. QED
      BY <2>2, <3>1, <3>2 DEF LostInv, ClosedNotebookHasLateRuns, Unresolved
  <2>3. QED
    BY <1>1, <2>1, <2>2
<1>7. NoRunIsLost'
  <2> SUFFICES ASSUME NEW e \in Born', exec'[e].result = "pending"
               PROVE  Driven(e)' \/ ExecutionTaken(e)' \/ QueuedTooLate(e)'
    BY DEF NoRunIsLost, Unresolved
  <2>1. CASE e = n
    <3>1. queue'[d].loop \notin {"none", "done"} /\ e \in Items(d)'
      BY <1>2, <2>1
    <3>2. QED
      BY <1>1, <2>1, <3>1 DEF Driven, Items
  <2>2. CASE e # n
    <3>1. e \in Born /\ exec'[e] = exec[e] /\ Unresolved(e)
      BY <1>1, <1>3, <2>2 DEF Unresolved
    <3>2. CASE ExecutionTaken(e)
      <4>1. exec[e].execution \in Born
        BY <1>1, <3>1, <3>2, RunNames
           DEF ExecutionTaken, OwnerInv, ExecutionsAreOfTheirCell, TypeInv, TypeOK
      <4>2. QED
        BY <1>1, <3>1, <3>2, <4>1 DEF ExecutionTaken
    <3>3. CASE QueuedTooLate(e)
      BY <1>2, <3>1, <3>3 DEF QueuedTooLate
    <3>4. CASE Driven(e)
      <4>1. PICK q \in Execs : q = exec[e].queue /\ q \in Born
        BY <1>1, <3>1 DEF QueueInv, RunsBelongToQueues
      <4>2. /\ e \in Items(q) /\ queue[q].loop \notin {"none", "done"}
            /\ exec[e].started =>
                  /\ queue[q].cell = e /\ queue[q].loop \in {"awaitStart", "awaitResult"}
                  /\ exec[e].run \in {"clearing", "running", "doomed"}
        BY <3>4, <4>1 DEF Driven, Items
      <4>3. e \in Items(q)'
        BY <1>2, <4>2 DEF Items, Members
      <4>4. queue'[q].loop = queue[q].loop /\ queue'[q].cell = queue[q].cell
        BY <1>2, <1>1, <4>1
      <4>5. QED
        BY <3>1, <4>1, <4>2, <4>3, <4>4 DEF Driven, Items
    <3>5. QED
      BY <3>1, <3>2, <3>3, <3>4 DEF LostInv, NoRunIsLost
  <2>3. QED
    BY <2>1, <2>2
<1>8. QED
  BY <1>4, <1>5, <1>6, <1>7 DEF LostInv

-----------------------------------------------------------------------------
(* Every step is of one of the three kinds.                                *)
LEMMA StepKinds ==
    ASSUME RunInv, [Next]_vars
    PROVE  StepSettles \/ StepStarts \/ \E d \in Execs : StepQueues(d)
<1> USE DEF RunInv
<1>1. CASE UNCHANGED vars
  BY <1>1, NothingProceeds, SameQueuesProceed
     DEF vars, queueVars, callVars, BaseInv, TypeInv, TypeOK
<1>2. ASSUME NEW c \in Cells, ExecuteCell(c)
      PROVE  StepSettles \/ \E d \in Execs : StepQueues(d)
  <2>1. UNCHANGED <<interruptCall, restartCall, interruptPromise, notebookClosed>>
    BY <1>2 DEF ExecuteCell
  <2>2. CASE UNCHANGED <<cellVars, queueVars>>
    BY <2>1, <2>2, NothingProceeds, SameQueuesProceed DEF queueVars, BaseInv, TypeInv, TypeOK
  <2>3. ASSUME NEW s \in Sessions, QueueCell(c, s)
        PROVE  StepSettles \/ \E d \in Execs : StepQueues(d)
    <3>1. Cardinality(waitingRuns) \in Nat /\ nExecs \in Nat
      BY FS_CardinalityType DEF BaseInv, TypeInv, WaitingRunsFit, TypeOK, CellTypeOK
    <3>2. nExecs + 1 \in Execs
      BY <1>2, <3>1 DEF ExecuteCell, Execs
    <3>3. QED
      BY <2>1, <2>3, <3>2, QueueCellQueues
  <2>4. QED
    BY <1>2, <2>2, <2>3 DEF ExecuteCell
<1>3. ASSUME NEW w \in waitingRuns, ResumeExecuteCell(w)
      PROVE  StepSettles \/ \E d \in Execs : StepQueues(d)
  <2>1. w.cell \in Cells /\ w.session \in Sessions
    BY DEF BaseInv, TypeInv, TypeOK, WaitingRec
  <2>2. nExecs + 1 \in Execs
    <3>1. IsFiniteSet(waitingRuns) /\ nExecs + Cardinality(waitingRuns) <= MaxExecs
      BY DEF BaseInv, TypeInv, WaitingRunsFit
    <3>2. /\ IsFiniteSet(waitingRuns \ {w})
          /\ Cardinality(waitingRuns \ {w}) = Cardinality(waitingRuns) - 1
      BY <3>1, FS_RemoveElement
    <3>3. Cardinality(waitingRuns) \in Nat /\ Cardinality(waitingRuns \ {w}) \in Nat
      BY <3>1, <3>2, FS_CardinalityType
    <3>4. nExecs \in Nat
      BY QueueNames DEF BaseInv
    <3>5. QED
      BY <3>1, <3>2, <3>3, <3>4 DEF Execs
  <2>3. UNCHANGED <<interruptCall, restartCall, interruptPromise, notebookClosed>>
    BY <1>3 DEF ResumeExecuteCell
  <2>4. QueueCell(w.cell, w.session)
    BY <1>3 DEF ResumeExecuteCell
  <2>5. QED
    BY <2>1, <2>2, <2>3, <2>4, QueueCellQueues
<1>4. CASE Microtask
  BY <1>3, <1>4, LoopSessionProceeds, LoopNextProceeds, LoopStartProceeds,
     LoopResultProceeds, InterruptsProceed, RestartsProceed
  DEF Microtask
<1>5. CASE Task
  BY <1>2, <1>5, CloseCellProceeds, AnswersProceed, SessionsProceed,
     InterruptsProceed, RestartsProceed, CloseNotebookProceeds
  DEF Task
<1>6. QED
  BY <1>1, <1>4, <1>5 DEF Next

(* A queue that has failed and is empty stays so, and a list only grows    *)
(* while its queue has not failed.                                         *)
LEMMA FailedQueuesShrink ==
    ASSUME BaseInv, QueuesProceed \/ \E d \in Execs : StepQueues(d),
           NEW q \in Execs, queue[q].failed
    PROVE  /\ queue'[q].failed
           /\ queue[q].items = <<>> => queue'[q].items = <<>>
           /\ \A e \in Items(q)' : /\ e \in Items(q)
                                   /\ exec'[e].result = "pending" => exec[e].result = "pending"
<1>1. CASE QueuesProceed
  <2>1. QueueProceeds(q) /\ \A e \in Execs : RunSettles(e)
    BY <1>1 DEF QueuesProceed
  <2>2. \A e \in Items(q)' : e \in Items(q) /\ e \in Execs
    BY <2>1, ListedRun DEF QueueProceeds, BaseInv
  <2>3. QED
    BY <2>1, <2>2 DEF QueueProceeds, RunSettles
<1>2. ASSUME NEW d \in Execs, StepQueues(d)
      PROVE  /\ queue'[q] = queue[q]
             /\ \A e \in Items(q) : exec'[e] = exec[e]
  BY <1>2, QueuedRun, ListedRun DEF StepQueues, BaseInv
<1>3. CASE \E d \in Execs : StepQueues(d)
  <2>1. Items(q)' = Items(q) /\ queue'[q] = queue[q] /\ \A e \in Items(q) : exec'[e] = exec[e]
    BY <1>2, <1>3 DEF Items, Members
  <2>2. QED
    BY <2>1
<1>4. QED
  BY <1>1, <1>3

LEMMA SameInterruptStays ==
    ASSUME BaseInv, QueuesProceed \/ \E d \in Execs : StepQueues(d),
           NEW i \in Interrupts, InterruptSound(i),
           interruptCall'[i] = interruptCall[i], interruptPromise' # i \/ interruptPromise = i
    PROVE  InterruptSound(i)'
<1> DEFINE c == interruptCall[i]
<1>1. c.cancelPending => c.queue \in Execs /\ queue[c.queue].failed
  BY QueueNames DEF BaseInv, QueueInv, InterruptedQueuesFailed
<1>2. c.pc # "idle" => c.queue \in Execs
  BY DEF BaseInv, TypeInv, TypeOK, InterruptsHaveQueue, InterruptRec, Execs, None
<1>3. c.cancelPending =>
         \A e \in Members(queue'[c.queue].items) : exec'[e].result = "pending" => e \in c.waits
  <2> SUFFICES ASSUME c.cancelPending, NEW q \in Execs, q = c.queue, queue[q].failed,
                      NEW e \in Items(q)', exec'[e].result = "pending"
               PROVE  e \in c.waits
    BY <1>1 DEF Items
  <2>1. e \in Items(q) /\ exec[e].result = "pending"
    BY FailedQueuesShrink
  <2>2. QED
    BY <2>1 DEF InterruptSound
<1>4. (c.pc # "idle" /\ queue[c.queue].failed /\ queue[c.queue].items = <<>>) =>
         queue'[c.queue].failed /\ queue'[c.queue].items = <<>>
  BY <1>2, FailedQueuesShrink
<1> HIDE DEF c
<1>5. QED
  BY <1>3, <1>4 DEF InterruptSound, Items, c

(* The fields of a changed call.                                           *)
LEMMA ChangedCallFields ==
    ASSUME NEW c \in InterruptRec, NEW pc, NEW q, NEW s, NEW on, NEW W, NEW b, NEW v
    PROVE  /\ LET t == [c EXCEPT !.pc = pc, !.queue = q, !.session = s]
              IN  /\ t.pc = pc /\ t.queue = q /\ t.on = c.on /\ t.waits = c.waits
                  /\ t.cancelPending = c.cancelPending /\ t.result = c.result
           /\ LET t == [c EXCEPT !.pc = pc, !.on = on, !.waits = W, !.cancelPending = b]
              IN  /\ t.pc = pc /\ t.queue = c.queue /\ t.on = on /\ t.waits = W
                  /\ t.cancelPending = b /\ t.result = c.result
           /\ LET t == [c EXCEPT !.cancelPending = b]
              IN  /\ t.pc = c.pc /\ t.queue = c.queue /\ t.on = c.on /\ t.waits = c.waits
                  /\ t.cancelPending = b /\ t.result = c.result
           /\ LET t == [c EXCEPT !.pc = pc, !.result = v]
              IN  /\ t.pc = pc /\ t.queue = c.queue /\ t.on = c.on /\ t.waits = c.waits
                  /\ t.cancelPending = c.cancelPending /\ t.result = v
  BY DEF InterruptRec

(* Only call i changes, and its new record t is sound.                     *)
LEMMA OneInterruptChanges ==
    ASSUME BaseInv, InterruptInv, QueuesProceed, NEW i \in Interrupts, NEW t,
           interruptCall' = [interruptCall EXCEPT ![i] = t],
           interruptPromise' \in {interruptPromise, i, None},
           t.cancelPending =>
              \A e \in Members(queue'[t.queue].items) :
                 exec'[e].result = "pending" => e \in t.waits,
           t.pc \in {"idle", "awaitSession"} => ~t.cancelPending /\ interruptPromise' # i,
           t.pc = "shared" => t.on \notin {None, i},
           t.pc # "done" => t.result = "none",
           (t.result = "Success" /\ t.on \in {None, i}) => ~t.cancelPending,
           \/ t.on \notin {None, i}
           \/ t.pc \in {"idle", "awaitSession"}
           \/ t.cancelPending
           \/ queue'[t.queue].failed /\ queue'[t.queue].items = <<>>
    PROVE  InterruptInv'
<1>1. interruptCall'[i] = t /\ \A j \in Interrupts \ {i} : interruptCall'[j] = interruptCall[j]
  BY DEF BaseInv, TypeInv, TypeOK
<1>2. InterruptSound(i)'
  BY <1>1 DEF InterruptSound, Items
<1>3. ASSUME NEW j \in Interrupts, j # i PROVE InterruptSound(j)'
  <2>1. interruptPromise' # j \/ interruptPromise = j
    BY <1>3 DEF Interrupts, None
  <2>2. QED
    BY <1>1, <1>3, <2>1, SameInterruptStays DEF InterruptInv
<1>4. QED
  BY <1>2, <1>3 DEF InterruptInv

(* What stays true of the queue of a call while its record is the same.    *)
LEMMA QueueOfCallStays ==
    ASSUME BaseInv, InterruptInv, QueuesProceed, NEW i \in Interrupts, NEW c, c = interruptCall[i]
    PROVE  /\ c \in InterruptRec /\ (c.pc # "idle" => c.queue \in Execs)
           /\ c.cancelPending =>
                 \A e \in Members(queue'[c.queue].items) :
                    exec'[e].result = "pending" => e \in c.waits
           /\ c.cancelPending => c.queue \in Execs /\ queue'[c.queue].failed
           /\ (c.pc # "idle" /\ queue[c.queue].failed /\ queue[c.queue].items = <<>>) =>
                 queue'[c.queue].failed /\ queue'[c.queue].items = <<>>
<1>1. c \in InterruptRec
  BY DEF BaseInv, TypeInv, TypeOK
<1>2. c.pc # "idle" => c.queue \in Execs
  BY DEF BaseInv, TypeInv, TypeOK, InterruptsHaveQueue, InterruptRec, Execs, None
<1>3. c.cancelPending => c.queue \in Execs /\ queue[c.queue].failed
  BY QueueNames DEF BaseInv, QueueInv, InterruptedQueuesFailed
<1>4. \A q \in Execs : queue[q].failed =>
         /\ queue'[q].failed
         /\ queue[q].items = <<>> => queue'[q].items = <<>>
         /\ \A e \in Items(q)' : /\ e \in Items(q)
                                 /\ exec'[e].result = "pending" => exec[e].result = "pending"
  BY FailedQueuesShrink
<1>5. c.cancelPending =>
         \A e \in Members(queue'[c.queue].items) : exec'[e].result = "pending" => e \in c.waits
  <2> SUFFICES ASSUME c.cancelPending, NEW q \in Execs, q = c.queue, queue[q].failed,
                      NEW e \in Items(q)', exec'[e].result = "pending"
               PROVE  e \in c.waits
    BY <1>3 DEF Items
  <2>1. e \in Items(q) /\ exec[e].result = "pending"
    BY <1>4
  <2>2. QED
    BY <2>1 DEF InterruptInv, InterruptSound
<1>6. QED
  BY <1>1, <1>2, <1>3, <1>4, <1>5

LEMMA InterruptStartsSound ==
    ASSUME BaseInv, InterruptInv, QueuesProceed, NEW i \in Interrupts, Interrupt(i)
    PROVE  InterruptInv'
<1> DEFINE c == interruptCall[i]
           t == [c EXCEPT !.pc = "awaitSession", !.queue = docQueue, !.session = sessionPromise]
<1>1. c \in InterruptRec /\ InterruptSound(i)
  BY DEF BaseInv, TypeInv, TypeOK, InterruptInv
<1>2. interruptCall' = [interruptCall EXCEPT ![i] = t] /\ c.pc = "idle"
      /\ interruptPromise' = interruptPromise
  BY DEF Interrupt
<1>3. t.pc = "awaitSession" /\ t.cancelPending = c.cancelPending /\ t.result = c.result
  BY <1>1, ChangedCallFields
<1>4. ~c.cancelPending /\ interruptPromise # i /\ c.result = "none"
  BY <1>1, <1>2 DEF InterruptSound
<1> HIDE DEF t, c
<1>5. QED
  BY <1>2, <1>3, <1>4, OneInterruptChanges

LEMMA InterruptCancelsSound ==
    ASSUME BaseInv, OwnerInv, InterruptInv, QueuesProceed, NEW i \in Interrupts,
           InterruptSessionSettled(i)
    PROVE  InterruptInv'
<1> USE DEF BaseInv
<1>1. PICK c \in InterruptRec : c = interruptCall[i]
  BY DEF TypeInv, TypeOK
<1>2. PICK q \in Execs : q = c.queue /\ q \in Born
  <2>1. c.pc # "idle"
    BY <1>1 DEF InterruptSessionSettled
  <2>2. c.queue \in Execs
    BY <1>1, <2>1, QueueOfCallStays
  <2>3. c.queue \in 0..nExecs
    BY <1>1 DEF QueueInv, InterruptedQueuesFailed
  <2>4. QED
    BY <2>2, <2>3, QueueNames DEF Born, Execs
<1>3. PICK W : W = AwaitedByCancel(queue[q].items)
  OBVIOUS
<1>4. c.pc = "awaitSession" /\ CancelExecs(Cancellable(queue[q].items, FALSE))
      /\ queue' = [queue EXCEPT ![q].failed = TRUE]
  BY <1>1, <1>2 DEF InterruptSessionSettled
<1>5. c.result = "none" /\ interruptPromise # i
  BY <1>1, <1>4 DEF InterruptInv, InterruptSound
<1>6. PICK pc, on :
         /\ interruptCall' = [interruptCall EXCEPT ![i].pc = pc, ![i].on = on,
                                 ![i].waits = W, ![i].cancelPending = TRUE]
         /\ pc \in {"awaitCells", "shared", "race"}
         /\ pc = "shared" => on = interruptPromise /\ interruptPromise # None
         /\ interruptPromise' \in {None, interruptPromise, i}
  BY <1>1, <1>2, <1>3 DEF InterruptSessionSettled
<1> DEFINE t == [c EXCEPT !.pc = pc, !.on = on, !.waits = W, !.cancelPending = TRUE]
<1>7. interruptCall' = [interruptCall EXCEPT ![i] = t]
  BY <1>1, <1>6
<1>8. /\ t.pc = pc /\ t.on = on /\ t.waits = W /\ t.cancelPending
      /\ t.queue = q /\ t.result = "none"
  BY <1>2, <1>5, ChangedCallFields
<1> HIDE DEF t
<1>9. ASSUME NEW e \in Members(queue'[q].items), exec'[e].result = "pending"
      PROVE  e \in W
  <2>1. queue'[q].items = queue[q].items
    BY <1>4, QueueFields, ChangedQueueFields DEF TypeInv, TypeOK
  <2>2. e \in Items(q)
    BY <2>1 DEF Items
  <2>3. e \in Execs /\ e \in Born
    BY <2>2, ListedRun
  <2>4. exec[e].result = "pending" /\ e \notin Cancellable(queue[q].items, FALSE)
    <3>1. CellsSettle /\ \A x \in Execs \cap Cancellable(queue[q].items, FALSE) :
             exec'[x].result # "pending"
      BY <1>4, CancelSettles DEF TypeInv, TypeOK
    <3>2. RunSettles(e)
      BY <2>3, <3>1 DEF CellsSettle
    <3>3. QED
      BY <1>9, <2>3, <3>1, <3>2 DEF RunSettles
  <2>5. ~exec[e].completed /\ ~exec[e].cancelHandled
    BY <2>3, <2>4 DEF OwnerInv, UnresolvedRunsAreIntact
  <2>6. exec[e].started
    BY <2>2, <2>4, <2>5 DEF Cancellable, Items
  <2>7. QED
    BY <1>3, <2>2, <2>4, <2>5, <2>6 DEF AwaitedByCancel, Items
<1>10. interruptPromise' \in {interruptPromise, i, None}
  BY <1>6
<1>11. t.pc \notin {"idle", "awaitSession", "done"} /\ t.result # "Success"
       /\ (t.pc = "shared" => t.on \notin {None, i})
  BY <1>5, <1>6, <1>8
<1>12. \A e \in Members(queue'[t.queue].items) : exec'[e].result = "pending" => e \in t.waits
  BY <1>8, <1>9
<1>13. QED
  BY <1>7, <1>8, <1>10, <1>11, <1>12, OneInterruptChanges

LEMMA InterruptEmptiesSound ==
    ASSUME BaseInv, InterruptInv, QueuesProceed, NEW i \in Interrupts, InterruptCellsSettled(i)
    PROVE  InterruptInv'
<1> USE DEF BaseInv
<1>1. PICK c \in InterruptRec : c = interruptCall[i]
  BY DEF TypeInv, TypeOK
<1> DEFINE t == [c EXCEPT !.cancelPending = FALSE]
<1>2. /\ interruptCall' = [interruptCall EXCEPT ![i] = t] /\ c.cancelPending
      /\ queue' = [queue EXCEPT ![c.queue].items = <<>>]
      /\ interruptPromise' = interruptPromise
  BY <1>1 DEF InterruptCellsSettled, CellsSettled
<1>3. /\ t.pc = c.pc /\ ~t.cancelPending /\ t.result = c.result /\ t.queue = c.queue
      /\ t.on = c.on
  BY ChangedCallFields
<1>4. c.queue \in Execs /\ queue'[c.queue].failed
  BY <1>1, <1>2, QueueOfCallStays
<1>5. queue'[c.queue].items = <<>>
  BY <1>2, <1>4, QueueFields, ChangedQueueFields DEF TypeInv, TypeOK
<1>6. InterruptSound(i)
  BY DEF InterruptInv
<1> HIDE DEF t
<1>7. /\ t.pc \notin {"idle", "awaitSession"} /\ (t.pc = "shared" => t.on \notin {None, i})
      /\ (t.pc # "done" => t.result = "none")
  BY <1>1, <1>2, <1>3, <1>6 DEF InterruptSound
<1>8. QED
  BY <1>2, <1>3, <1>4, <1>5, <1>7, OneInterruptChanges

LEMMA InterruptReturnsSound ==
    ASSUME BaseInv, InterruptInv, QueuesProceed, NEW i \in Interrupts,
           InterruptSucceeds(i) \/ InterruptGivesUp(i) \/ InterruptShared(i)
    PROVE  InterruptInv'
<1> USE DEF BaseInv
<1>1. PICK c \in InterruptRec : c = interruptCall[i]
  BY DEF TypeInv, TypeOK
<1>2. InterruptSound(i)
  BY DEF InterruptInv
<1>3. PICK v :
         /\ interruptCall' = [interruptCall EXCEPT ![i].pc = "done", ![i].result = v]
         /\ c.pc \notin {"idle", "awaitSession"}
         /\ v = "Success" => ~c.cancelPending \/ c.on \notin {None, i}
         /\ interruptPromise' \in {interruptPromise, None}
  <2>1. CASE InterruptSucceeds(i)
    BY <1>1, <2>1 DEF InterruptSucceeds, Returns
  <2>2. CASE InterruptGivesUp(i)
    <3>1. PICK v \in {"TimedOut", "Restarted"} : Returns(i, v)
      BY <2>2 DEF InterruptGivesUp
    <3>2. interruptCall' = [interruptCall EXCEPT ![i].pc = "done", ![i].result = v]
      BY <3>1 DEF Returns
    <3>3. c.pc = "race" /\ interruptPromise' = None /\ v # "Success"
      BY <1>1, <2>2 DEF InterruptGivesUp
    <3>4. QED
      BY <3>2, <3>3
  <2>3. CASE InterruptShared(i)
    <3>1. c.on \notin {None, i} /\ c.pc = "shared" /\ interruptPromise' = None
      BY <1>1, <1>2, <2>3 DEF InterruptShared, InterruptSound
    <3>2. \E v : interruptCall' = [interruptCall EXCEPT ![i].pc = "done", ![i].result = v]
      BY <2>3 DEF InterruptShared, Returns
    <3>3. QED
      BY <3>1, <3>2
  <2>4. QED
    BY <2>1, <2>2, <2>3
<1> DEFINE t == [c EXCEPT !.pc = "done", !.result = v]
<1>4. interruptCall' = [interruptCall EXCEPT ![i] = t]
  BY <1>1, <1>3
<1>5. /\ t.pc = "done" /\ t.cancelPending = c.cancelPending /\ t.result = v
      /\ t.queue = c.queue /\ t.on = c.on /\ t.waits = c.waits
  BY ChangedCallFields
<1> HIDE DEF t
<1>6. interruptPromise' \in {interruptPromise, i, None}
  BY <1>3
<1>7. c.cancelPending =>
         \A e \in Members(queue'[c.queue].items) : exec'[e].result = "pending" => e \in c.waits
  BY <1>1, QueueOfCallStays
<1>8. \/ c.on \notin {None, i} \/ c.cancelPending
      \/ queue'[c.queue].failed /\ queue'[c.queue].items = <<>>
  BY <1>1, <1>2, <1>3, QueueOfCallStays DEF InterruptSound
<1>9. /\ t.pc \notin {"idle", "awaitSession", "shared"}
      /\ (t.result = "Success" /\ t.on \in {None, i}) => ~t.cancelPending
      /\ \/ t.on \notin {None, i} \/ t.cancelPending
         \/ queue'[t.queue].failed /\ queue'[t.queue].items = <<>>
      /\ t.cancelPending =>
            \A e \in Members(queue'[t.queue].items) :
               exec'[e].result = "pending" => e \in t.waits
  BY <1>3, <1>5, <1>7, <1>8
<1>10. QED
  BY <1>4, <1>5, <1>6, <1>9, OneInterruptChanges

(* Every step keeps the calls of interrupt() sound.                        *)
InterruptSteps(i) ==
    \/ Interrupt(i) \/ InterruptSessionSettled(i) \/ InterruptCellsSettled(i)
    \/ InterruptSucceeds(i) \/ InterruptGivesUp(i) \/ InterruptShared(i)

LEMMA OnlyInterruptsInterrupt ==
    ASSUME [Next]_vars
    PROVE  \/ UNCHANGED <<interruptCall, interruptPromise>>
           \/ \E i \in Interrupts : InterruptSteps(i)
<1>1. CASE UNCHANGED vars
  BY <1>1 DEF vars, callVars
<1>2. CASE Microtask
  <2>1. ASSUME NEW q \in Execs,
               \/ LoopSessionSettled(q) \/ LoopNext(q)
               \/ LoopStartRejects(q) \/ LoopResultSettled(q)
        PROVE  UNCHANGED <<interruptCall, interruptPromise>>
    BY <2>1 DEF LoopSessionSettled, LoopNext, LoopStartRejects, LoopResultSettled, callVars
  <2>2. ASSUME NEW r \in Restarts, RestartSessionSettled(r)
        PROVE  UNCHANGED <<interruptCall, interruptPromise>>
    BY <2>2 DEF RestartSessionSettled
  <2>3. ASSUME NEW w \in waitingRuns, ResumeExecuteCell(w)
        PROVE  UNCHANGED <<interruptCall, interruptPromise>>
    BY <2>3 DEF ResumeExecuteCell
  <2>4. QED
    BY <1>2, <2>1, <2>2, <2>3 DEF Microtask, InterruptSteps
<1>3. CASE Task
  <2>1. ASSUME NEW c \in Cells, ExecuteCell(c) \/ CloseCell(c)
        PROVE  UNCHANGED <<interruptCall, interruptPromise>>
    BY <2>1 DEF ExecuteCell, CloseCell, callVars
  <2>2. ASSUME NEW e \in Execs, ClearOutputDone(e) \/ KernelReplies(e) \/ RequestRejected(e)
        PROVE  UNCHANGED <<interruptCall, interruptPromise>>
    BY <2>2 DEF ClearOutputDone, KernelReplies, RequestRejected, callVars
  <2>3. ASSUME NEW s \in Sessions,
               \/ StartKernel(s) \/ SessionStarted(s) \/ SessionFailed(s)
               \/ KernelDies(s) \/ SessionDisposed(s)
        PROVE  UNCHANGED <<interruptCall, interruptPromise>>
    BY <2>3 DEF StartKernel, SessionStarted, SessionFailed, KernelDies, SessionDisposed, callVars
  <2>4. ASSUME NEW r \in Restarts, Restart(r) \/ RestartSucceeds(r) \/ RestartFails(r)
        PROVE  UNCHANGED <<interruptCall, interruptPromise>>
    BY <2>4 DEF Restart, RestartSucceeds, RestartFails, RestartSettles
  <2>5. CASE CloseNotebook
    BY <2>5 DEF CloseNotebook, callVars
  <2>6. QED
    BY <1>3, <2>1, <2>2, <2>3, <2>4, <2>5 DEF Task, InterruptSteps
<1>4. QED
  BY <1>1, <1>2, <1>3 DEF Next

LEMMA StepsStaySound ==
    ASSUME RunInv, [Next]_vars
    PROVE  InterruptInv'
<1> USE DEF RunInv
<1>1. QueuesProceed \/ \E d \in Execs : StepQueues(d)
  BY StepKinds DEF StepSettles, StepStarts
<1>2. CASE UNCHANGED <<interruptCall, interruptPromise>>
  <2>1. ASSUME NEW i \in Interrupts PROVE InterruptSound(i)'
    BY <1>1, <1>2, SameInterruptStays DEF InterruptInv
  <2>2. QED
    BY <2>1 DEF InterruptInv
<1>3. ASSUME NEW i \in Interrupts, InterruptSteps(i) PROVE InterruptInv'
  <2>1. QueuesProceed
    BY <1>3, InterruptsProceed DEF InterruptSteps, StepSettles
  <2>2. QED
    BY <1>3, <2>1, InterruptStartsSound, InterruptCancelsSound, InterruptEmptiesSound,
       InterruptReturnsSound DEF InterruptSteps
<1>4. QED
  BY <1>2, <1>3, OnlyInterruptsInterrupt

-----------------------------------------------------------------------------
(* The invariant holds.                                                    *)
LEMMA InitRunInv == Init => RunInv
<1> SUFFICES ASSUME Init PROVE RunInv
  OBVIOUS
<1>1. BaseInv
  BY InitTypes, InitQueueInv DEF BaseInv
<1>2. /\ Born = {} /\ nExecs = 0
      /\ \A e \in Execs : ~exec[e].started /\ wrapper[e] = "none"
      /\ \A q \in Execs : /\ queue[q].items = <<>> /\ ~queue[q].failed
                          /\ queue[q].loop = "none" /\ Items(q) = {}
      /\ ~notebookClosed
  BY DEF Init, CellInit, Born, Unborn, Items, Members
<1>3. \A c \in Cells : executionMap[c] = None
  BY DEF Init, CellInit
<1>4. OwnerInv
  BY <1>2, <1>3 DEF OwnerInv, UnresolvedRunsAreIntact, ExecutionsAreOfTheirCell,
                    CreatorKnowsLiveOnes, LiveHaveRuns, Live, Execs, None
<1>5. \A r \in Restarts : restartCall[r].queue = 0
  BY DEF Init, None
<1>6. JobInv
  BY <1>2, <1>5 DEF JobInv, RejectedRunsFailed, QueuesAreNamedByRuns, OnlyNewestIsHealthy
<1>7. LostInv
  BY <1>2 DEF LostInv, FailedQueuesHoldStartedRuns, EndedLoopsAreEmpty,
              ClosedNotebookHasLateRuns, NoRunIsLost
<1>8. InterruptInv
  <2>1. \A i \in Interrupts :
           interruptCall[i] = [pc |-> "idle", queue |-> None, session |-> None, on |-> None,
                               waits |-> {}, cancelPending |-> FALSE, result |-> "none"]
    BY DEF Init
  <2>2. \A i \in Interrupts : interruptPromise # i
    BY DEF Init, None, Interrupts
  <2>3. QED
    BY <2>1, <2>2 DEF InterruptInv, InterruptSound
<1>9. QED
  BY <1>1, <1>4, <1>6, <1>7, <1>8 DEF RunInv

LEMMA NextRunInv == RunInv /\ [Next]_vars => RunInv'
<1> SUFFICES ASSUME RunInv, [Next]_vars PROVE RunInv'
  OBVIOUS
<1> USE DEF RunInv
<1>1. BaseInv'
  BY NextTypes, NextQueueInv DEF BaseInv
<1>2. CellTypeOK /\ Born \subseteq Execs
  BY QueueNames DEF BaseInv, TypeInv, TypeOK
<1>3. InterruptInv'
  BY StepsStaySound
<1>4. CASE StepSettles
  BY <1>1, <1>2, <1>3, <1>4, SettlingKeepsOwners, ProceedingKeepsJobs,
     ProceedingLosesNothing DEF StepSettles
<1>5. CASE StepStarts
  <2>1. PICK q \in Execs :
           /\ queue[q].loop = "next" /\ queue[q].items # <<>> /\ ~queue[q].failed
           /\ exec[Head(queue[q].items)].cell \notin closedCells
           /\ wrapper[exec[Head(queue[q].items)].execution] # "ended"
           /\ StartBegins(Head(queue[q].items))
    BY <1>5 DEF StepStarts
  <2>2. Head(queue[q].items) \in Born /\ Unresolved(Head(queue[q].items))
    BY <2>1, FirstHasItsTurn DEF Unresolved
  <2>3. OwnerInv'
    BY <1>2, <2>1, <2>2, StartingKeepsOwners
  <2>4. QED
    BY <1>1, <1>3, <1>5, <2>3, ProceedingKeepsJobs, ProceedingLosesNothing DEF StepStarts
<1>6. ASSUME NEW d \in Execs, StepQueues(d) PROVE RunInv'
  <2>1. OwnerInv'
    BY <1>2, <1>6, CreatingKeepsOwners DEF StepQueues
  <2>2. QED
    BY <1>1, <1>3, <1>6, <2>1, QueueingKeepsJobs, QueueingLosesNothing
<1>7. QED
  BY <1>4, <1>5, <1>6, StepKinds

LEMMA AlwaysRunInv == Spec => []RunInv
<1>1. QED
  BY InitRunInv, NextRunInv, PTL DEF Spec

-----------------------------------------------------------------------------
(* VS Code shows a cell as executing only while a run of it has no result. *)
THEOREM ExecutionsAreOwned == Spec => []LiveExecutionsAreOwned
<1>1. RunInv => LiveExecutionsAreOwned
  BY RunNames DEF RunInv, BaseInv, TypeInv, TypeOK, OwnerInv, CreatorKnowsLiveOnes,
                  LiveHaveRuns, Live, LiveExecutionsAreOwned
<1>2. QED
  BY <1>1, AlwaysRunInv, PTL

(* Every run without a result is driven by the loop of its queue and owed  *)
(* an answer, but for the two ways to lose a run that the code has.        *)
THEOREM RunsAreDriven == Spec => []NoRunIsLost
<1>1. RunInv => NoRunIsLost
  BY DEF RunInv, LostInv
<1>2. QED
  BY <1>1, AlwaysRunInv, PTL

(* Two cells are active only if the queue of one of them has failed.       *)
THEOREM OneCellIsActive == Spec => []OneActiveCell
<1>1. RunInv => OneActiveCell
  <2> SUFFICES ASSUME RunInv, NEW e \in Born, NEW f \in Born, IsActive(e), IsActive(f),
                      ~queue[exec[e].queue].failed, ~queue[exec[f].queue].failed
               PROVE  e = f
    BY DEF OneActiveCell
  <2> USE DEF RunInv, BaseInv
  <2>1. ASSUME NEW g \in Born, IsActive(g), ~queue[exec[g].queue].failed
        PROVE  exec[g].queue = docQueue /\ queue[exec[g].queue].cell = g
    <3>1. exec[g].queue \in Execs
      BY QueueNames DEF QueueInv, RunsBelongToQueues
    <3>2. g \in Items(exec[g].queue)
      BY <2>1, <3>1 DEF QueueInv, HealthyQueuesAreInOrder, QueueIsInOrder, IsActive
    <3>3. queue[exec[g].queue].items # <<>>
      BY <3>2, NothingInEmptyList DEF Items
    <3>4. QED
      BY <2>1, <3>1, <3>3 DEF JobInv, OnlyNewestIsHealthy, QueueInv, StartedRunIsCurrent,
                              IsActive
  <2>2. QED
    BY <2>1
<1>2. QED
  BY <1>1, AlwaysRunInv, PTL

(* An interrupt() that cancelled the cells itself and says Success has     *)
(* finished the queue.                                                     *)
THEOREM SuccessFinishesQueue == Spec => []InterruptedQueueIsFinished
<1>1. RunInv => InterruptedQueueIsFinished
  <2> SUFFICES ASSUME RunInv, NEW i \in Interrupts, interruptCall[i].result = "Success",
                      interruptCall[i].on \in {None, i},
                      NEW e \in Born, exec[e].queue = interruptCall[i].queue,
                      Unresolved(e)
               PROVE  ExecutionTaken(e) \/ QueuedTooLate(e)
    BY DEF InterruptedQueueIsFinished, QueueFinished, Unresolved
  <2>1. InterruptSound(i)
    BY DEF RunInv, InterruptInv
  <2>2. queue[exec[e].queue].items = <<>>
    BY <2>1 DEF InterruptSound
  <2>3. ~Driven(e)
    BY <2>2, NothingInEmptyList DEF Driven
  <2>4. QED
    BY <2>3 DEF RunInv, LostInv, NoRunIsLost
<1>2. QED
  BY <1>1, AlwaysRunInv, PTL

-----------------------------------------------------------------------------
(* The queues implement CellJobs.  The phases and jobs of a notebook.      *)
Phases == [e \in Execs |-> Phase(e)]
JobOf == [e \in Execs |-> exec[e].queue]
Aborted == {q \in Execs : queue[q].failed}

LEMMA InitJobs == Init => Jobs!Init
<1> SUFFICES ASSUME Init PROVE Jobs!Init
  OBVIOUS
<1>1. Born = {}
  BY DEF Init, CellInit, Born
<1>2. \A e \in Execs : Phase(e) = "absent"
  BY <1>1 DEF Phase
<1>3. \A e \in Execs : exec[e].queue = 0
  BY DEF Init, CellInit, Unborn, None
<1>4. \A q \in Execs : ~queue[q].failed
  BY DEF Init
<1>5. QED
  BY <1>2, <1>3, <1>4 DEF Jobs!Init

(* A step that settles finishes runs, perhaps none, and aborts jobs.       *)
LEMMA SettlingFinishes ==
    ASSUME BaseInv, StepSettles
    PROVE  Jobs!Next
<1> USE DEF BaseInv
<1>1. Born' = Born /\ Born \subseteq Execs
  BY QueueNames DEF StepSettles, QueuesProceed, Born
<1>2. PICK S \in SUBSET Execs, J \in SUBSET Execs :
         /\ S = {e \in Born : exec[e].result = "pending" /\ exec'[e].result # "pending"}
         /\ J = {q \in Execs : queue'[q].failed}
  BY <1>1
<1>3. \A e \in Execs : exec'[e].queue = exec[e].queue /\ RunEnds(e)
  BY DEF StepSettles, QueuesProceed, RunSettles
<1>4. {q \in Execs : queue'[q].failed} = Aborted \cup J
  BY <1>2 DEF StepSettles, QueuesProceed, QueueProceeds, Aborted
<1>5. ASSUME NEW e \in Execs
      PROVE  Phase(e)' = IF e \in S THEN "finished" ELSE Phase(e)
  BY <1>2, <1>1, <1>3 DEF Phase, RunEnds
<1>6. ASSUME NEW e \in S
      PROVE  \/ Phase(e) = "executing"
             \/ /\ Phase(e) = "pending"
                /\ exec[e].queue \in Aborted \cup J \/ ItsTurn(e)
  <2>1. e \in Execs /\ exec[e].queue \in Execs
    BY <1>2, <1>1 DEF QueueInv, RunsBelongToQueues
  <2>2. exec[e].run # "none" \/ queue'[exec[e].queue].failed \/ ItsTurn(e)
    BY <1>2, <1>3, <2>1 DEF RunEnds
  <2>3. QED
    BY <1>2, <2>1, <2>2 DEF Phase
<1>7. ASSUME NEW e \in Execs, ItsTurn(e)
      PROVE  \A p \in {x \in Execs : /\ x < e /\ Phases[x] # "absent"
                                     /\ JobOf[x] = JobOf[e]} : Phases[p] = "finished"
  BY <1>1, <1>7 DEF ItsTurn, Phase, Phases, JobOf
<1>8. Phases' = [e \in Execs |-> IF e \in S THEN "finished" ELSE Phases[e]]
  BY <1>5 DEF Phases
<1>9. JobOf' = JobOf
  BY <1>3 DEF JobOf
<1>10. Aborted' = Aborted \cup J
  BY <1>4 DEF Aborted
<1>11. \A e \in S : \/ Phases[e] = "executing"
                    \/ /\ Phases[e] = "pending"
                       /\ \/ JobOf[e] \in Aborted'
                          \/ \A p \in {x \in Execs : /\ x < e /\ Phases[x] # "absent"
                                /\ JobOf[x] = JobOf[e]} : Phases[p] = "finished"
  BY <1>6, <1>7, <1>10 DEF Phases, JobOf
<1>12. Jobs!Finish(S, J)
  BY <1>8, <1>9, <1>10, <1>11
     DEF Jobs!Finish, Jobs!Finished, Jobs!Before, Phases, JobOf, Aborted
<1>13. QED
  BY <1>12 DEF Jobs!Next

(* The loop begins the first run of its list.                              *)
LEMMA StartingBegins ==
    ASSUME BaseInv, StepStarts
    PROVE  Jobs!Next
<1> USE DEF BaseInv
<1>1. PICK q \in Execs :
         /\ queue[q].loop = "next" /\ queue[q].items # <<>> /\ ~queue[q].failed
         /\ StartBegins(Head(queue[q].items))
         /\ \A p \in Execs : queue'[p].failed = queue[p].failed
  BY DEF StepStarts
<1>2. PICK h : h = Head(queue[q].items)
  OBVIOUS
<1>3. /\ h \in Born /\ h \in Execs /\ exec[h].queue = q /\ exec[h].result = "pending"
      /\ exec[h].run = "none" /\ ItsTurn(h)
  BY <1>1, <1>2, FirstHasItsTurn
<1>4. exec' = [exec EXCEPT ![h].started = TRUE, ![h].run = "clearing"] /\ nExecs' = nExecs
  BY <1>1, <1>2 DEF StartBegins
<1> DEFINE t == [exec[h] EXCEPT !.started = TRUE, !.run = "clearing"]
<1>5. t.queue = exec[h].queue /\ t.result = exec[h].result /\ t.run = "clearing"
  BY <1>3, RunType DEF CellExecutionRec, TypeInv, TypeOK
<1>6. exec' = [exec EXCEPT ![h] = t]
  BY <1>4
<1> HIDE DEF t
<1>7. exec'[h] = t /\ \A e \in Execs \ {h} : exec'[e] = exec[e]
  BY <1>3, <1>6 DEF TypeInv, TypeOK, CellTypeOK
<1>8. Born' = Born /\ Born \subseteq Execs
  BY <1>4, QueueNames DEF Born
<1>9. Phase(h) = "pending" /\ Phase(h)' = "executing"
      /\ \A e \in Execs \ {h} : Phase(e)' = Phase(e)
  BY <1>3, <1>5, <1>7, <1>8 DEF Phase
<1>10. Phases' = [Phases EXCEPT ![h] = "executing"]
  BY <1>3, <1>9 DEF Phases
<1>11. JobOf' = JobOf
  BY <1>5, <1>7 DEF JobOf
<1>12. Aborted' = Aborted
  BY <1>1 DEF Aborted
<1>13. JobOf[h] \notin Aborted
  BY <1>1, <1>3 DEF JobOf, Aborted
<1>14. \A p \in {x \in Execs : x < h /\ Phases[x] # "absent" /\ JobOf[x] = JobOf[h]} :
          Phases[p] = "finished"
  BY <1>3, <1>8 DEF ItsTurn, Phase, Phases, JobOf
<1>15. Phases[h] = "pending"
  BY <1>3, <1>9 DEF Phases
<1>16. Jobs!Begin(h)
  BY <1>10, <1>11, <1>12, <1>13, <1>14, <1>15
     DEF Jobs!Begin, Jobs!Finished, Jobs!Before, Phases, JobOf, Aborted
<1>17. QED
  BY <1>3, <1>16 DEF Jobs!Next

(* A new run is submitted to a queue that has not failed.                  *)
LEMMA QueueingSubmits ==
    ASSUME BaseInv, NEW d \in Execs, StepQueues(d)
    PROVE  Jobs!Next
<1> USE DEF BaseInv
<1>1. PICK n \in Execs : n = nExecs + 1
  BY DEF StepQueues
<1>2. /\ Born' = Born \cup {n} /\ Born \subseteq Execs /\ n \notin Born /\ n \in Execs
      /\ \A e \in Execs : e # n => exec'[e] = exec[e]
      /\ exec'[n].queue = d /\ exec'[n].result = "pending" /\ exec'[n].run = "none"
  BY <1>1, QueuedRun
<1>3. \A p \in Born : p < n
  BY <1>1, QueueNames DEF Born
<1>4. \A q \in Execs : queue'[q].failed <=> queue[q].failed
  BY DEF StepQueues
<1>5. d \in Execs \ Aborted
  BY DEF StepQueues, Aborted
<1>6. Phase(n) = "absent" /\ Phase(n)' = "pending"
      /\ \A e \in Execs \ {n} : Phase(e)' = Phase(e)
  BY <1>2 DEF Phase
<1>7. \A p \in Execs : Phase(p) # "absent" => p < n
  BY <1>3 DEF Phase
<1>8. Phases' = [Phases EXCEPT ![n] = "pending"] /\ Phases[n] = "absent"
  BY <1>2, <1>6 DEF Phases
<1>9. JobOf' = [JobOf EXCEPT ![n] = d]
  BY <1>2 DEF JobOf
<1>10. Aborted' = Aborted
  BY <1>4 DEF Aborted
<1>11. \A p \in Execs : Phases[p] # "absent" => p < n
  BY <1>7 DEF Phases
<1>12. Jobs!Submit(n)
  BY <1>5, <1>8, <1>9, <1>10, <1>11 DEF Jobs!Submit, Phases, JobOf, Aborted
<1>13. QED
  BY <1>12 DEF Jobs!Next

(* Each step of the queues is a step of CellJobs or leaves it unchanged.   *)
THEOREM QueuesRefineJobs == Spec => QueuesImplementJobs
<1>1. RunInv /\ [Next]_vars => [Jobs!Next]_(Jobs!jobVars)
  <2> SUFFICES ASSUME RunInv, [Next]_vars PROVE Jobs!Next
    OBVIOUS
  <2>1. QED
    BY StepKinds, SettlingFinishes, StartingBegins, QueueingSubmits DEF RunInv
<1>2. QED
  BY <1>1, InitJobs, AlwaysRunInv, PTL DEF Spec, QueuesImplementJobs, Jobs!Spec

=============================================================================
