---------------------------- MODULE CellOutputs ----------------------------
(***************************************************************************)
(* CellExecutionMessageHandler, CellExecutionMessageHandlerService and     *)
(* CellOutputDisplayIdTracker, for one notebook: how the messages of the   *)
(* kernel become edits of the outputs of cells.                            *)
(*                                                                         *)
(* The handler of a run lives on after the run when there are widgets.     *)
(* The edits it makes are on their way to VS Code while it goes on, and    *)
(* what VS Code tells of the document is on its way back; the user clears  *)
(* outputs meanwhile.                                                      *)
(*                                                                         *)
(* One run is under way at a time.  Output widgets that capture the        *)
(* outputs of others, input prompts, payloads of replies and the deletion  *)
(* of cells are not modelled.  The names of the specification are its own, *)
(* so that a module can extend it beside that of another component.        *)
(***************************************************************************)
EXTENDS Naturals, Sequences

CONSTANTS Cells,        \* the code cells
          Displays,     \* display ids the kernel uses
          MaxRuns,      \* bound: runs of cells
          MaxMessages   \* bound: messages of the kernel that have content

NoDisplay == "none"

ASSUME OutputBounds == /\ MaxRuns \in Nat /\ MaxMessages \in Nat
                       /\ NoDisplay \notin Displays

Streams == {"stdout", "stderr"}
Chunks == 1..MaxMessages              \* a content is known by its message

\* A NotebookCellOutput: its id, that of the message it was made for, and
\* what its content is made of.
CellOutput == [id : Chunks, kind : Streams \cup {"data", "error"}, by : 1..MaxRuns,
           display : Displays \cup {NoDisplay}, text : Seq(Chunks)]
NoOutput == [id |-> 0, kind |-> "none", by |-> 0, display |-> NoDisplay, text |-> <<>>]

VARIABLES run,         \* the runs of cells, each with its message handler
          active,      \* activeNotebookCellExecution: the run, or 0
          tracked,     \* the output that is updated for a display id
          lastDisplay, \* cellToDisplayIdMapping
          shown,       \* the outputs of each cell in the document
          edits,       \* on their way to VS Code
          events,      \* on their way back
          messages,    \* messages received
          meant,       \* the outputs as the messages say
          toClear,     \* runs whose next output is to clear those before
          stray,       \* outputs the tracker lost or replaced by later ones
          misled,      \* runs told of a clearing that precedes their error
          spoiled      \* cells whose outputs the named exceptions changed

documentVars == <<shown, edits, events>>
trackerVars == <<tracked, lastDisplay>>
meaning == <<meant, toClear, stray, misled, spoiled>>
outputVars == <<run, active, trackerVars, documentVars, messages, meaning>>

Runs == DOMAIN run

OutputsInit ==
    /\ run = <<>> /\ active = 0
    /\ tracked = [d \in Displays |-> NoOutput]
    /\ lastDisplay = [c \in Cells |-> NoDisplay]
    /\ shown = [c \in Cells |-> <<>>] /\ edits = <<>> /\ events = <<>>
    /\ messages = 0
    /\ meant = shown /\ toClear = {} /\ stray = {} /\ misled = {} /\ spoiled = {}

-----------------------------------------------------------------------------
(* The document.  An edit replaces the outputs of a cell, adds to them, or *)
(* replaces the items of one output, wherever it is.                       *)
Replace(c, outputs) == [op |-> "replace", cell |-> c, outputs |-> outputs, start |-> 0]
Add(c, output) == [op |-> "append", cell |-> c, outputs |-> <<output>>, start |-> 0]
ReplaceItems(c, output) == [op |-> "items", cell |-> c, outputs |-> <<output>>, start |-> 0]

WithText(outputs, id, text) ==
    [i \in DOMAIN outputs |->
        IF outputs[i].id = id THEN [outputs[i] EXCEPT !.text = text] ELSE outputs[i]]

Edited(document, edit) ==
    CASE edit.op = "replace" -> [document EXCEPT ![edit.cell] = edit.outputs]
      [] edit.op = "append" -> [document EXCEPT ![edit.cell] = @ \o edit.outputs]
      [] edit.op = "items" ->
            [c \in Cells |-> WithText(document[c], edit.outputs[1].id, edit.outputs[1].text)]

\* The document after a sequence of edits, one after the other.
Applied(document, es) ==
    LET after[n \in 0..Len(es)] == IF n = 0 THEN document ELSE Edited(after[n - 1], es[n])
    IN  after[Len(es)]

After(n) == Applied(shown, SubSeq(edits, 1, n))
Outcome == Applied(shown, edits)      \* the document when all edits are there
IsThere(output) == \E c \in Cells : \E i \in DOMAIN Outcome[c] : Outcome[c][i].id = output.id
ErrorIsThere(r) ==
    LET outputs == Outcome[run[r].cell]
    IN  \E i \in DOMAIN outputs : outputs[i].kind = "error" /\ outputs[i].by = r

\* VS Code applies edits in batches and tells of a batch once: of the cells
\* that end without outputs, and that the start of a run, one at a time,
\* cleared its cell.
ApplyEdits(n) ==
    LET cleared == {c \in Cells : After(n)[c] = <<>> /\ \E k \in 0..(n - 1) : After(k)[c] # <<>>}
        started == {edits[k].start : k \in 1..n} \ {0}
    IN  /\ shown' = After(n)
        /\ edits' = SubSeq(edits, n + 1, Len(edits))
        /\ events' = events
               \o (IF cleared # {} THEN <<[cleared |-> cleared, user |-> FALSE, start |-> 0]>> ELSE <<>>)
               \o (IF started = {} THEN <<>>
                   ELSE <<[cleared |-> {}, user |-> FALSE, start |-> CHOOSE r \in started : TRUE]>>)
        /\ UNCHANGED <<run, active, trackerVars, messages, meaning>>

\* The user clears the outputs of a cell, while no edit is on its way.
UserClears(c) ==
    /\ edits = <<>> /\ shown[c] # <<>>
    /\ shown' = [shown EXCEPT ![c] = <<>>]
    /\ events' = Append(events, [cleared |-> {c}, user |-> TRUE, start |-> 0])
    /\ meant' = [meant EXCEPT ![c] = <<>>]
    /\ UNCHANGED <<run, active, trackerVars, edits, messages, toClear, stray, misled, spoiled>>

\* onDidChangeNotebookDocument in the tracker: a cell that was cleared loses
\* the display id it showed last.
TrackerForgets(cleared) ==
    LET removed == {lastDisplay[c] : c \in cleared} \cap Displays
    IN  /\ tracked' = [d \in Displays |-> IF d \in removed THEN NoOutput ELSE tracked[d]]
        /\ lastDisplay' = [c \in Cells |-> IF c \in cleared THEN NoDisplay ELSE lastDisplay[c]]
        /\ stray' = stray \cup {tracked[d].id : d \in {e \in removed : IsThere(tracked[e])}}

\* The same event in the tracker and in the handlers.
OutputsChanged ==
    /\ events # <<>> /\ Head(events).start = 0
    /\ LET cleared == Head(events).cleared
           listeners == {r \in Runs : run[r].cell \in cleared
                                      /\ run[r].state \in {"executing", "listening"}}
       IN  /\ TrackerForgets(cleared)
           /\ run' = [r \in Runs |-> IF r \in listeners
                                     THEN [run[r] EXCEPT !.stream = NoOutput, !.failed = FALSE]
                                     ELSE run[r]]
           /\ misled' = misled \cup {r \in listeners : run[r].failed /\ ErrorIsThere(r)}
    /\ events' = Tail(events)
    /\ UNCHANGED <<active, shown, edits, messages, meant, toClear, spoiled>>

-----------------------------------------------------------------------------
(* A run, from the start of its execution to its end.                      *)
Start(c) ==
    LET r == Len(run) + 1 IN
    /\ r <= MaxRuns
    /\ \A q \in Runs : run[q].state \in {"listening", "over"}
    /\ run' = Append(run, [cell |-> c, state |-> "clearing", comms |-> FALSE, clearNext |-> FALSE,
                           stream |-> NoOutput, failed |-> FALSE, reported |-> "no"])
    /\ active' = r
    /\ edits' = Append(edits, [Replace(c, <<>>) EXCEPT !.start = r])
    /\ meant' = [meant EXCEPT ![c] = <<>>]
    /\ spoiled' = spoiled \ {c}
    /\ UNCHANGED <<trackerVars, shown, events, messages, toClear, stray, misled>>

\* Faulty variant: the handler of the run before goes on listening.
RegisterAnother ==
    /\ events # <<>> /\ Head(events).start # 0
    /\ run' = [run EXCEPT ![Head(events).start].state = "executing"]
    /\ events' = Tail(events)
    /\ UNCHANGED <<active, trackerVars, shown, edits, messages, meaning>>

\* The reply of clearOutput(): the code is sent and its handler registered.
RegisterListener ==
    /\ events # <<>> /\ Head(events).start # 0
    /\ LET r == Head(events).start
           former == {q \in Runs \ {r} : run[q].cell = run[r].cell}
       IN  run' = [q \in Runs |->
                      IF q = r THEN [run[q] EXCEPT !.state = "executing"]
                      ELSE IF q \in former THEN [run[q] EXCEPT !.state = "over", !.stream = NoOutput]
                      ELSE run[q]]
    /\ events' = Tail(events)
    /\ UNCHANGED <<active, trackerVars, shown, edits, messages, meaning>>

RunEnds(r, reported) ==
    /\ r \in Runs /\ run[r].state = "executing"
    /\ run' = [run EXCEPT ![r].state = IF run[r].comms THEN "listening" ELSE "over",
                          ![r].stream = NoOutput, ![r].reported = reported]
    /\ active' = IF active = r THEN 0 ELSE active

\* Faulty variant: what the handler knows of errors is gone when it is asked.
CompletedWhateverIsShown(r) ==
    /\ RunEnds(r, "success")
    /\ UNCHANGED <<trackerVars, documentVars, messages, meaning>>

CompletedSuccessfully(r) ==
    /\ RunEnds(r, IF run[r].failed THEN "failed" ELSE "success")
    /\ UNCHANGED <<trackerVars, documentVars, messages, meaning>>

NewOutput(r, kind, d) ==
    [id |-> messages + 1, kind |-> kind, by |-> r, display |-> d, text |-> <<messages + 1>>]

\* The request was rejected: the reason is shown in the cell.
CompletedWithErrors(r) ==
    /\ messages < MaxMessages
    /\ RunEnds(r, "failed")
    /\ LET output == NewOutput(r, "error", NoDisplay)
       IN  /\ edits' = Append(edits, Add(run[r].cell, output))
           /\ meant' = [meant EXCEPT ![run[r].cell] = Append(@, output)]
    /\ messages' = messages + 1
    /\ UNCHANGED <<trackerVars, shown, events, toClear, stray, misled, spoiled>>

-----------------------------------------------------------------------------
(* Messages.  The edits of a handler whose run is over are made with the   *)
(* execution that is active, if there is one, and so in its cell.          *)
Handles(r) == r \in Runs /\ run[r].state \in {"executing", "listening"}
TaskCell(r) ==
    IF run[r].state = "listening" /\ active # 0 THEN run[active].cell ELSE run[r].cell
Misplaced(r) == IF TaskCell(r) = run[r].cell THEN {} ELSE {run[r].cell, TaskCell(r)}

Message(r) ==
    /\ Handles(r) /\ messages < MaxMessages
    /\ messages' = messages + 1
    /\ UNCHANGED <<active, shown, events>>

\* What is there when an output comes, in the sense of the messages.
MeantBefore(r) == IF r \in toClear THEN <<>> ELSE meant[run[r].cell]

\* A clearing the handler has not heard of took the output it writes to.
ClearedUnheard(r) ==
    \/ \E i \in DOMAIN events : events[i].user /\ run[r].cell \in events[i].cleared
    \/ \E q \in Runs : run[q].state = "clearing" /\ run[q].cell = run[r].cell

\* handleStreamMessage
Stream(r, name) ==
    LET before == run[r].stream
        grows == before.kind = name /\ ~run[r].clearNext
        output == IF grows THEN [before EXCEPT !.text = Append(@, messages + 1)]
                  ELSE NewOutput(r, name, NoDisplay)
        was == MeantBefore(r)
    IN
    /\ Message(r)
    /\ run' = [run EXCEPT ![r].stream = output, ![r].clearNext = FALSE]
    /\ edits' = edits \o
           IF grows THEN <<ReplaceItems(TaskCell(r), output)>>
           ELSE IF run[r].clearNext
           THEN <<Replace(TaskCell(r), <<>>), Replace(TaskCell(r), <<output>>)>>
           ELSE <<Add(TaskCell(r), output)>>
    /\ meant' = [meant EXCEPT ![run[r].cell] =
           IF was # <<>> /\ was[Len(was)].kind = name
           THEN [was EXCEPT ![Len(was)].text = Append(@, messages + 1)]
           ELSE Append(was, NewOutput(r, name, NoDisplay))]
    /\ toClear' = toClear \ {r}
    /\ spoiled' = spoiled \cup Misplaced(r)
                          \cup (IF grows /\ ClearedUnheard(r) THEN {run[r].cell} ELSE {})
    /\ UNCHANGED <<trackerVars, stray, misled>>

\* trackOutputByDisplayId: an output with that id before is forgotten.
Track(c, d, output) ==
    /\ tracked' = [tracked EXCEPT ![d] = output]
    /\ lastDisplay' = [lastDisplay EXCEPT ![c] = d]
    /\ stray' = stray \cup {tracked[d].id}

AddToCell(r, kind, d, stream) ==
    LET output == NewOutput(r, kind, d)
        clears == run[r].clearNext /\ run[r].state = "executing"
    IN
    /\ Message(r)
    /\ run' = [run EXCEPT ![r].stream = stream, ![r].clearNext = FALSE,
                          ![r].failed = @ \/ kind = "error"]
    /\ IF d = NoDisplay THEN UNCHANGED <<trackerVars, stray>> ELSE Track(run[r].cell, d, output)
    /\ edits' = edits \o (IF clears THEN <<Replace(run[r].cell, <<>>)>> ELSE <<>>)
                      \o <<Add(TaskCell(r), output)>>
    /\ meant' = [meant EXCEPT ![run[r].cell] = Append(MeantBefore(r), output)]
    /\ toClear' = toClear \ {r}
    /\ misled' = IF kind = "error" THEN misled \ {r} ELSE misled
    /\ spoiled' = spoiled \cup Misplaced(r)
                          \cup (IF run[r].clearNext /\ ~clears THEN {run[r].cell} ELSE {})

\* Faulty variant: text after a display still goes to the stream before it.
AddToCellAfterStream(r, kind, d) == AddToCell(r, kind, d, run[r].stream)

\* addToCellData: handleDisplayData, handleExecuteResult, handleError
AddToCellData(r, kind, d) == AddToCell(r, kind, d, NoOutput)

\* handleClearOutput
ClearOutput(r, wait) ==
    /\ Message(r)
    /\ \/ /\ wait
          /\ run' = [run EXCEPT ![r].clearNext = TRUE]
          /\ toClear' = toClear \cup {r}
          /\ UNCHANGED <<edits, meant, spoiled>>
       \/ /\ ~wait
          /\ run' = [run EXCEPT ![r].stream = NoOutput]
          /\ edits' = Append(edits, Replace(TaskCell(r), <<>>))
          /\ meant' = [meant EXCEPT ![run[r].cell] = <<>>]
          /\ spoiled' = spoiled \cup Misplaced(r)
          /\ UNCHANGED toClear
    /\ UNCHANGED <<trackerVars, stray, misled>>

\* handleUpdateDisplayDataMessage: new content, or again what the output had
\* when it was made.  That is what it is compared with.
UpdateDisplay(r, d, chunk) ==
    LET output == tracked[d]
        same == output.text = <<chunk>>
        isMeant(o) == o.display = d
        missed(o) == isMeant(o) /\ (o.id \in stray \/ (same /\ o.text # <<chunk>>))
    IN
    /\ Message(r)
    /\ chunk = messages + 1 \/ same
    /\ edits' = IF output = NoOutput \/ same THEN edits
                ELSE Append(edits, ReplaceItems(TaskCell(r), [output EXCEPT !.text = <<chunk>>]))
    /\ meant' = [c \in Cells |-> [i \in DOMAIN meant[c] |->
                    IF isMeant(meant[c][i]) THEN [meant[c][i] EXCEPT !.text = <<chunk>>]
                    ELSE meant[c][i]]]
    /\ spoiled' = spoiled \cup {c \in Cells : \E i \in DOMAIN meant[c] : missed(meant[c][i])}
    /\ UNCHANGED <<run, trackerVars, toClear, stray, misled>>

\* handleCommOpen: there will be widgets, whose messages are waited for.
CommOpen(r) ==
    /\ r \in Runs /\ run[r].state = "executing" /\ ~run[r].comms
    /\ run' = [run EXCEPT ![r].comms = TRUE]
    /\ UNCHANGED <<active, trackerVars, documentVars, messages, meaning>>

KernelMessage(r) ==
    \/ \E name \in Streams : Stream(r, name)
    \/ \E d \in Displays \cup {NoDisplay} : AddToCellData(r, "data", d)
    \/ AddToCellData(r, "error", NoDisplay)
    \/ \E wait \in BOOLEAN : ClearOutput(r, wait)
    \/ \E d \in Displays, chunk \in Chunks : UpdateDisplay(r, d, chunk)
    \/ CommOpen(r)

OutputsNext ==
    \/ \E n \in DOMAIN edits : ApplyEdits(n)
    \/ \E c \in Cells : UserClears(c) \/ Start(c)
    \/ OutputsChanged \/ RegisterListener
    \/ \E r \in 1..MaxRuns :
          CompletedSuccessfully(r) \/ CompletedWithErrors(r) \/ KernelMessage(r)

OutputsSpec == OutputsInit /\ [][OutputsNext]_outputVars

-----------------------------------------------------------------------------
Handler == [cell : Cells, state : {"clearing", "executing", "listening", "over"},
            comms : BOOLEAN, clearNext : BOOLEAN, stream : CellOutput \cup {NoOutput},
            failed : BOOLEAN, reported : {"no", "success", "failed"}]

OutputsTypeOK ==
    /\ run \in Seq(Handler) /\ Len(run) <= MaxRuns /\ active \in {0} \cup Runs
    /\ tracked \in [Displays -> CellOutput \cup {NoOutput}]
    /\ lastDisplay \in [Cells -> Displays \cup {NoDisplay}]
    /\ shown \in [Cells -> Seq(CellOutput)] /\ meant \in [Cells -> Seq(CellOutput)]
    /\ edits \in Seq([op : {"replace", "append", "items"}, cell : Cells,
                      outputs : Seq(CellOutput), start : {0} \cup Runs])
    /\ events \in Seq([cleared : SUBSET Cells, user : BOOLEAN, start : {0} \cup Runs])
    /\ messages \in 0..MaxMessages
    /\ toClear \subseteq Runs /\ misled \subseteq Runs
    /\ stray \subseteq {0} \cup Chunks /\ spoiled \subseteq Cells

\* A cell has one handler that takes messages, that of its last run.
OneHandlerPerCell ==
    \A q, r \in Runs : Handles(q) /\ Handles(r) /\ run[q].cell = run[r].cell => q = r

\* The state is well formed, and a cell that is run again gets no output
\* twice: the service disposes the handler of the run before, which widgets
\* kept alive, when it registers the new one.
HandlersAreSound == OutputsTypeOK /\ OneHandlerPerCell

\* The sequences of a sequence, one after the other.
Flattened(ss) ==
    LET flat[n \in 0..Len(ss)] == IF n = 0 THEN <<>> ELSE flat[n - 1] \o ss[n]
    IN  flat[Len(ss)]

\* The contents of outputs, one after the other, with what they are.
View(outputs) ==
    Flattened([i \in DOMAIN outputs |->
        [j \in DOMAIN outputs[i].text |-> <<outputs[i].text[j], outputs[i].kind>>]])

\* When the edits under way have been applied, a cell shows what the messages
\* of its runs say, in their order, whichever of display, update, stream and
\* clear_output (at once or with the next output) meet edits under way,
\* clearings by the user and handlers that outlive their runs.  Exceptions
\* (spoiled) are the five the code makes: a handler whose run is over writes
\* to the active cell (Misplaced) and does not clear before a display; an
\* output that is shown again, or that a clearing heard of late removed from
\* the tracker, is not updated (stray); nor is one that goes back to its
\* first content; text for an output that was cleared meanwhile is lost
\* (ClearedUnheard).
OutputsAsSent == \A c \in Cells \ spoiled : View(Outcome[c]) = View(meant[c])

\* A run that leaves an error of its own in the cell is reported as failed by
\* completedSuccessfully(), unless a clearing that preceded the error was
\* heard of after it (misled).
ErrorsAreReported ==
    [][\A r \in Runs : /\ run[r].state = "executing" /\ run'[r].state # "executing"
                       /\ ErrorIsThere(r) /\ r \notin misled
                       => run'[r].reported = "failed"]_outputVars
=============================================================================
