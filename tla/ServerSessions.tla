--------------------------- MODULE ServerSessions ---------------------------
(***************************************************************************)
(* HostJupyterServer and the JupyterSessions it creates, over              *)
(* BaseJupyterSession: notebooks whose kernels run on a Jupyter server.    *)
(*                                                                         *)
(* A session asks the server for a kernel when it is created and for a new *)
(* one on every restart, and waits until that kernel is idle.  To shut a   *)
(* kernel down it asks the server and waits a second at most: the request  *)
(* may fail or never be answered, and then the kernel runs on.  Meanwhile  *)
(* a restart may end.  The HostJupyterServer, when it is disposed or its   *)
(* process crashes, waits for all its sessions to have started before it   *)
(* closes them.                                                            *)
(*                                                                         *)
(* An operation is cut at its awaits.  A kernel is named by the createSes- *)
(* sion() that asked for it.  Kernels of a remote server are restarted in  *)
(* place, which changes nothing here, and outlive their notebook unless    *)
(* the user asks to shut them down.                                        *)
(***************************************************************************)
EXTENDS Integers

CONSTANTS MaxSessions,   \* bound: sessions created, numbered in this order
          MaxKernels     \* bound: kernels asked for, numbered in this order

ASSUME SessionBounds == MaxSessions \in Nat /\ MaxKernels \in Nat

Sessions == 1..MaxSessions
Kernels == 1..MaxKernels
Shutdowns == {"crash", "dispose"}   \* who calls HostJupyterServer.shutdown()

VARIABLES remote,    \* the server is not ours: its process is not killed
          kernel,    \* kernel[k]: the kernel as the server has it
          start,     \* start[k]: the call of createSession() that asks for it
          session,   \* session[s]: the JupyterSession and its promise
          server     \* the HostJupyterServer

vars == <<remote, kernel, start, session, server>>

\* "left": its session is disposed and the kernel is kept on purpose;
\* "asked": it runs, and the server was asked to shut it down.
KernelStates == {"none", "requested", "running", "asked", "left", "down"}

Start == [of: 0..MaxSessions,
          pc: {"unused", "directory", "file", "usable", "request", "idle",
               "done", "failed"},
          cancelled: BOOLEAN]

Session == [state: {"new", "starting", "open", "failed"},   \* of its promise
            current: 0..MaxKernels,     \* _session
            restarting: 0..MaxKernels,  \* restartSessionPromise
            closing: {"no", "current", "restart", "over"}]  \* shutdown() awaits

Server == [up: BOOLEAN,          \* the process of a local server
           disposed: BOOLEAN,
           pc: [Shutdowns -> {"no", "starts", "closes", "done", "failed"}],
           awaits: [Shutdowns -> SUBSET Sessions]]

InFlight(k) == start[k].pc \in {"directory", "file", "usable", "request", "idle"}

\* With the types: restartSessionPromise is a start that is under way.
TypeOK == /\ remote \in BOOLEAN
          /\ kernel \in [Kernels -> KernelStates]
          /\ start \in [Kernels -> Start]
          /\ session \in [Sessions -> Session]
          /\ server \in Server
          /\ \A s \in Sessions :
                LET k == session[s].restarting
                IN  k # 0 => start[k].of = s /\ InFlight(k)

Init == /\ remote \in BOOLEAN
        /\ kernel = [k \in Kernels |-> "none"]
        /\ start = [k \in Kernels |-> [of |-> 0, pc |-> "unused", cancelled |-> FALSE]]
        /\ session = [s \in Sessions |-> [state |-> "new", current |-> 0,
                                          restarting |-> 0, closing |-> "no"]]
        /\ server = [up |-> TRUE, disposed |-> FALSE,
                     pc |-> [r \in Shutdowns |-> "no"],
                     awaits |-> [r \in Shutdowns |-> {}]]

IsRestart(k) == \E j \in 1..k - 1 : start[j].of = start[k].of
-----------------------------------------------------------------------------
(***************************************************************************)
(* shutdownSession(): the server is asked to shut the kernels of K down.   *)
(* canShutdownSession() says whether; if not, they are left to themselves. *)
(* The session is disposed whatever becomes of the request.                *)
(***************************************************************************)

MayShutdown(evenIfRemote) == remote => evenIfRemote

ShutDown(K, evenIfRemote) ==
    [k \in Kernels |-> IF k \in K /\ kernel[k] = "running"
                       THEN IF MayShutdown(evenIfRemote) THEN "asked" ELSE "left"
                       ELSE kernel[k]]

\* setSession(undefined), and the session is over.
ClosedSession(r) == [r EXCEPT !.current = 0, !.restarting = 0, !.closing = "over"]

\* The restart session of s has settled, and with it the shutdown that
\* awaits it: the finally handler has already cleared restartSessionPromise,
\* so that shutdown never gets hold of the new kernel.
AfterRestart(r) == IF r.closing = "restart" THEN ClosedSession(r)
                   ELSE [r EXCEPT !.restarting = 0]

\* createSession() or the wait for idle of start k throws.
Fails(k) ==
    LET s == start[k].of
    IN  /\ start' = [start EXCEPT ![k].pc = "failed"]
        /\ session' = [session EXCEPT ![s] =
              IF IsRestart(k) THEN AfterRestart(@) ELSE [@ EXCEPT !.state = "failed"]]
        /\ UNCHANGED <<remote, server>>
-----------------------------------------------------------------------------
(***************************************************************************)
(* Calls.                                                                  *)
(***************************************************************************)
BeginStart(s, k, pc) ==
    /\ start[k].pc = "unused"
    /\ \A j \in 1..k - 1 : start[j].pc # "unused"
    /\ start' = [start EXCEPT ![k] = [of |-> s, pc |-> pc, cancelled |-> FALSE]]

\* Faulty variant: a disposed server still creates sessions.
RefusedNever == remote \notin BOOLEAN

\* throwIfDisposedOrCancelled(), but for the token.
Refused == server.disposed

\* createNotebookInstance(): the session is tracked from here on.
CreateNotebook(s) ==
    /\ ~Refused
    /\ session[s].state = "new" /\ \A r \in 1..s - 1 : session[r].state # "new"
    /\ \E k \in Kernels : BeginStart(s, k, IF remote THEN "file" ELSE "directory")
    /\ session' = [session EXCEPT ![s].state = "starting"]
    /\ UNCHANGED <<remote, kernel, server>>

\* restart() of a local session, one at a time (KernelExecution.restart). It
\* does not look whether the session is being shut down.
Restart(s) ==
    /\ ~remote /\ session[s].state = "open" /\ session[s].current # 0
    /\ session[s].restarting = 0
    /\ \E k \in Kernels : /\ BeginStart(s, k, "file")
                          /\ session' = [session EXCEPT ![s].restarting = k]
    /\ UNCHANGED <<remote, kernel, server>>

\* The token of a start: only the request to the server gives way to it at
\* once.  The server may still start the kernel.
CancelStart(s) ==
    \E k \in Kernels :
        /\ start[k].of = s /\ ~IsRestart(k) /\ InFlight(k) /\ ~start[k].cancelled
        /\ start' = [start EXCEPT ![k].cancelled = TRUE,
                                  ![k].pc = IF @ = "request" THEN "failed" ELSE @]
        /\ session' = IF start[k].pc = "request"
                      THEN [session EXCEPT ![s].state = "failed"] ELSE session
        /\ UNCHANGED <<remote, kernel, server>>

(***************************************************************************)
(* shutdownImplementation() of the sessions in S; a call while one is      *)
(* under way, or of a session without a kernel, does nothing more.         *)
(***************************************************************************)
BeginClose(S, evenIfRemote) ==
    LET alive == {s \in S : session[s].current # 0}
    IN  /\ kernel' = ShutDown({session[s].current : s \in alive}, evenIfRemote)
        /\ session' = [s \in Sessions |->
              IF s \in alive /\ session[s].closing = "no"
              THEN [session[s] EXCEPT !.closing = "current"] ELSE session[s]]

Close(s, evenIfRemote) ==
    /\ session[s].state = "open" /\ session[s].current # 0
    /\ BeginClose({s}, evenIfRemote)
    /\ UNCHANGED <<remote, start, server>>

Dispose(s) == session[s].closing = "no" /\ Close(s, FALSE)

Shutdown(s) == Close(s, TRUE)

\* The server has answered, the request has failed, or a second went by. A
\* restart is cancelled and awaited; it rejects at once if it is waiting for
\* the server to start its kernel, and goes on if it waits for something else.
\* Faulty variant: it is awaited and not cancelled.
CancelledNot(k) == start[k]

Cancelled(k) == [start[k] EXCEPT !.cancelled = TRUE,
                                 !.pc = IF @ = "request" THEN "failed" ELSE @]

CurrentClosed(s) ==
    LET k == session[s].restarting
    IN  /\ session[s].closing = "current"
        /\ IF k = 0 THEN UNCHANGED start
           ELSE start' = [start EXCEPT ![k] = Cancelled(k)]
        /\ session' = [session EXCEPT ![s] =
              IF k # 0 /\ start'[k].pc # "failed" THEN [@ EXCEPT !.closing = "restart"]
              ELSE ClosedSession(@)]
        /\ UNCHANGED <<remote, kernel, server>>
-----------------------------------------------------------------------------
(***************************************************************************)
(* Progress of a start.                                                    *)
(***************************************************************************)

\* The working directory is known; throwIfDisposedOrCancelled().
DirectoryKnown(k) ==
    /\ start[k].pc = "directory"
    /\ IF Refused \/ start[k].cancelled THEN Fails(k)
       ELSE /\ start' = [start EXCEPT ![k].pc = "file"]
            /\ UNCHANGED <<remote, session, server>>
    /\ UNCHANGED kernel

\* The server has answered for the backing file; an error is swallowed. It
\* may never answer, and neither time nor the token ends the wait.
FileCreated(k) == /\ start[k].pc = "file"
                  /\ start' = [start EXCEPT ![k].pc = "usable"]
                  /\ UNCHANGED <<remote, kernel, session, server>>

\* The dependencies of a local kernel are there, and the kernel is requested
\* unless the start is cancelled or they could not be had.
MadeUsable(k) ==
    /\ start[k].pc = "usable"
    /\ \/ /\ ~start[k].cancelled
          /\ start' = [start EXCEPT ![k].pc = "request"]
          /\ kernel' = [kernel EXCEPT ![k] = "requested"]
          /\ UNCHANGED <<remote, session, server>>
       \/ /\ remote => start[k].cancelled
          /\ Fails(k)
          /\ UNCHANGED kernel

\* The server has started the kernel, or refuses; it may never answer.  The
\* answer to a start that was cancelled is dropped.
KernelStarted(k) ==
    /\ kernel[k] = "requested" /\ server.up
    /\ kernel' = [kernel EXCEPT ![k] = "running"]
    /\ start' = [start EXCEPT ![k].pc = IF @ = "request" THEN "idle" ELSE @]
    /\ UNCHANGED <<remote, session, server>>

RequestFails(k) ==
    /\ start[k].pc = "request"
    /\ kernel' = [kernel EXCEPT ![k] = "down"]
    /\ Fails(k)

\* The server does as it was asked; it need not.
KernelEnds(k) == /\ kernel[k] = "asked" /\ server.up
                 /\ kernel' = [kernel EXCEPT ![k] = "down"]
                 /\ UNCHANGED <<remote, start, session, server>>

\* The kernel a restart replaces.
\* Faulty variant: it is left running.
ReplacedKept(s) == {k \in Kernels : k = 0 /\ start[k].of = s}

Replaced(s) == {session[s].current} \ {0}

\* The kernel is idle.  A first start hands the session out, unless the
\* server was disposed or the start cancelled meanwhile; restart() installs
\* the new kernel whatever became of the session.
Idle(k) ==
    LET s == start[k].of
    IN  /\ start[k].pc = "idle"
        /\ start' = [start EXCEPT ![k].pc = "done"]
        /\ IF IsRestart(k)
           THEN /\ session' = [session EXCEPT ![s] =
                                  AfterRestart([@ EXCEPT !.current = k])]
                /\ kernel' = ShutDown(Replaced(s), FALSE)
           ELSE /\ session' = [session EXCEPT
                      ![s].current = k,
                      ![s].state = IF Refused \/ start[k].cancelled
                                   THEN "failed" ELSE "open"]
                /\ UNCHANGED kernel
        /\ UNCHANGED <<remote, server>>

\* waitForIdleOnSession() times out and shuts the kernel down.
NotIdle(k) == /\ start[k].pc = "idle"
              /\ kernel' = ShutDown({k}, FALSE)
              /\ Fails(k)
-----------------------------------------------------------------------------
(***************************************************************************)
(* The server.  shutdown() awaits the promises of the sessions it tracks,  *)
(* which one that rejects cuts short; closes the sessions; and ends the    *)
(* process of a local server.                                              *)
(***************************************************************************)
Tracked == {s \in Sessions : /\ session[s].state \in {"starting", "open"}
                             /\ session[s].closing # "over"}

BeginShutdown(r, sv) == [sv EXCEPT !.pc[r] = "starts", !.awaits[r] = Tracked]

\* All kernels go with their server.
AllDown == [k \in Kernels |-> IF kernel[k] = "none" THEN "none" ELSE "down"]

DisposeServer == /\ ~server.disposed
                 /\ server' = [BeginShutdown("dispose", server) EXCEPT !.disposed = TRUE]
                 /\ UNCHANGED <<remote, kernel, start, session>>

\* The process exits by itself; the handler is gone once shutdown() began.
Crash == /\ ~remote /\ server.up
         /\ server' = IF server.disposed THEN [server EXCEPT !.up = FALSE]
                      ELSE [BeginShutdown("crash", server) EXCEPT !.up = FALSE]
         /\ kernel' = AllDown
         /\ UNCHANGED <<remote, start, session>>

AllStarted(S) == \A s \in S : session[s].state = "open"

CloseSessions(r) == /\ server.pc[r] = "starts"
                    /\ AllStarted(server.awaits[r])
                    /\ BeginClose(server.awaits[r], FALSE)
                    /\ server' = [server EXCEPT !.pc[r] = "closes"]
                    /\ UNCHANGED <<remote, start>>

ShutdownFails(r) == /\ server.pc[r] = "starts"
                    /\ \E s \in server.awaits[r] : session[s].state = "failed"
                    /\ server' = [server EXCEPT !.pc[r] = "failed"]
                    /\ UNCHANGED <<remote, kernel, start, session>>

\* The sessions are closed; connection.dispose() kills the process.
SessionsClosed(r) ==
    /\ server.pc[r] = "closes"
    /\ \A s \in server.awaits[r] : session[s].closing = "over"
    /\ server' = [server EXCEPT !.pc[r] = "done", !.up = remote]
    /\ kernel' = IF remote THEN kernel ELSE AllDown
    /\ UNCHANGED <<remote, start, session>>
-----------------------------------------------------------------------------
Progress == \/ \E k \in Kernels : DirectoryKnown(k) \/ MadeUsable(k) \/ Idle(k) \/ NotIdle(k)
            \/ \E s \in Sessions : CurrentClosed(s)

ServerStep == \E r \in Shutdowns :
                  CloseSessions(r) \/ ShutdownFails(r) \/ SessionsClosed(r)

Next == \/ \E s \in Sessions : \/ CreateNotebook(s) \/ Restart(s) \/ CancelStart(s)
                               \/ Dispose(s) \/ Shutdown(s)
        \/ Progress
        \/ \E k \in Kernels : \/ FileCreated(k) \/ KernelStarted(k)
                              \/ RequestFails(k) \/ KernelEnds(k)
        \/ DisposeServer \/ Crash \/ ServerStep

Spec == Init /\ [][Next]_vars

\* Timers and local work come to an end, and a prompt is closed by the token
\* of the start; the server need not ever answer.
FairSpec ==
    /\ Spec
    /\ \A k \in Kernels :
          WF_vars(\/ DirectoryKnown(k) \/ Idle(k) \/ NotIdle(k)
                  \/ start[k].cancelled /\ MadeUsable(k))
    /\ \A s \in Sessions : WF_vars(CurrentClosed(s))
    /\ \A r \in Shutdowns :
          WF_vars(CloseSessions(r) \/ ShutdownFails(r) \/ SessionsClosed(r))
-----------------------------------------------------------------------------
(***************************************************************************)
(* Every kernel that runs belongs to a start in flight, is the current one *)
(* of a session that was handed out, or the server was asked to shut it    *)
(* down, which it need not do and nobody looks; and it is never asked that *)
(* of a kernel whose session is still to use it.  Three are the exception: *)
(* the kernel of a start that was cancelled once it was requested, that of *)
(* a start the server was disposed under, and the one a restart installed  *)
(* while its session was shut down.                                        *)
(***************************************************************************)
Owned(k) == \/ InFlight(k)
            \/ /\ session[start[k].of].state = "open"
               /\ session[start[k].of].current = k

Leaked(k) == \/ start[k].cancelled
             \/ ~IsRestart(k) /\ server.disposed
             \/ IsRestart(k) /\ session[start[k].of].closing = "over"

InUse(k) == \/ InFlight(k)
            \/ /\ session[start[k].of].current = k
               /\ session[start[k].of].closing = "no"

KernelsAreOwned == \A k \in Kernels : /\ kernel[k] = "running" => Owned(k) \/ Leaked(k)
                                      /\ kernel[k] = "asked" => ~InUse(k)

(***************************************************************************)
(* When dispose() of the server has come to its end, all sessions that it  *)
(* ever handed out are over.                                               *)
(***************************************************************************)
DisposedServerHasNoSessions ==
    server.pc["dispose"] = "done" =>
        \A s \in Sessions : session[s].state = "open" => session[s].closing = "over"

(* The state of the sessions is sound: well typed, and disposed with the  *)
(* server.                                                                 *)
SessionsAreSound == TypeOK /\ DisposedServerHasNoSessions

(***************************************************************************)
(* Shutting a session down ends, although it awaits a restart that may be  *)
(* waiting for a kernel the server never starts or for a user who never    *)
(* answers.  It may not end if the restart waits for its backing file.     *)
(***************************************************************************)
BackingFilesAnswered == \A k \in Kernels : []<>(start[k].pc # "file")

ClosesEnd ==
    BackingFilesAnswered =>
        \A s \in Sessions :
            session[s].closing = "current" ~> session[s].closing = "over"
=============================================================================
