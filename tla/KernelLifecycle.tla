---------------------------- MODULE KernelLifecycle ----------------------------
(***************************************************************************)
(* Starting, restarting and disposing one kernel: BaseKernel               *)
(* (kernels/kernel.base.ts) with the part of KernelExecution.restart() it  *)
(* awaits.  KernelExecution sees a session as a promise that settles; here *)
(* is what settles it.                                                     *)
(*                                                                         *)
(* Nothing in BaseKernel keeps its methods apart: restarting is never      *)
(* assigned, so starts, restarts and dispose() interleave at every await.  *)
(* Actions that resume a settled promise are microtasks and come first, as *)
(* in KernelExecution.                                                     *)
(*                                                                         *)
(* A start is one run of createJupyterSession(); its session object and    *)
(* the cancellation source it makes have its number.                       *)
(***************************************************************************)
EXTENDS Integers

CONSTANTS
    MaxStarts,    \* bound: how many sessions are created
    MaxRestarts   \* bound: how many times restart() is called

ASSUME BoundsAssumption == MaxStarts \in Nat /\ MaxRestarts \in Nat

Starts == 1..MaxStarts
Restarts == 1..MaxRestarts
None == 0

VARIABLES
    nStarts,            \* starts made so far
    start,              \* the runs of createJupyterSession()
    sessionObject,      \* the IJupyterSession each of them made
    sessionPromise,     \* _jupyterSessionPromise: the start it belongs to, or None
    activeSession,      \* _session
    ignoring,           \* _ignoreJupyterSessionDisposedErrors
    startCancellation,  \* the current cancellation source
    cancelled,          \* the cancellation sources that were cancelled
    restartCall,        \* the calls of restart()
    restartPromise,     \* KernelExecution._restartPromise, or None
    disposal            \* dispose()

startVars == <<nStarts, start, startCancellation, cancelled>>
vars == <<startVars, sessionObject, sessionPromise, activeSession, ignoring,
          restartCall, restartPromise, disposal>>

StartStates == {"none", "creating", "initializing", "ready", "failed"}
SessionStates == {"none", "live", "closing", "disposed"}
CallStates == {"idle", "awaitSession", "awaitStart", "awaitRestart", "initializing",
               "failing", "killing", "done", "failed"}
Effects == {"none", "started", "restarted"}

(* hooked: the kernel listens to the session being disposed.               *)
StartRec == [pc : StartStates, token : 0..MaxStarts, hooked : BOOLEAN]

(* on: the start awaited or the session killed.  joined: the call whose    *)
(* session.restart() is awaited.  effect: what the call has brought about. *)
RestartRec ==
    [pc : CallStates, on : 0..MaxStarts, joined : 0..MaxRestarts, effect : Effects]

DisposalRec == [pc : {"no", "awaitStart", "disposed", "failed"}, on : 0..MaxStarts]

TypeOK ==
    /\ nStarts \in 0..MaxStarts
    /\ start \in [Starts -> StartRec]
    /\ sessionObject \in [Starts -> SessionStates]
    /\ sessionPromise \in 0..nStarts
    /\ activeSession \in 0..MaxStarts
    /\ ignoring \in BOOLEAN
    /\ startCancellation \in 0..nStarts
    /\ cancelled \subseteq 0..nStarts
    /\ restartCall \in [Restarts -> RestartRec]
    /\ restartPromise \in 0..MaxRestarts
    /\ disposal \in DisposalRec

Init ==
    /\ nStarts = 0
    /\ start = [i \in Starts |-> [pc |-> "none", token |-> None, hooked |-> FALSE]]
    /\ sessionObject = [i \in Starts |-> "none"]
    /\ sessionPromise = None
    /\ activeSession = None
    /\ ignoring = FALSE
    /\ startCancellation = 0
    /\ cancelled = {}
    /\ restartCall = [r \in Restarts |->
          [pc |-> "idle", on |-> None, joined |-> None, effect |-> "none"]]
    /\ restartPromise = None
    /\ disposal = [pc |-> "no", on |-> None]

-----------------------------------------------------------------------------
(* Which promises have settled, that is which microtasks are due.          *)
Settled(i) == i # None => start[i].pc \in {"ready", "failed"}
Closed(i) == i # None => sessionObject[i] = "disposed"
RestartDue(r) ==
    \/ restartCall[r].pc \in {"awaitSession", "awaitStart"} /\ Settled(restartCall[r].on)
    \/ restartCall[r].pc = "failing"
    \/ restartCall[r].pc = "killing" /\ Closed(restartCall[r].on)
DisposeDue == disposal.pc = "awaitStart" /\ Settled(disposal.on)
NoMicrotaskDue == ~DisposeDue /\ \A r \in Restarts : ~RestartDue(r)

(* session.restart() made by call r has not settled.                       *)
RestartInFlight(r) == restartCall[r].pc = "awaitRestart" /\ restartCall[r].joined = r

-----------------------------------------------------------------------------
\* Faulty variants: the source that replaces a used-up one is not kept; a start
\* is not counted.
CreateSessionUnkept(C) ==
    /\ nStarts < MaxStarts
    /\ nStarts' = nStarts + 1
    /\ sessionPromise' = nStarts + 1
    /\ cancelled' = C
    /\ start' = [start EXCEPT ![nStarts + 1] =
           [pc |-> "creating",
            token |-> IF startCancellation \in C THEN nStarts + 1 ELSE startCancellation,
            hooked |-> FALSE]]
    /\ UNCHANGED startCancellation

(* startJupyterSession() without a session promise, when the cancellation  *)
(* sources C are used up: a used-up source is replaced first.              *)
CreateSession(C) ==
    /\ nStarts < MaxStarts
    /\ nStarts' = nStarts + 1
    /\ sessionPromise' = nStarts + 1
    /\ startCancellation' = IF startCancellation \in C THEN nStarts + 1
                            ELSE startCancellation
    /\ cancelled' = C
    /\ start' = [start EXCEPT ![nStarts + 1] =
           [pc |-> "creating", token |-> startCancellation', hooked |-> FALSE]]

(* start(), executeCell() or executeHidden(); also after dispose().  With  *)
(* a session promise they only hand it out.                                *)
Start ==
    /\ NoMicrotaskDue
    /\ sessionPromise = None
    /\ CreateSession(cancelled)
    /\ UNCHANGED <<sessionObject, activeSession, ignoring, restartCall, restartPromise,
                   disposal>>

(* The catch of startJupyterSession(), after that of createJupyterSession. *)
(* It clears what is there now, whichever start failed.                    *)
StartFails(i) ==
    /\ start' = [start EXCEPT ![i].pc = "failed"]
    /\ cancelled' = cancelled \cup {startCancellation}
    /\ sessionPromise' = None
    /\ UNCHANGED <<nStarts, startCancellation>>

(* notebookProvider.create() hands over a session: its token was not       *)
(* cancelled.  The check of the current source that follows cannot fail    *)
(* then, because it is the same one (CancelReachesStarts).                 *)
CreateReturns(i) ==
    /\ NoMicrotaskDue
    /\ start[i].pc = "creating" /\ start[i].token \notin cancelled
    /\ start' = [start EXCEPT ![i].pc = "initializing", ![i].hooked = TRUE]
    /\ sessionObject' = [sessionObject EXCEPT ![i] = "live"]
    /\ UNCHANGED <<nStarts, startCancellation, cancelled, sessionPromise, activeSession,
                   ignoring, restartCall, restartPromise, disposal>>

CreateRejects(i) ==
    /\ NoMicrotaskDue
    /\ start[i].pc = "creating"
    /\ StartFails(i)
    /\ UNCHANGED <<sessionObject, activeSession, ignoring, restartCall, restartPromise,
                   disposal>>

(* initializeAfterStart() of a new session.                                *)
InitializeReturns(i) ==
    /\ NoMicrotaskDue
    /\ start[i].pc = "initializing"
    /\ start' = [start EXCEPT ![i].pc = "ready"]
    /\ activeSession' = i
    /\ UNCHANGED <<nStarts, startCancellation, cancelled, sessionObject, sessionPromise,
                   ignoring, restartCall, restartPromise, disposal>>

InitializeThrows(i) ==
    /\ NoMicrotaskDue
    /\ start[i].pc = "initializing"
    /\ StartFails(i)
    /\ UNCHANGED <<sessionObject, activeSession, ignoring, restartCall, restartPromise,
                   disposal>>

-----------------------------------------------------------------------------
(* interrupt(), after its hooks: a start under way is cancelled.           *)
Interrupt ==
    /\ NoMicrotaskDue
    /\ cancelled' = cancelled \cup {startCancellation}
    /\ UNCHANGED <<nStarts, start, startCancellation, sessionObject, sessionPromise,
                   activeSession, ignoring, restartCall, restartPromise, disposal>>

(* session.dispose() and shutdown() take a while.                          *)
CloseSession(s) ==
    sessionObject' = [i \in Starts |->
        IF i = s /\ sessionObject[i] = "live" THEN "closing" ELSE sessionObject[i]]

(* Someone else ends a session: the extension's API, or a notebook         *)
(* provider that is disposed.                                              *)
ClosedByOthers(s) ==
    /\ NoMicrotaskDue
    /\ sessionObject[s] = "live"
    /\ CloseSession(s)
    /\ UNCHANGED <<startVars, sessionPromise, activeSession, ignoring, restartCall,
                   restartPromise, disposal>>

(* onDidDispose of a session, with the handler of the kernel.              *)
SessionDisposed(s) ==
    /\ NoMicrotaskDue
    /\ sessionObject[s] = "closing"
    /\ sessionObject' = [sessionObject EXCEPT ![s] = "disposed"]
    /\ IF start[s].hooked /\ ~ignoring
       THEN sessionPromise' = None /\ activeSession' = None
       ELSE UNCHANGED <<sessionPromise, activeSession>>
    /\ UNCHANGED <<startVars, ignoring, restartCall, restartPromise, disposal>>

-----------------------------------------------------------------------------
(* restart(), after its hooks.  A start under way is cancelled and awaited;*)
(* without a session promise a session is started instead.                 *)
Restart(r) ==
    LET C == cancelled \cup {startCancellation}
    IN  /\ NoMicrotaskDue
        /\ restartCall[r].pc = "idle"
        /\ \A t \in Restarts : t < r => restartCall[t].pc # "idle"
        /\ \/ /\ sessionPromise # None
              /\ cancelled' = C
              /\ restartCall' = [restartCall EXCEPT ![r].pc = "awaitSession",
                                                    ![r].on = sessionPromise]
              /\ UNCHANGED <<nStarts, start, startCancellation, sessionPromise>>
           \/ /\ sessionPromise = None
              /\ CreateSession(C)
              /\ restartCall' = [restartCall EXCEPT ![r].pc = "awaitStart",
                                                    ![r].on = nStarts + 1]
        /\ UNCHANGED <<sessionObject, activeSession, ignoring, restartPromise, disposal>>

(* What is awaited comes to an end: initializeAfterStart(_session), then   *)
(* onRestarted fires.  Without a session there is nothing to initialize.   *)
Initialize(r, effect) ==
    [restartCall[r] EXCEPT
        !.pc = IF activeSession = None THEN "done" ELSE "initializing",
        !.on = None, !.joined = None, !.effect = effect]

(* KernelExecution.restart() has its session, or none.                     *)
RestartSessionSettled(r) ==
    LET i == restartCall[r].on
    IN  /\ restartCall[r].pc = "awaitSession" /\ Settled(i)
        /\ \/ /\ start[i].pc = "failed"
              /\ restartPromise' = None
              /\ restartCall' = [restartCall EXCEPT ![r] = Initialize(r, "none")]
           \/ /\ start[i].pc = "ready"
              /\ restartPromise' = IF restartPromise = None THEN r ELSE restartPromise
              /\ restartCall' = [restartCall EXCEPT
                     ![r].pc = "awaitRestart", ![r].on = None, ![r].joined = restartPromise']
        /\ UNCHANGED <<startVars, sessionObject, sessionPromise, activeSession, ignoring,
                       disposal>>

RestartStartSettled(r) ==
    LET i == restartCall[r].on
    IN  /\ restartCall[r].pc = "awaitStart" /\ Settled(i)
        /\ restartCall' = [restartCall EXCEPT ![r] =
               IF start[i].pc = "ready" THEN Initialize(r, "started")
               ELSE [@ EXCEPT !.pc = "failing", !.on = None]]
        /\ UNCHANGED <<startVars, sessionObject, sessionPromise, activeSession, ignoring,
                       restartPromise, disposal>>

Joined(t, r) == restartCall[t].pc = "awaitRestart" /\ restartCall[t].joined = r

\* Faulty variant: only the call that made the restart goes on.
RestartSucceedsForOne(r) ==
    /\ NoMicrotaskDue
    /\ RestartInFlight(r)
    /\ restartPromise' = None
    /\ restartCall' = [restartCall EXCEPT ![r] = Initialize(r, "restarted")]
    /\ UNCHANGED <<startVars, sessionObject, sessionPromise, activeSession, ignoring,
                   disposal>>

(* session.restart() settles, for every call that awaits it.               *)
RestartSucceeds(r) ==
    /\ NoMicrotaskDue
    /\ RestartInFlight(r)
    /\ restartPromise' = None
    /\ restartCall' = [t \in Restarts |->
           IF Joined(t, r) THEN Initialize(t, "restarted") ELSE restartCall[t]]
    /\ UNCHANGED <<startVars, sessionObject, sessionPromise, activeSession, ignoring,
                   disposal>>

RestartThrows(r) ==
    /\ NoMicrotaskDue
    /\ RestartInFlight(r)
    /\ restartPromise' = None
    /\ restartCall' = [t \in Restarts |->
           IF Joined(t, r)
           THEN [restartCall[t] EXCEPT !.pc = "failing", !.joined = None]
           ELSE restartCall[t]]
    /\ UNCHANGED <<startVars, sessionObject, sessionPromise, activeSession, ignoring,
                   disposal>>

(* The catch of restart(), up to the await of session.dispose().           *)
KillSession(r) ==
    /\ restartCall[r].pc = "failing"
    /\ ignoring' = TRUE
    /\ activeSession' = None
    /\ sessionPromise' = None
    /\ CloseSession(activeSession)
    /\ restartCall' = [restartCall EXCEPT ![r].pc = "killing", ![r].on = activeSession]
    /\ UNCHANGED <<startVars, restartPromise, disposal>>

\* Faulty variant: the kernel stays deaf.
SessionKilledStaysDeaf(r) ==
    /\ restartCall[r].pc = "killing" /\ Closed(restartCall[r].on)
    /\ restartCall' = [restartCall EXCEPT ![r].pc = "failed", ![r].on = None]
    /\ UNCHANGED <<startVars, sessionObject, sessionPromise, activeSession, ignoring,
                   restartPromise, disposal>>

SessionKilled(r) ==
    /\ restartCall[r].pc = "killing" /\ Closed(restartCall[r].on)
    /\ ignoring' = FALSE
    /\ restartCall' = [restartCall EXCEPT ![r].pc = "failed", ![r].on = None]
    /\ UNCHANGED <<startVars, sessionObject, sessionPromise, activeSession, restartPromise,
                   disposal>>

(* initializeAfterStart() of a restarted session; nobody catches its error.*)
RestartInitialized(r) ==
    /\ NoMicrotaskDue
    /\ restartCall[r].pc = "initializing"
    /\ restartCall' = [restartCall EXCEPT ![r].pc = "done"]
    /\ UNCHANGED <<startVars, sessionObject, sessionPromise, activeSession, ignoring,
                   restartPromise, disposal>>

RestartNotInitialized(r) ==
    /\ NoMicrotaskDue
    /\ restartCall[r].pc = "initializing"
    /\ restartCall' = [restartCall EXCEPT ![r].pc = "failed"]
    /\ UNCHANGED <<startVars, sessionObject, sessionPromise, activeSession, ignoring,
                   restartPromise, disposal>>

-----------------------------------------------------------------------------
(* dispose(), up to the await of a session that is being started.          *)
Dispose ==
    /\ NoMicrotaskDue
    /\ disposal.pc = "no"
    /\ ignoring' = TRUE
    /\ cancelled' = cancelled \cup {startCancellation}
    /\ \/ /\ activeSession = None /\ sessionPromise # None
          /\ disposal' = [pc |-> "awaitStart", on |-> sessionPromise]
          /\ UNCHANGED <<sessionObject, sessionPromise, activeSession>>
       \/ /\ activeSession # None \/ sessionPromise = None
          /\ disposal' = [pc |-> "disposed", on |-> None]
          /\ CloseSession(activeSession)
          /\ sessionPromise' = None /\ activeSession' = None
    /\ UNCHANGED <<nStarts, start, startCancellation, restartCall, restartPromise>>

(* If the start failed, dispose() rejects and nothing else happens.        *)
DisposeStartSettled ==
    /\ DisposeDue
    /\ \/ /\ start[disposal.on].pc = "ready"
          /\ disposal' = [pc |-> "disposed", on |-> None]
          /\ CloseSession(disposal.on)
          /\ sessionPromise' = None /\ activeSession' = None
       \/ /\ start[disposal.on].pc = "failed"
          /\ disposal' = [pc |-> "failed", on |-> None]
          /\ UNCHANGED <<sessionObject, sessionPromise, activeSession>>
    /\ UNCHANGED <<startVars, ignoring, restartCall, restartPromise>>

-----------------------------------------------------------------------------
Microtask ==
    \/ \E r \in Restarts :
          \/ RestartSessionSettled(r) \/ RestartStartSettled(r)
          \/ KillSession(r) \/ SessionKilled(r)
    \/ DisposeStartSettled

Task ==
    \/ Start \/ Interrupt \/ Dispose
    \/ \E i \in Starts :
          \/ CreateReturns(i) \/ CreateRejects(i)
          \/ InitializeReturns(i) \/ InitializeThrows(i)
          \/ ClosedByOthers(i) \/ SessionDisposed(i)
    \/ \E r \in Restarts :
          \/ Restart(r) \/ RestartSucceeds(r) \/ RestartThrows(r)
          \/ RestartInitialized(r) \/ RestartNotInitialized(r)

Next == Microtask \/ Task

Spec == Init /\ [][Next]_vars

(* The event loop runs every microtask; creating, initializing, restarting *)
(* and closing a session end, well or badly: all have time limits, but for *)
(* the startup code, which the kernel is taken to finish.  As each of them *)
(* happens once, it is enough that one of those that are due does.         *)
Completion ==
    \/ Microtask
    \/ \E i \in Starts :
          \/ CreateReturns(i) \/ CreateRejects(i)
          \/ InitializeReturns(i) \/ InitializeThrows(i)
          \/ SessionDisposed(i)
    \/ \E r \in Restarts :
          \/ RestartSucceeds(r) \/ RestartThrows(r)
          \/ RestartInitialized(r) \/ RestartNotInitialized(r)

FairSpec == Spec /\ WF_vars(Completion)

-----------------------------------------------------------------------------
(* Properties.                                                             *)

(* The kernel is deaf to its sessions being disposed only while a failed   *)
(* restart kills one, or once the kernel itself is disposed.               *)
DeafOnlyWhileKilling ==
    ignoring => \/ disposal.pc # "no"
                \/ \E r \in Restarts : restartCall[r].pc = "killing"

(* Cancelling reaches every start that creates a session: the source it    *)
(* watches is cancelled or is the one that interrupt(), restart() and      *)
(* dispose() will cancel, even if a newer start has replaced the promise.  *)
CancelReachesStarts ==
    \A i \in Starts : start[i].pc = "creating" =>
        start[i].token \in cancelled \/ start[i].token = startCancellation

(* Whoever awaits a restart awaits one that is in flight, and a restart    *)
(* promise that has settled is not handed to the next caller.              *)
RestartsAwaitLiveOnes ==
    /\ \A t \in Restarts : restartCall[t].pc = "awaitRestart" =>
          restartCall[t].joined # None /\ RestartInFlight(restartCall[t].joined)
    /\ restartPromise # None => RestartInFlight(restartPromise)

(* Every restart() returns or throws, whatever overlaps with it.           *)
RestartsReturn ==
    \A r \in Restarts :
        restartCall[r].pc # "idle" ~> restartCall[r].pc \in {"done", "failed"}

(* "Indicate a restart occurred if it succeeds": onRestarted fires only    *)
(* after something was restarted or started.                               *)
RestartedMeansRestarted ==
    \A r \in Restarts : restartCall[r].pc = "done" => restartCall[r].effect # "none"
=============================================================================
