----------------------------- MODULE RawSessions -----------------------------
(***************************************************************************)
(* RawJupyterSession, over BaseJupyterSession, RawSession and the provider *)
(* that creates and tracks the sessions of kernels that run on this        *)
(* machine.                                                                *)
(*                                                                         *)
(* A session starts its kernel when it is created and a new one on every   *)
(* restart: launch() of KernelLauncher, then up to 30 s until the          *)
(* connection is up, then up to 3 s for an answer to a request.  Only then *)
(* the kernel becomes the current one and its exit is watched by the       *)
(* session; before that, the RawSession around it only disposes itself.    *)
(* Restarts, cancellations, disposal and the death of processes fall into  *)
(* all these waits.                                                        *)
(*                                                                         *)
(* A kernel is named by its launch.  Shutting a raw kernel down takes no   *)
(* task of its own: RawKernel.shutdown disposes the process at once, and   *)
(* the second that waitForPromise allows is not used.                      *)
(***************************************************************************)
EXTENDS KernelLauncher

CONSTANTS MaxSessions   \* bound: sessions created, numbered in this order

ASSUME SessionBound == MaxSessions \in Nat

Sessions == 1..MaxSessions

VARIABLES start,      \* start[k]: what the session does with launch k
          session,    \* session[s]: the RawJupyterSession
          provider    \* HostRawNotebookProvider.dispose()

sessionVars == <<start, session, provider>>
vars == <<launcherVars, sessionVars>>

Starts == [of: 0..MaxSessions,
           pc: {"unused", "launching", "connecting", "done", "failed"}]

Session == [state: {"new", "starting", "connected", "failed"},  \* of its promise
            current: 0..MaxLaunches,      \* _session
            restarting: 0..MaxLaunches,   \* restartSessionPromise
            isDisposed: BOOLEAN,
            over: BOOLEAN]                \* onDidDispose has fired

Provider == [state: {"open", "awaiting", "disposed", "failed"}, awaits: SUBSET Sessions]

TypeOK == /\ launch \in [Launches -> Launch]
          /\ usedPorts \subseteq Ports
          /\ portChain \in 0..MaxLaunches
          /\ start \in [Launches -> Starts]
          /\ session \in [Sessions -> Session]
          /\ provider \in Provider

Init == /\ LauncherInit
        /\ start = [k \in Launches |-> [of |-> 0, pc |-> "unused"]]
        /\ session = [s \in Sessions |->
              [state |-> "new", current |-> 0, restarting |-> 0,
               isDisposed |-> FALSE, over |-> FALSE]]
        /\ provider = [state |-> "open", awaits |-> {}]

InFlight(k) == start[k].pc \in {"launching", "connecting"}

\* A start whose search failed with this step; its session learns of it.
Refused == {k \in Launches : start[k].pc = "launching" /\ launch'[k].stage = "failed"}
-----------------------------------------------------------------------------
(***************************************************************************)
(* How a start ends.                                                       *)
(***************************************************************************)

\* The starts of K reject.  A first start rejects the session's promise, and
\* createNotebook disposes a session that has no kernel; a restart leaves
\* the session with the kernel it has.
FailedSession(s, K) ==
    [session[s] EXCEPT
        !.state = IF @ = "starting" THEN "failed" ELSE @,
        !.isDisposed = @ \/ session[s].state = "starting",
        !.restarting = IF @ \in K THEN 0 ELSE @]

StartsFail(K) ==
    /\ start' = [k \in Launches |-> IF k \in K THEN [start[k] EXCEPT !.pc = "failed"]
                                    ELSE start[k]]
    /\ session' = [s \in Sessions |-> IF \E k \in K : start[k].of = s
                                      THEN FailedSession(s, K) ELSE session[s]]
    /\ UNCHANGED provider

\* The kernel that restart() replaces.
\* Faulty variant: it is left running.
ReplacedKept(s) == {k \in Launches : k = 0 /\ start[k].of = s}

Replaced(s) == {session[s].current} \ {0}

\* setSession(new): the promise of the session resolves, or restart() goes
\* on, whatever became of the session, and shuts the old kernel down.
StartSucceeds(k) ==
    LET s == start[k].of
    IN  /\ start' = [start EXCEPT ![k].pc = "done"]
        /\ session' = [session EXCEPT ![s].state = "connected",
                                      ![s].current = k,
                                      ![s].restarting = 0]
        /\ DisposeProcesses(Replaced(s))
        /\ UNCHANGED provider
-----------------------------------------------------------------------------
(***************************************************************************)
(* Calls.                                                                  *)
(***************************************************************************)
BeginStart(s, k) ==
    /\ CallLaunch(k)
    /\ LET refused == launch'[k].stage = "failed"
       IN  /\ start' = [start EXCEPT ![k] =
                  [of |-> s, pc |-> IF refused THEN "failed" ELSE "launching"]]
           /\ session' = [session EXCEPT ![s] =
                  IF @.state = "new"
                  THEN [@ EXCEPT !.state = IF refused THEN "failed" ELSE "starting",
                                 !.isDisposed = refused]
                  ELSE [@ EXCEPT !.restarting = IF refused THEN 0 ELSE k]]
    /\ UNCHANGED provider

CreateNotebook(s) == /\ session[s].state = "new"
                     /\ \A r \in 1..s - 1 : session[r].state # "new"
                     /\ \E k \in Launches : BeginStart(s, k)

\* KernelExecution.restart lets one restart of a session run at a time.
Restart(s) ==
    /\ session[s].state = "connected" /\ ~session[s].isDisposed
    /\ ~\E k \in Launches : start[k].of = s /\ InFlight(k)
    /\ \E k \in Launches : BeginStart(s, k)

\* launch() or the waits after it throw.
Throws(k) ==
    /\ IF start[k].pc = "launching"
       THEN launch' = ThrownLaunch(k) /\ UNCHANGED <<usedPorts, portChain>>
       ELSE DisposeProcesses({k})
    /\ StartsFail({k})

\* The token of a first start is cancelled by the kernel.
CancelStart(s) ==
    /\ session[s].state = "starting"
    /\ \E k \in Launches : start[k].of = s /\ InFlight(k) /\ Throws(k)

CancelledBy(S) == {session[s].restarting : s \in S} \ {0}

\* shutdownImplementation: the current kernel is shut down and a restart is
\* cancelled, which rejects at once; but only if there is a current kernel.
Shutdown(S) ==
    LET alive     == {s \in S : session[s].current # 0}
        current   == {session[s].current : s \in alive}
        cancelled == CancelledBy(alive)
        thrown    == {k \in cancelled : start[k].pc = "launching"}
        dropped   == current \cup (cancelled \ thrown)
    IN  /\ session' = [s \in Sessions |->
              IF s \in alive
              THEN [session[s] EXCEPT !.isDisposed = TRUE, !.over = TRUE,
                                      !.current = 0, !.restarting = 0]
              ELSE IF s \in S THEN [session[s] EXCEPT !.isDisposed = TRUE]
              ELSE session[s]]
        /\ start' = [k \in Launches |-> IF k \in cancelled
                                        THEN [start[k] EXCEPT !.pc = "failed"]
                                        ELSE start[k]]
        /\ launch' = [k \in Launches |-> IF k \in thrown THEN ThrownLaunch(k)[k]
                                         ELSE Disposed(dropped)[k]]
        /\ usedPorts' = usedPorts \ FreedBy(dropped)
        /\ UNCHANGED portChain

Dispose(s) == /\ session[s].state = "connected" /\ ~session[s].isDisposed
              /\ Shutdown({s})
              /\ UNCHANGED provider

\* The provider tracks the sessions created until they are over.  It awaits
\* them all, starts in flight included, and then disposes them; one start
\* that failed, however long ago, rejects the whole wait.
Tracked == {s \in Sessions : session[s].state # "new" /\ ~session[s].over}

ProviderDispose ==
    /\ provider.state = "open"
    /\ provider' = [state |-> "awaiting",
                    awaits |-> Tracked]
    /\ UNCHANGED <<launcherVars, start, session>>

\* Faulty variant: the wait ends with the first session that has started.
AllStartedOnce(S) == \E s \in S : session[s].state = "connected"

AllStarted(S) == \A s \in S : session[s].state = "connected"

ProviderGoesOn ==
    /\ provider.state = "awaiting"
    /\ AllStarted(provider.awaits)
    /\ provider' = [provider EXCEPT !.state = "disposed"]
    /\ Shutdown(provider.awaits)

ProviderFails ==
    /\ provider.state = "awaiting"
    /\ \E s \in provider.awaits : session[s].state = "failed"
    /\ provider' = [provider EXCEPT !.state = "failed"]
    /\ UNCHANGED <<launcherVars, start, session>>
-----------------------------------------------------------------------------
(***************************************************************************)
(* Progress of a start.                                                    *)
(***************************************************************************)
PortsFound(k) == FindPorts(k) /\ UNCHANGED sessionVars

PortsExhausted(k) == FindNoPorts(k) /\ StartsFail(Refused)

Spawned(k) == Spawn(k) /\ UNCHANGED sessionVars

\* launch() returns; a RawSession is made around the process.
Launched(k) == /\ Listening(k)
               /\ start' = [start EXCEPT ![k].pc = "connecting"]
               /\ UNCHANGED <<session, provider>>

\* The connection is up and the kernel answered, or two attempts of 1.5 s
\* went by without an answer, because the process has ended meanwhile.
Connected(k) == start[k].pc = "connecting" /\ StartSucceeds(k)

\* The launch fails or times out, the connection does not come up in 30 s,
\* or the request for kernel info is rejected.
StartFails(k) ==
    /\ \/ start[k].pc = "launching" /\ launch[k].stage = "launching"
       \/ start[k].pc = "connecting"
    /\ Throws(k)

(***************************************************************************)
(* A process ends by itself.  A launch fails with it; a RawSession         *)
(* disposes itself and its process; if it is the current one, the session  *)
(* forgets it.  A KernelProcess that is disposed does not notice.          *)
(***************************************************************************)
ProcessExits(k) ==
    /\ Running(k)
    /\ \/ /\ launch[k].disposed
          /\ launch' = Exited(k)
          /\ UNCHANGED <<usedPorts, portChain, sessionVars>>
       \/ /\ ~launch[k].disposed /\ start[k].pc = "launching"
          /\ Throws(k)
       \/ /\ ~launch[k].disposed /\ start[k].pc # "launching"
          /\ DisposeProcesses({k})
          /\ session' = [s \in Sessions |-> IF session[s].current = k
                                            THEN [session[s] EXCEPT !.current = 0]
                                            ELSE session[s]]
          /\ UNCHANGED <<start, provider>>
-----------------------------------------------------------------------------
StartStep(k) == \/ PortsFound(k) \/ PortsExhausted(k)
                \/ Spawned(k) \/ Launched(k) \/ Connected(k) \/ StartFails(k)

Next == \/ \E s \in Sessions : \/ CreateNotebook(s) \/ Restart(s)
                               \/ CancelStart(s) \/ Dispose(s)
        \/ \E k \in Launches : StartStep(k) \/ ProcessExits(k)
        \/ ProviderDispose \/ ProviderGoesOn \/ ProviderFails

Spec == Init /\ [][Next]_vars

FairSpec == /\ Spec
            /\ \A k \in Launches : WF_vars(StartStep(k))
-----------------------------------------------------------------------------
(***************************************************************************)
(* No two kernels that run or are about to be spawned share a port,        *)
(* however their searches overlap and whatever was cancelled before.       *)
(***************************************************************************)
Holds(k) == launch[k].process \in {"spawning", "running"}

PortsAreExclusive ==
    \A i, j \in Launches : i # j /\ Holds(i) /\ Holds(j)
                           => launch[i].ports \cap launch[j].ports = {}

(***************************************************************************)
(* Ports are given back when a kernel that came up ends, however it ends,  *)
(* and not before.  The ports of launches that were cancelled or failed    *)
(* are the exception: they stay taken.                                     *)
(***************************************************************************)
PortsComeBack ==
    usedPorts = UNION {launch[k].ports : k \in {j \in Launches :
                   ~(launch[j].stage = "launched" /\ launch[j].disposed)}}

(***************************************************************************)
(* Every process belongs to a start in flight or is the current kernel of  *)
(* its session.  The one exception are processes spawned too late.         *)
(***************************************************************************)
ProcessesAreOwned ==
    \A k \in Launches : Running(k) => \/ SpawnedTooLate(k)
                                      \/ InFlight(k)
                                      \/ session[start[k].of].current = k

(***************************************************************************)
(* A session that was shut down while it had a kernel is left with nothing *)
(* that runs or will run, restarts in flight included; a session whose     *)
(* kernel had died, or that had none, may get one from a restart.          *)
(***************************************************************************)
ShutdownIsFinal ==
    \A k \in Launches : start[k].of # 0 /\ session[start[k].of].over
                        => ~InFlight(k) /\ (Running(k) => SpawnedTooLate(k))

(***************************************************************************)
(* Once the provider is disposed without an error, no first kernel of the  *)
(* sessions it tracked runs or will run, the starts that were in flight    *)
(* when it was called included.                                            *)
(***************************************************************************)
ProviderLeavesNothing ==
    provider.state = "disposed" =>
        \A k \in Launches :
            start[k].of \in provider.awaits /\ (Running(k) \/ InFlight(k))
            => SpawnedTooLate(k) \/ \E j \in 1..k - 1 : start[j].of = start[k].of

(***************************************************************************)
(* Every start succeeds or fails, and with it every restart() returns.     *)
(***************************************************************************)
StartsSettle == \A k \in Launches : InFlight(k) ~> ~InFlight(k)
=============================================================================
