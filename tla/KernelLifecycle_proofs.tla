------------------------- MODULE KernelLifecycle_proofs -------------------------
(***************************************************************************)
(* Proofs about KernelLifecycle, for any number of starts and restarts.    *)
(* Each of the three invariants is inductive beside the type invariant.    *)
(*                                                                         *)
(* The second part is about WidgetMessages, which follows the sessions of  *)
(* a kernel: with any number of them, and of messages, its dispatcher      *)
(* keeps one inductive invariant, DispatcherInv.                           *)
(***************************************************************************)
EXTENDS KernelLifecycle, WidgetMessages, WellFoundedInduction, TLAPS

USE BoundsAssumption DEF Starts, Restarts, None

(* Which step was taken, in one formula for every proof below.             *)
StartStep(i) ==
    \/ CreateReturns(i) \/ CreateRejects(i)
    \/ InitializeReturns(i) \/ InitializeThrows(i)
    \/ ClosedByOthers(i) \/ SessionDisposed(i)

LEMMA NextIsOneOf ==
    Next => \/ Start \/ Interrupt \/ Dispose \/ DisposeStartSettled
            \/ \E i \in Starts : StartStep(i)
            \/ \E r \in Restarts :
                  \/ Restart(r) \/ RestartSessionSettled(r) \/ RestartStartSettled(r)
                  \/ RestartSucceeds(r) \/ RestartThrows(r) \/ KillSession(r)
                  \/ SessionKilled(r) \/ RestartInitialized(r) \/ RestartNotInitialized(r)
  BY DEF Next, Microtask, Task, StartStep

-----------------------------------------------------------------------------
(* Typing.                                                                 *)
LEMMA Values ==
  /\ \A p \in {"none", "creating", "initializing", "ready", "failed"} : p \in StartStates
  /\ \A p \in {"none", "live", "closing", "disposed"} : p \in SessionStates
  /\ \A p \in {"idle", "awaitSession", "awaitStart", "awaitRestart", "initializing",
               "failing", "killing", "done", "failed"} : p \in CallStates
  /\ \A p \in {"none", "started", "restarted"} : p \in Effects
  BY DEF StartStates, SessionStates, CallStates, Effects

(* Changes to the fields of a start and of a call.                         *)
LEMMA StartChanges ==
  ASSUME TypeOK, NEW i \in Starts, NEW p \in StartStates, NEW b \in BOOLEAN
  PROVE  /\ [start EXCEPT ![i].pc = p] \in [Starts -> StartRec]
         /\ [start EXCEPT ![i].pc = p, ![i].hooked = b] \in [Starts -> StartRec]
<1>1. start \in [Starts -> StartRec] /\ start[i] \in StartRec
  BY DEF TypeOK
<1>2. /\ [start[i] EXCEPT !.pc = p] \in StartRec
      /\ [start[i] EXCEPT !.pc = p, !.hooked = b] \in StartRec
  BY <1>1 DEF StartRec
<1>3. /\ [start EXCEPT ![i].pc = p] = [start EXCEPT ![i] = [start[i] EXCEPT !.pc = p]]
      /\ [start EXCEPT ![i].pc = p, ![i].hooked = b]
            = [start EXCEPT ![i] = [start[i] EXCEPT !.pc = p, !.hooked = b]]
  BY <1>1
<1> QED
  BY <1>1, <1>2, <1>3

LEMMA CallChanges ==
  ASSUME TypeOK, NEW r \in Restarts, NEW p \in CallStates, NEW o \in 0..MaxStarts,
         NEW j \in 0..MaxRestarts, NEW e \in Effects
  PROVE  /\ [restartCall[r] EXCEPT !.pc = p, !.on = o, !.joined = j, !.effect = e]
              \in RestartRec
         /\ [restartCall[r] EXCEPT !.pc = p, !.on = o, !.joined = j] \in RestartRec
         /\ [restartCall[r] EXCEPT !.pc = p, !.on = o] \in RestartRec
         /\ [restartCall[r] EXCEPT !.pc = p, !.joined = j] \in RestartRec
         /\ [restartCall[r] EXCEPT !.pc = p] \in RestartRec
<1>1. restartCall[r] \in RestartRec
  BY DEF TypeOK
<1> QED
  BY <1>1 DEF RestartRec

LEMMA CallsChange ==
  ASSUME TypeOK, NEW r \in Restarts, NEW p \in CallStates, NEW o \in 0..MaxStarts,
         NEW j \in 0..MaxRestarts
  PROVE  /\ [restartCall EXCEPT ![r].pc = p, ![r].on = o, ![r].joined = j]
              \in [Restarts -> RestartRec]
         /\ [restartCall EXCEPT ![r].pc = p, ![r].on = o] \in [Restarts -> RestartRec]
         /\ [restartCall EXCEPT ![r].pc = p] \in [Restarts -> RestartRec]
<1>1. restartCall \in [Restarts -> RestartRec]
  BY DEF TypeOK
<1>2. "none" \in Effects
  BY DEF Effects
<1>3. /\ [restartCall[r] EXCEPT !.pc = p, !.on = o, !.joined = j] \in RestartRec
      /\ [restartCall[r] EXCEPT !.pc = p, !.on = o] \in RestartRec
      /\ [restartCall[r] EXCEPT !.pc = p] \in RestartRec
  BY <1>2, CallChanges
<1>4. /\ [restartCall EXCEPT ![r].pc = p, ![r].on = o, ![r].joined = j]
           = [restartCall EXCEPT ![r] =
                 [restartCall[r] EXCEPT !.pc = p, !.on = o, !.joined = j]]
      /\ [restartCall EXCEPT ![r].pc = p, ![r].on = o]
           = [restartCall EXCEPT ![r] = [restartCall[r] EXCEPT !.pc = p, !.on = o]]
      /\ [restartCall EXCEPT ![r].pc = p]
           = [restartCall EXCEPT ![r] = [restartCall[r] EXCEPT !.pc = p]]
  BY <1>1
<1> QED
  BY <1>1, <1>3, <1>4

LEMMA InitTyped == Init => TypeOK
<1> SUFFICES ASSUME Init PROVE TypeOK
  OBVIOUS
<1>1. [pc |-> "none", token |-> None, hooked |-> FALSE] \in StartRec
  BY Values DEF StartRec
<1>2. [pc |-> "idle", on |-> None, joined |-> None, effect |-> "none"] \in RestartRec
  BY Values DEF RestartRec
<1>3. [pc |-> "no", on |-> None] \in DisposalRec
  BY DEF DisposalRec
<1>4. start \in [Starts -> StartRec]
  BY <1>1 DEF Init
<1>5. restartCall \in [Restarts -> RestartRec]
  BY <1>2 DEF Init
<1>6. sessionObject \in [Starts -> SessionStates]
  BY Values DEF Init
<1>7. /\ nStarts \in 0..MaxStarts /\ sessionPromise \in 0..nStarts
      /\ activeSession \in 0..MaxStarts /\ startCancellation \in 0..nStarts
      /\ cancelled \subseteq 0..nStarts /\ restartPromise \in 0..MaxRestarts
  BY DEF Init
<1>8. ignoring \in BOOLEAN /\ disposal \in DisposalRec
  BY <1>3 DEF Init
<1> QED
  BY <1>4, <1>5, <1>6, <1>7, <1>8, Zenon DEF TypeOK

LEMMA CreateSessionTyped ==
  ASSUME TypeOK, NEW C \in SUBSET (0..nStarts), CreateSession(C)
  PROVE  /\ nStarts' \in 0..MaxStarts /\ nStarts <= nStarts' /\ nStarts + 1 \in Starts
         /\ sessionPromise' \in 0..nStarts'
         /\ startCancellation' \in 0..nStarts'
         /\ cancelled' \subseteq 0..nStarts'
         /\ start' \in [Starts -> StartRec]
<1>1. /\ nStarts' = nStarts + 1 /\ nStarts + 1 \in Starts
      /\ sessionPromise' = nStarts + 1 /\ startCancellation' \in 0..(nStarts + 1)
      /\ cancelled' \subseteq 0..(nStarts + 1)
  BY DEF TypeOK, CreateSession
<1>2. [pc |-> "creating", token |-> startCancellation', hooked |-> FALSE] \in StartRec
  BY <1>1, Values DEF StartRec, TypeOK
<1> QED
  BY <1>1, <1>2 DEF TypeOK, CreateSession

LEMMA StartFailsTyped ==
  ASSUME TypeOK, NEW i \in Starts, StartFails(i)
  PROVE  /\ nStarts' = nStarts
         /\ sessionPromise' \in 0..nStarts
         /\ startCancellation' \in 0..nStarts
         /\ cancelled' \subseteq 0..nStarts
         /\ start' \in [Starts -> StartRec]
<1>1. start' \in [Starts -> StartRec]
  BY Values, StartChanges DEF StartFails
<1> QED
  BY <1>1 DEF TypeOK, StartFails

LEMMA InitializeTyped ==
  ASSUME TypeOK, NEW r \in Restarts, NEW e \in Effects
  PROVE  Initialize(r, e) \in RestartRec
<1> DEFINE p == IF activeSession = None THEN "done" ELSE "initializing"
<1>1. p \in CallStates
  BY Values
<1>2. None \in 0..MaxStarts /\ None \in 0..MaxRestarts
  OBVIOUS
<1>3. [restartCall[r] EXCEPT !.pc = p, !.on = None, !.joined = None, !.effect = e]
        \in RestartRec
  <2> HIDE DEF p
  <2> QED BY <1>1, <1>2, CallChanges
<1> QED
  BY <1>3 DEF Initialize

LEMMA CloseSessionTyped ==
  ASSUME TypeOK, NEW s, CloseSession(s)
  PROVE  sessionObject' \in [Starts -> SessionStates]
  BY Values DEF TypeOK, CloseSession

LEMMA StepTyped == TypeOK /\ [Next]_vars => TypeOK'
<1> SUFFICES ASSUME TypeOK, [Next]_vars PROVE TypeOK'
    OBVIOUS
<1>0. None \in 0..MaxStarts /\ None \in 0..MaxRestarts /\ nStarts \in 0..MaxStarts
  BY DEF TypeOK
<1>1. CASE Start
  BY <1>1, CreateSessionTyped DEF Start, TypeOK
<1>2. CASE Interrupt
  BY <1>2 DEF Interrupt, TypeOK
<1>3. CASE Dispose
  <2>1. sessionObject' \in [Starts -> SessionStates]
    BY <1>3, CloseSessionTyped DEF Dispose, TypeOK
  <2>2. disposal' \in DisposalRec
    BY <1>3 DEF Dispose, TypeOK, DisposalRec
  <2> QED BY <1>3, <2>1, <2>2 DEF Dispose, TypeOK
<1>4. CASE DisposeStartSettled
  <2>1. sessionObject' \in [Starts -> SessionStates]
    BY <1>4, CloseSessionTyped DEF DisposeStartSettled, TypeOK
  <2>2. disposal' \in DisposalRec
    BY <1>4 DEF DisposeStartSettled, TypeOK, DisposalRec
  <2> QED BY <1>4, <2>1, <2>2 DEF DisposeStartSettled, TypeOK, startVars
<1>5. ASSUME NEW i \in Starts, StartStep(i) PROVE TypeOK'
  <2>1. CASE CreateReturns(i)
    <3>1. start' \in [Starts -> StartRec]
      BY <2>1, Values, StartChanges DEF CreateReturns
    <3> QED BY <2>1, <3>1, Values DEF CreateReturns, TypeOK
  <2>2. CASE CreateRejects(i)
    BY <2>2, StartFailsTyped DEF CreateRejects, TypeOK
  <2>3. CASE InitializeReturns(i)
    <3>1. start' \in [Starts -> StartRec]
      BY <2>3, Values, StartChanges DEF InitializeReturns
    <3> QED BY <2>3, <3>1 DEF InitializeReturns, TypeOK
  <2>4. CASE InitializeThrows(i)
    BY <2>4, StartFailsTyped DEF InitializeThrows, TypeOK
  <2>5. CASE ClosedByOthers(i)
    BY <2>5, CloseSessionTyped DEF ClosedByOthers, TypeOK, startVars
  <2>6. CASE SessionDisposed(i)
    BY <2>6, Values DEF SessionDisposed, TypeOK, startVars
  <2> QED BY <1>5, <2>1, <2>2, <2>3, <2>4, <2>5, <2>6 DEF StartStep
<1>6. ASSUME NEW r \in Restarts, Restart(r) PROVE TypeOK'
  <2> DEFINE C == cancelled \cup {startCancellation}
  <2>1. C \in SUBSET (0..nStarts)
    BY DEF TypeOK
  <2>a. /\ "awaitSession" \in CallStates /\ "awaitStart" \in CallStates
        /\ None \in 0..MaxRestarts
    BY Values
  <2>2. CASE sessionPromise # None
    <3>1. sessionPromise \in 0..MaxStarts
      BY DEF TypeOK
    <3>2. restartCall' \in [Restarts -> RestartRec]
      <4>1. restartCall' = [restartCall EXCEPT ![r].pc = "awaitSession",
                                               ![r].on = sessionPromise]
        BY <1>6, <2>2 DEF Restart
      <4> QED BY <3>1, <4>1, <2>a, CallsChange
    <3> QED BY <1>6, <2>1, <2>2, <3>2 DEF Restart, TypeOK
  <2>3. CASE sessionPromise = None
    <3>1. CreateSession(C)
      BY <1>6, <2>3 DEF Restart
    <3>2. nStarts + 1 \in 0..MaxStarts
      BY <2>1, <3>1, CreateSessionTyped
    <3>3. restartCall' \in [Restarts -> RestartRec]
      <4>1. restartCall' = [restartCall EXCEPT ![r].pc = "awaitStart",
                                               ![r].on = nStarts + 1]
        BY <1>6, <2>3 DEF Restart
      <4> QED BY <3>2, <4>1, <2>a, CallsChange
    <3> QED BY <1>6, <2>1, <3>1, <3>3, CreateSessionTyped DEF Restart, TypeOK
  <2> QED BY <2>2, <2>3
<1>7. ASSUME NEW r \in Restarts, RestartSessionSettled(r) PROVE TypeOK'
  <2>1. CASE start[restartCall[r].on].pc = "failed"
    <3>1. restartCall' = [restartCall EXCEPT ![r] = Initialize(r, "none")] /\ restartPromise' = None
      BY <1>7, <2>1 DEF RestartSessionSettled
    <3>2. Initialize(r, "none") \in RestartRec
      BY Values, InitializeTyped
    <3> QED BY <1>7, <3>1, <3>2 DEF RestartSessionSettled, TypeOK, startVars
  <2>2. CASE start[restartCall[r].on].pc # "failed"
    <3>1. restartPromise' \in 0..MaxRestarts
      BY <1>7, <2>2 DEF RestartSessionSettled, TypeOK
    <3>2. restartCall' \in [Restarts -> RestartRec]
      <4>1. restartCall' = [restartCall EXCEPT ![r].pc = "awaitRestart", ![r].on = None,
                                               ![r].joined = restartPromise']
        BY <1>7, <2>2 DEF RestartSessionSettled
      <4>2. "awaitRestart" \in CallStates
        BY Values
      <4> QED BY <1>0, <3>1, <4>1, <4>2, CallsChange
    <3> QED BY <1>7, <3>1, <3>2 DEF RestartSessionSettled, TypeOK, startVars
  <2> QED BY <2>1, <2>2
<1>8. ASSUME NEW r \in Restarts, RestartStartSettled(r) PROVE TypeOK'
  <2>1. Initialize(r, "started") \in RestartRec
    BY Values, InitializeTyped
  <2>2. [restartCall[r] EXCEPT !.pc = "failing", !.on = None] \in RestartRec
    BY <1>0, Values, CallChanges
  <2> QED BY <1>8, <2>1, <2>2 DEF RestartStartSettled, TypeOK, startVars
<1>9. ASSUME NEW r \in Restarts, RestartSucceeds(r) PROVE TypeOK'
  <2>1. \A t \in Restarts : Initialize(t, "restarted") \in RestartRec
    BY Values, InitializeTyped
  <2> QED BY <1>9, <2>1 DEF RestartSucceeds, TypeOK, startVars
<1>10. ASSUME NEW r \in Restarts, RestartThrows(r) PROVE TypeOK'
  <2>1. \A t \in Restarts :
           [restartCall[t] EXCEPT !.pc = "failing", !.joined = None] \in RestartRec
    BY <1>0, Values, CallChanges
  <2>2. restartCall' \in [Restarts -> RestartRec]
    BY <1>10, <2>1 DEF RestartThrows, TypeOK
  <2> QED BY <1>0, <1>10, <2>2 DEF RestartThrows, TypeOK, startVars
<1>11. ASSUME NEW r \in Restarts, KillSession(r) PROVE TypeOK'
  <2>1. sessionObject' \in [Starts -> SessionStates]
    BY <1>11, CloseSessionTyped DEF KillSession
  <2>2. restartCall' \in [Restarts -> RestartRec]
    <3>1. activeSession \in 0..MaxStarts
      BY DEF TypeOK
    <3>2. restartCall' = [restartCall EXCEPT ![r].pc = "killing", ![r].on = activeSession]
      BY <1>11 DEF KillSession
    <3>3. "killing" \in CallStates
      BY Values
    <3> QED BY <1>0, <3>1, <3>2, <3>3, CallsChange
  <2> QED BY <1>11, <2>1, <2>2 DEF KillSession, TypeOK, startVars
<1>12. ASSUME NEW r \in Restarts, SessionKilled(r) PROVE TypeOK'
  <2>1. restartCall' \in [Restarts -> RestartRec]
    BY <1>12, <1>0, Values, CallsChange DEF SessionKilled
  <2> QED BY <1>12, <2>1 DEF SessionKilled, TypeOK, startVars
<1>13. ASSUME NEW r \in Restarts, RestartInitialized(r) \/ RestartNotInitialized(r)
       PROVE  TypeOK'
  <2>1. restartCall' \in [Restarts -> RestartRec]
    <3>1. PICK p \in {"done", "failed"} : restartCall' = [restartCall EXCEPT ![r].pc = p]
      BY <1>13 DEF RestartInitialized, RestartNotInitialized
    <3>2. p \in CallStates
      BY Values
    <3> QED BY <1>0, <3>1, <3>2, CallsChange
  <2> QED BY <1>13, <2>1 DEF RestartInitialized, RestartNotInitialized, TypeOK, startVars
<1>14. CASE UNCHANGED vars
  BY <1>14 DEF vars, startVars, TypeOK
<1> QED
  BY <1>1, <1>2, <1>3, <1>4, <1>5, <1>6, <1>7, <1>8, <1>9, <1>10, <1>11, <1>12, <1>13,
     <1>14, NextIsOneOf

(* Every reachable state is well typed: no promise and no cancellation     *)
(* source belongs to a start that was not made.                            *)
THEOREM TypeCorrect == Spec => []TypeOK
  BY InitTyped, StepTyped, PTL DEF Spec

-----------------------------------------------------------------------------
(* A restart that kills a session makes the kernel deaf; only its end, not *)
(* another call, stops being the reason.                                   *)
LEMMA StepDeaf ==
  TypeOK /\ DeafOnlyWhileKilling /\ [Next]_vars => DeafOnlyWhileKilling'
<1> SUFFICES ASSUME TypeOK, DeafOnlyWhileKilling, [Next]_vars PROVE DeafOnlyWhileKilling'
    OBVIOUS
<1>1. CASE Start \/ Interrupt
  BY <1>1 DEF Start, Interrupt, DeafOnlyWhileKilling
<1>1a. CASE Dispose \/ DisposeStartSettled
  <2>1. disposal'.pc # "no"
    BY <1>1a DEF Dispose, DisposeStartSettled
  <2> QED BY <2>1 DEF DeafOnlyWhileKilling
<1>2. ASSUME NEW i \in Starts, StartStep(i) PROVE DeafOnlyWhileKilling'
  BY <1>2 DEF StartStep, CreateReturns, CreateRejects, InitializeReturns, InitializeThrows,
              ClosedByOthers, SessionDisposed, DeafOnlyWhileKilling
<1>3. ASSUME NEW r \in Restarts, Restart(r) \/ RestartSessionSettled(r)
             \/ RestartStartSettled(r) \/ RestartInitialized(r) \/ RestartNotInitialized(r)
      PROVE  DeafOnlyWhileKilling'
  <2>1. restartCall[r].pc # "killing"
    BY <1>3 DEF Restart, RestartSessionSettled, RestartStartSettled, RestartInitialized,
                RestartNotInitialized
  <2>2. \A t \in Restarts : t # r => restartCall'[t] = restartCall[t]
    BY <1>3 DEF Restart, RestartSessionSettled, RestartStartSettled, RestartInitialized,
                RestartNotInitialized, TypeOK
  <2>3. UNCHANGED <<ignoring, disposal>>
    BY <1>3 DEF Restart, RestartSessionSettled, RestartStartSettled, RestartInitialized,
                RestartNotInitialized
  <2> QED BY <2>1, <2>2, <2>3 DEF DeafOnlyWhileKilling
<1>4. ASSUME NEW r \in Restarts, RestartSucceeds(r) \/ RestartThrows(r)
      PROVE  DeafOnlyWhileKilling'
  <2>1. \A t \in Restarts : restartCall[t].pc = "killing" => restartCall'[t] = restartCall[t]
    BY <1>4 DEF RestartSucceeds, RestartThrows, Joined
  <2> QED BY <1>4, <2>1 DEF RestartSucceeds, RestartThrows, DeafOnlyWhileKilling
<1>5. ASSUME NEW r \in Restarts, KillSession(r) PROVE DeafOnlyWhileKilling'
  <2>1. restartCall'[r].pc = "killing"
    BY <1>5 DEF KillSession, TypeOK, RestartRec
  <2> QED BY <2>1 DEF DeafOnlyWhileKilling
<1>6. ASSUME NEW r \in Restarts, SessionKilled(r) PROVE DeafOnlyWhileKilling'
  BY <1>6 DEF SessionKilled, DeafOnlyWhileKilling
<1>7. CASE UNCHANGED vars
  BY <1>7 DEF vars, DeafOnlyWhileKilling
<1> QED
  BY <1>1, <1>1a, <1>2, <1>3, <1>4, <1>5, <1>6, <1>7, NextIsOneOf

(* For any number of starts and restarts the kernel ignores the end of its *)
(* sessions only while a failed restart kills one or once it is disposed.  *)
THEOREM DeafnessEnds == Spec => []DeafOnlyWhileKilling
<1>1. Init => DeafOnlyWhileKilling
  BY DEF Init, DeafOnlyWhileKilling
<1> QED
  BY <1>1, StepDeaf, TypeCorrect, PTL DEF Spec

-----------------------------------------------------------------------------
(* A source is replaced only when it was cancelled, and with it every      *)
(* start that watches it.                                                  *)
LEMMA CreateSessionKeepsCancel ==
  ASSUME TypeOK, CancelReachesStarts, NEW C, cancelled \subseteq C, CreateSession(C)
  PROVE  CancelReachesStarts'
  BY DEF TypeOK, CancelReachesStarts, CreateSession, StartRec

LEMMA StepCancel ==
  TypeOK /\ CancelReachesStarts /\ [Next]_vars => CancelReachesStarts'
<1> SUFFICES ASSUME TypeOK, CancelReachesStarts, [Next]_vars PROVE CancelReachesStarts'
    OBVIOUS
<1>1. CASE Start
  BY <1>1, CreateSessionKeepsCancel DEF Start
<1>2. CASE Interrupt \/ Dispose \/ DisposeStartSettled
  BY <1>2 DEF Interrupt, Dispose, DisposeStartSettled, startVars, CancelReachesStarts
<1>3. ASSUME NEW i \in Starts, StartStep(i) PROVE CancelReachesStarts'
  BY <1>3 DEF StartStep, CreateReturns, CreateRejects, InitializeReturns, InitializeThrows,
              StartFails, ClosedByOthers, SessionDisposed, startVars, CancelReachesStarts,
              TypeOK, StartRec
<1>4. ASSUME NEW r \in Restarts, Restart(r) PROVE CancelReachesStarts'
  <2>1. CASE sessionPromise # None
    BY <1>4, <2>1 DEF Restart, CancelReachesStarts
  <2>2. CASE sessionPromise = None
    <3> DEFINE C == cancelled \cup {startCancellation}
    <3>1. CreateSession(C)
      BY <1>4, <2>2 DEF Restart
    <3>2. cancelled \subseteq C
      OBVIOUS
    <3> QED BY <3>1, <3>2, CreateSessionKeepsCancel
  <2> QED BY <2>1, <2>2
<1>5. ASSUME NEW r \in Restarts,
             \/ RestartSessionSettled(r) \/ RestartStartSettled(r) \/ RestartSucceeds(r)
             \/ RestartThrows(r) \/ KillSession(r) \/ SessionKilled(r)
             \/ RestartInitialized(r) \/ RestartNotInitialized(r)
      PROVE  CancelReachesStarts'
  BY <1>5 DEF RestartSessionSettled, RestartStartSettled, RestartSucceeds, RestartThrows,
              KillSession, SessionKilled, RestartInitialized, RestartNotInitialized,
              startVars, CancelReachesStarts
<1>6. CASE UNCHANGED vars
  BY <1>6 DEF vars, startVars, CancelReachesStarts
<1> QED
  BY <1>1, <1>2, <1>3, <1>4, <1>5, <1>6, NextIsOneOf

(* For any number of starts and restarts a cancellation reaches every      *)
(* start that creates a session.                                           *)
THEOREM CancellationReaches == Spec => []CancelReachesStarts
<1>1. Init => CancelReachesStarts
  BY DEF Init, CancelReachesStarts
<1> QED
  BY <1>1, StepCancel, TypeCorrect, PTL DEF Spec

-----------------------------------------------------------------------------
(* A restart in flight is awaited by the call that made it, so the calls   *)
(* that join it leave together with it.                                    *)
LEMMA StepAwait ==
  TypeOK /\ RestartsAwaitLiveOnes /\ [Next]_vars => RestartsAwaitLiveOnes'
<1> SUFFICES ASSUME TypeOK, RestartsAwaitLiveOnes, [Next]_vars PROVE RestartsAwaitLiveOnes'
    OBVIOUS
<1>0. /\ \A t \in Restarts : restartCall[t].joined \in 0..MaxRestarts
      /\ restartPromise \in 0..MaxRestarts
  BY DEF TypeOK, RestartRec
<1>1. CASE Start \/ Interrupt \/ Dispose \/ DisposeStartSettled
  BY <1>1 DEF Start, Interrupt, Dispose, DisposeStartSettled, RestartsAwaitLiveOnes,
              RestartInFlight
<1>2. ASSUME NEW i \in Starts, StartStep(i) PROVE RestartsAwaitLiveOnes'
  BY <1>2 DEF StartStep, CreateReturns, CreateRejects, InitializeReturns, InitializeThrows,
              ClosedByOthers, SessionDisposed, RestartsAwaitLiveOnes, RestartInFlight
(* Calls that neither await a restart before the step nor after it.        *)
<1>3. ASSUME NEW r \in Restarts, Restart(r) \/ RestartStartSettled(r) \/ KillSession(r)
             \/ SessionKilled(r) \/ RestartInitialized(r) \/ RestartNotInitialized(r)
      PROVE  RestartsAwaitLiveOnes'
  <2>0. restartCall \in [Restarts -> RestartRec] /\ restartCall[r] \in RestartRec
    BY DEF TypeOK
  <2>1. restartCall[r].pc # "awaitRestart" /\ restartCall'[r].pc # "awaitRestart"
    <3>1. CASE Restart(r)
      BY <2>0, <3>1 DEF Restart, RestartRec
    <3>2. CASE RestartStartSettled(r)
      BY <2>0, <3>2 DEF RestartStartSettled, Initialize, RestartRec
    <3>3. CASE KillSession(r) \/ SessionKilled(r)
      BY <2>0, <3>3 DEF KillSession, SessionKilled, RestartRec
    <3>4. CASE RestartInitialized(r) \/ RestartNotInitialized(r)
      BY <2>0, <3>4 DEF RestartInitialized, RestartNotInitialized, RestartRec
    <3> QED BY <1>3, <3>1, <3>2, <3>3, <3>4
  <2>2. \A t \in Restarts : t # r => restartCall'[t] = restartCall[t]
    BY <1>3 DEF Restart, RestartStartSettled, KillSession, SessionKilled,
                RestartInitialized, RestartNotInitialized, TypeOK
  <2>3. restartPromise' = restartPromise
    BY <1>3 DEF Restart, RestartStartSettled, KillSession, SessionKilled,
                RestartInitialized, RestartNotInitialized
  <2> QED BY <1>0, <2>1, <2>2, <2>3 DEF RestartsAwaitLiveOnes, RestartInFlight
<1>4. ASSUME NEW r \in Restarts, RestartSessionSettled(r) PROVE RestartsAwaitLiveOnes'
  <2>1. \A t \in Restarts : t # r => restartCall'[t] = restartCall[t]
    BY <1>4 DEF RestartSessionSettled, TypeOK
  <2>2. restartCall[r].pc = "awaitSession"
    BY <1>4 DEF RestartSessionSettled
  <2>3. CASE start[restartCall[r].on].pc = "failed"
    <3>1. restartPromise' = None /\ restartCall'[r].pc # "awaitRestart"
      BY <1>4, <2>3 DEF RestartSessionSettled, Initialize, TypeOK, RestartRec
    <3> QED BY <1>0, <2>1, <2>2, <3>1 DEF RestartsAwaitLiveOnes, RestartInFlight
  <2>4. CASE start[restartCall[r].on].pc # "failed"
    <3>1. /\ restartCall'[r].pc = "awaitRestart"
          /\ restartCall'[r].joined = restartPromise'
          /\ restartPromise' = IF restartPromise = None THEN r ELSE restartPromise
      BY <1>4, <2>4 DEF RestartSessionSettled, TypeOK, RestartRec
    <3> QED BY <1>0, <2>1, <2>2, <3>1 DEF RestartsAwaitLiveOnes, RestartInFlight
  <2> QED BY <2>3, <2>4
<1>5. ASSUME NEW r \in Restarts, RestartSucceeds(r) \/ RestartThrows(r)
      PROVE  RestartsAwaitLiveOnes'
  <2>1. restartPromise' = None
    BY <1>5 DEF RestartSucceeds, RestartThrows
  <2>2. \A t \in Restarts : IF Joined(t, r) THEN restartCall'[t].pc # "awaitRestart"
                            ELSE restartCall'[t] = restartCall[t]
    BY <1>5 DEF RestartSucceeds, RestartThrows, Initialize, TypeOK, RestartRec
  <2> QED BY <1>0, <2>1, <2>2 DEF RestartsAwaitLiveOnes, RestartInFlight, Joined
<1>6. CASE UNCHANGED vars
  BY <1>6 DEF vars, RestartsAwaitLiveOnes, RestartInFlight
<1> QED
  BY <1>1, <1>2, <1>3, <1>4, <1>5, <1>6, NextIsOneOf

(* For any number of overlapping calls nobody awaits a restart that has    *)
(* already come to its end.                                                *)
THEOREM RestartsAreAwaited == Spec => []RestartsAwaitLiveOnes
<1>1. Init => RestartsAwaitLiveOnes
  BY DEF Init, RestartsAwaitLiveOnes
<1> QED
  BY <1>1, StepAwait, TypeCorrect, PTL DEF Spec

-----------------------------------------------------------------------------
(***************************************************************************)
(* The dispatcher of widget messages, which follows the sessions that a    *)
(* kernel starts and restarts.                                             *)
(***************************************************************************)

-----------------------------------------------------------------------------
(* How many sessions and sockets there are, which of them the dispatcher   *)
(* has subscribed to, and that every session is to be announced or was.    *)
SocketsInv ==
    /\ session <= sessions /\ subscribed <= sessions
    /\ socket <= sockets /\ listened <= sockets
    /\ session # 0 => socket # 0
    /\ subscribed = 0 <=> listened = 0
    /\ session = 0 <=> announced = "none"

(* Messages and requests come in the order of their numbers, and behind    *)
(* one that holds its chain up nothing has reached its hook.               *)
ChainsInv ==
    /\ \A i, j \in Items : i < j /\ item[i].pc = "unused" => item[j].pc = "unused"
    /\ \A i, j \in Items : i < j /\ SameChain(i, j) /\ Busy(item[i].pc)
                             => item[j].pc \in {"unused", "queued"}

(* Where one item can be.  An update whose hook waits is the one that      *)
(* fullHandleMessage names, and it is nowhere else than its state says.    *)
ItemInv(i) ==
    /\ item[i].pc # "unused" => item[i].socket # 0 /\ item[i].socket <= sockets
    /\ item[i].pc \in {"unused", "queued"}
       => ~item[i].full /\ i \notin Elements(posted) /\ i \notin unhandled
    /\ listened = 0 => ~item[i].full
    /\ item[i].pc = "posted" => item[i].socket = listened /\ i \notin unhandled
    /\ item[i].pc = "posted" /\ item[i].kind # "execute" => item[i].full /\ fullHandle = i
    /\ item[i].pc = "handling" => item[i].on = i
    /\ item[i].pc # "threw"
    /\ item[i].full /\ item[i].socket = listened
       => /\ i \in Elements(posted) => item[i].pc = "posted"
          /\ i \in unhandled => item[i].pc = "handling"

ItemsInv == \A i \in Items : ItemInv(i)

(* The webview is handed an item once.                                     *)
HandedOnce ==
    \A m, n \in DOMAIN posted : posted[m] = posted[n] /\ posted[m] # RestartMark => m = n

(* A session that restarted knows the registered targets.                  *)
TargetsInv == announced = "restarted" => registered \ {Default} \subseteq kernelTargets

DispatcherInv == /\ WidgetsTypeOK /\ SocketsInv /\ ChainsInv
                 /\ ItemsInv /\ HandedOnce /\ TargetsInv

-----------------------------------------------------------------------------
(* Helpers on sequences and targets.                                       *)

(* A nonempty set of numbers has a least one.                              *)
LEMMA LeastNumber ==
  ASSUME NEW T \in SUBSET Nat, T # {}
  PROVE  \E n \in T : \A m \in T : n <= m
<1> DEFINE R == OpToRel(<, Nat)
<1>1. IsWellFoundedOn(R, Nat)
  BY NatLessThanWellFounded
<1>2. \A x, y \in Nat : y < x => <<y, x>> \in R
  BY DEF OpToRel
<1> HIDE DEF R
<1>3. \E x \in T : \A y \in T : <<y, x>> \notin R
  BY <1>1, WFMin
<1>4. PICK n \in T : \A y \in T : <<y, n>> \notin R
  BY <1>3
<1>5. ASSUME NEW m \in T PROVE n <= m
  <2>1. ~ (m < n)
    BY <1>2, <1>4
  <2>2. m \in Nat /\ n \in Nat
    OBVIOUS
  <2> QED BY <2>1, <2>2
<1> QED BY <1>5

(* registerCommTargets() takes a prefix of the pending names, which it     *)
(* moves to the registered ones and those of the connection.               *)
LEMMA RegisterFacts ==
  ASSUME NEW p \in Seq(Targets), NEW reg \in SUBSET Targets,
         NEW had \in SUBSET Targets, NEW s,
         RegisterCommTargets(p, reg, s, had)
  PROVE  /\ pendingTargets' \in Seq(Targets)
         /\ registered' \subseteq Targets /\ kernelTargets' \subseteq Targets
         /\ s # 0 /\ reg \ {Default} \subseteq had
            => registered' \ {Default} \subseteq kernelTargets'
<1> DEFINE Ends(n) == /\ \A m \in 1..n : p[m] \notin reg
                      /\ n < Len(p) => p[n + 1] \in reg
           k == CHOOSE n \in 0..Len(p) : Ends(n)
           T == {n \in 0..Len(p) : n < Len(p) => p[n + 1] \in reg}
<1>1. \E n \in 0..Len(p) : Ends(n)
  <2>1. T \in SUBSET Nat /\ Len(p) \in T
    OBVIOUS
  <2>2. PICK n \in T : \A m \in T : n <= m
    BY <2>1, LeastNumber
  <2>3. ASSUME NEW m \in 1..n PROVE p[m] \notin reg
    <3>1. m - 1 \in 0..Len(p) /\ m - 1 < n /\ (m - 1) + 1 = m
      BY <2>3, <2>2
    <3>2. m - 1 \notin T
      <4>1. n \in Nat
        OBVIOUS
      <4> HIDE DEF T
      <4> QED BY <3>1, <2>2, <4>1
    <3> QED BY <3>1, <3>2
  <2> QED BY <2>2, <2>3
<1>2. k \in 0..Len(p) /\ Unregistered(p, reg) = SubSeq(p, 1, k)
  BY <1>1 DEF Unregistered
<1> HIDE DEF k
<1>3. /\ Unregistered(p, reg) \in Seq(Targets)
      /\ Len(Unregistered(p, reg)) = k
  BY <1>2
<1>4. Elements(Unregistered(p, reg)) \subseteq Targets
  BY <1>3 DEF Elements
<1>5. /\ pendingTargets' = SubSeq(p, k + 1, Len(p))
      /\ registered' = reg \cup Elements(Unregistered(p, reg))
      /\ kernelTargets' = IF s = 0 THEN had
                          ELSE had \cup (Elements(Unregistered(p, reg)) \ {Default})
  BY <1>3 DEF RegisterCommTargets
<1> QED BY <1>2, <1>4, <1>5

(* Adding a name keeps the pending names a sequence of targets.            *)
LEMMA AddedFacts ==
  ASSUME NEW s \in Seq(Targets), NEW t \in Targets
  PROVE  Added(s, t) \in Seq(Targets)
  BY DEF Added

LEMMA TargetNames == Default \in Targets /\ "own.target" \in Targets
  BY DEF Targets

(* The dispatcher subscribes to the first session of the kernel it sees.   *)
LEMMA SubscribeFacts ==
  ASSUME WidgetsTypeOK, SocketsInv, NEW s \in {0, session}, NEW p \in Seq(Targets),
         NEW reg \in SUBSET Targets, SubscribeAndRegister(s, p, reg)
  PROVE  /\ subscribed' \in {subscribed, session} /\ listened' \in {listened, socket}
         /\ listened' = listened \/ listened = 0
         /\ subscribed' = 0 <=> listened' = 0
         /\ pendingTargets' \in Seq(Targets)
         /\ registered' \subseteq Targets /\ kernelTargets' \subseteq Targets
         /\ s # 0 /\ reg \ {Default} \subseteq kernelTargets
            => registered' \ {Default} \subseteq kernelTargets'
<1>1. kernelTargets \in SUBSET Targets
  BY DEF WidgetsTypeOK
<1>2. /\ subscribed' = IF subscribed = 0 /\ s # 0 THEN s ELSE subscribed
      /\ listened' = IF subscribed = 0 /\ s # 0 THEN socket ELSE listened
      /\ RegisterCommTargets(p, reg, s, kernelTargets)
  BY DEF SubscribeAndRegister
<1>3. /\ pendingTargets' \in Seq(Targets)
      /\ registered' \subseteq Targets /\ kernelTargets' \subseteq Targets
      /\ s # 0 /\ reg \ {Default} \subseteq kernelTargets
         => registered' \ {Default} \subseteq kernelTargets'
  BY <1>1, <1>2, RegisterFacts
<1> QED BY <1>2, <1>3 DEF SocketsInv

(* initialize() does the same, once there is a kernel.                     *)
LEMMA InitializeFacts ==
  ASSUME WidgetsTypeOK, SocketsInv, NEW s \in {0, session}, NEW p \in Seq(Targets),
         InitializeDispatcher(s, p)
  PROVE  /\ subscribed' \in {subscribed, session} /\ listened' \in {listened, socket}
         /\ listened' = listened \/ listened = 0
         /\ subscribed' = 0 <=> listened' = 0
         /\ pendingTargets' \in Seq(Targets)
         /\ registered' \subseteq Targets /\ kernelTargets' \subseteq Targets
         /\ s # 0 /\ registered \ {Default} \subseteq kernelTargets
            => registered' \ {Default} \subseteq kernelTargets'
<1>1. registered \in SUBSET Targets /\ kernelTargets \in SUBSET Targets
  BY DEF WidgetsTypeOK
<1>2. CASE kernel
  <2>1. SubscribeAndRegister(s, p, registered)
    BY <1>2 DEF InitializeDispatcher
  <2> QED BY <1>1, <2>1, SubscribeFacts
<1>3. CASE ~kernel
  <2>1. pendingTargets' = p /\ UNCHANGED <<subscribed, listened, registered, kernelTargets>>
    BY <1>3 DEF InitializeDispatcher
  <2> QED BY <1>1, <2>1 DEF SocketsInv
<1> QED BY <1>2, <1>3

(* What onKernelSocketResponse() does to the record of an item.            *)
LEMMA AnsweredFacts ==
  ASSUME NEW r \in Item, NEW h \in 0..MaxItems
  PROVE  /\ Answered(r, h) \in Item
         /\ Answered(r, h).kind = r.kind
         /\ Answered(r, h).socket = r.socket
         /\ Answered(r, h).full <=> r.full
         /\ r.kind = "execute" => Answered(r, h).pc = "passed"
         /\ r.kind # "execute" /\ h # 0
            => Answered(r, h).pc = "handling" /\ Answered(r, h).on = h
<1> DEFINE q == IF r.kind = "execute" THEN "passed"
                ELSE IF h # 0 THEN "handling" ELSE "threw"
           o == IF r.kind = "execute" THEN 0 ELSE h
<1>1. Answered(r, h) = [r EXCEPT !.pc = q, !.on = o]
  BY DEF Answered
<1>2. q \in {"unused", "queued", "posted", "handling", "passed", "threw"} /\ o \in 0..MaxItems
  BY WidgetBounds
<1>3. /\ r.kind = "execute" => q = "passed"
      /\ r.kind # "execute" /\ h # 0 => q = "handling" /\ o = h
  OBVIOUS
<1> HIDE DEF q, o
<1>4. [r EXCEPT !.pc = q, !.on = o] \in Item
  BY <1>2 DEF Item
<1> QED BY <1>1, <1>3, <1>4 DEF Item

-----------------------------------------------------------------------------
(* Steps that leave the items alone keep what holds of them, when the      *)
(* dispatcher listens as before or begins to.                              *)
LEMMA ItemsKept ==
  ASSUME DispatcherInv, SocketsInv', WidgetsTypeOK',
         item' = item, fullHandle' = fullHandle, sockets' >= sockets,
         \/ UNCHANGED <<posted, unhandled>>
         \/ posted' = <<>> /\ unhandled' = {},
         listened' = listened \/ listened = 0
  PROVE  ChainsInv' /\ ItemsInv' /\ HandedOnce'
<1>1. ChainsInv'
  BY DEF DispatcherInv, ChainsInv, SameChain
<1>2. Elements(posted') \subseteq Elements(posted) /\ unhandled' \subseteq unhandled
  BY DEF Elements
<1>3. HandedOnce'
  BY DEF DispatcherInv, HandedOnce
<1>4. ASSUME NEW i \in Items PROVE ItemInv(i)'
  <2>1. ItemInv(i)
    BY DEF DispatcherInv, ItemsInv
  <2>2. item[i] \in Item /\ sockets \in Nat /\ sockets' \in Nat
    BY WidgetBounds DEF DispatcherInv, WidgetsTypeOK
  <2>3. item[i].socket \in Nat
    BY <2>2, WidgetBounds DEF Item
  <2>4. CASE listened' = listened
    BY <1>2, <2>1, <2>2, <2>3, <2>4 DEF ItemInv
  <2>5. CASE listened = 0
    <3>1. item[i].pc # "posted" /\ ~item[i].full
      BY <2>1, <2>5 DEF ItemInv
    <3> QED BY <1>2, <2>1, <2>2, <2>3, <3>1 DEF ItemInv
  <2> QED BY <2>4, <2>5
<1>5. ItemsInv' = \A i \in Items : ItemInv(i)'
  BY DEF ItemsInv
<1> QED BY <1>1, <1>3, <1>4, <1>5

LEMMA SessionStartsStep ==
  ASSUME DispatcherInv, SessionStarts
  PROVE  DispatcherInv'
<1> USE WidgetBounds
<1>1. WidgetsTypeOK'
  BY DEF DispatcherInv, SessionStarts, WidgetsTypeOK, Announcements, hookVars, webview
<1>2. SocketsInv'
  BY DEF DispatcherInv, SessionStarts, WidgetsTypeOK, SocketsInv
<1>3. ChainsInv' /\ ItemsInv' /\ HandedOnce'
  <2>1. sockets' >= sockets
    BY DEF DispatcherInv, SessionStarts, WidgetsTypeOK
  <2> QED
    BY <1>1, <1>2, <2>1, ItemsKept DEF SessionStarts, hookVars, webview
<1>4. TargetsInv'
  BY DEF SessionStarts, TargetsInv
<1> QED BY <1>1, <1>2, <1>3, <1>4 DEF DispatcherInv

(* The steps that call initialize() and change nothing it depends on.      *)
LEMMA InitializeStep ==
  ASSUME DispatcherInv, NEW s \in {0, session}, NEW p \in Seq(Targets),
         InitializeDispatcher(s, p),
         UNCHANGED sessionVars, UNCHANGED hookVars, item' = item,
         announced' \in Announcements, announced' = "none" <=> session = 0,
         announced' = "restarted" => announced = "restarted" /\ s # 0,
         reloads' \in 0..MaxReloads,
         \/ UNCHANGED <<posted, unhandled>>
         \/ posted' = <<>> /\ unhandled' = {}
  PROVE  DispatcherInv'
<1> USE WidgetBounds
<1>1. /\ subscribed' \in {subscribed, session} /\ listened' \in {listened, socket}
      /\ listened' = listened \/ listened = 0
      /\ subscribed' = 0 <=> listened' = 0
      /\ pendingTargets' \in Seq(Targets)
      /\ registered' \subseteq Targets /\ kernelTargets' \subseteq Targets
      /\ s # 0 /\ registered \ {Default} \subseteq kernelTargets
         => registered' \ {Default} \subseteq kernelTargets'
  BY InitializeFacts DEF DispatcherInv
<1>2. UNCHANGED <<kernel, session, sessions, socket, sockets>>
      /\ UNCHANGED <<fullHandle, outputWidget, widgets>>
  BY DEF sessionVars, hookVars
<1>3. WidgetsTypeOK'
  <2>1. posted' \in Seq(Items \cup {RestartMark}) /\ unhandled' \subseteq Items
    <3>1. posted \in Seq(Items \cup {RestartMark}) /\ unhandled \subseteq Items
      BY DEF DispatcherInv, WidgetsTypeOK
    <3>2. CASE UNCHANGED <<posted, unhandled>>
      BY <3>1, <3>2
    <3>3. CASE posted' = <<>> /\ unhandled' = {}
      BY <3>3
    <3> QED BY <3>2, <3>3
  <2> QED BY <1>1, <1>2, <2>1 DEF DispatcherInv, WidgetsTypeOK
<1>4. SocketsInv'
  BY <1>1, <1>2 DEF DispatcherInv, WidgetsTypeOK, SocketsInv
<1>5. ChainsInv' /\ ItemsInv' /\ HandedOnce'
  <2>1. sockets' >= sockets
    BY <1>2 DEF DispatcherInv, WidgetsTypeOK
  <2> QED BY <1>1, <1>2, <1>3, <1>4, <2>1, ItemsKept
<1>6. TargetsInv'
  BY <1>1 DEF TargetsInv, DispatcherInv
<1> QED BY <1>3, <1>4, <1>5, <1>6 DEF DispatcherInv

LEMMA InitializingSteps ==
  ASSUME DispatcherInv,
         \/ KernelStarted \/ Reloads
         \/ \E t \in Targets : RegisterCommTarget(t)
  PROVE  DispatcherInv'
<1> USE WidgetBounds
<1>1. /\ pendingTargets \in Seq(Targets) /\ reloads \in 0..MaxReloads
      /\ announced \in Announcements
      /\ session = 0 <=> announced = "none"
  BY DEF DispatcherInv, WidgetsTypeOK, SocketsInv
<1>2. /\ KernelSession \in {0, session}
      /\ announced = "restarted" => KernelSession # 0
  BY <1>1 DEF KernelSession
<1>3. CASE KernelStarted
  <2>1. /\ InitializeDispatcher(session, pendingTargets)
        /\ UNCHANGED sessionVars /\ UNCHANGED hookVars /\ item' = item
        /\ announced' \in {"started", "restart"} /\ announced = "start"
        /\ UNCHANGED <<posted, unhandled>> /\ reloads' = reloads
    BY <1>3 DEF KernelStarted, webview
  <2>2. announced' \in Announcements
    BY <2>1 DEF Announcements
  <2> QED BY <1>1, <2>1, <2>2, InitializeStep
<1>4. CASE Reloads
  <2>1. /\ InitializeDispatcher(KernelSession, pendingTargets)
        /\ UNCHANGED sessionVars /\ UNCHANGED hookVars /\ item' = item
        /\ announced' = announced
        /\ posted' = <<>> /\ unhandled' = {} /\ reloads' \in 0..MaxReloads
    BY <1>1, <1>4 DEF Reloads
  <2> QED BY <1>1, <1>2, <2>1, InitializeStep
<1>5. ASSUME NEW t \in Targets, RegisterCommTarget(t) PROVE DispatcherInv'
  <2>1. Added(pendingTargets, t) \in Seq(Targets)
    BY <1>1, AddedFacts
  <2>2. /\ InitializeDispatcher(KernelSession, Added(pendingTargets, t))
        /\ UNCHANGED sessionVars /\ UNCHANGED hookVars /\ item' = item
        /\ announced' = announced
        /\ UNCHANGED <<posted, unhandled>> /\ reloads' = reloads
    BY <1>5 DEF RegisterCommTarget, webview
  <2> QED BY <1>1, <1>2, <2>1, <2>2, InitializeStep
<1> QED BY <1>3, <1>4, <1>5

LEMMA KernelCreatedStep ==
  ASSUME DispatcherInv, KernelCreated
  PROVE  DispatcherInv'
<1>1. /\ kernel' = TRUE
      /\ UNCHANGED <<session, sessions, socket, sockets, announced, subscribed, listened, item,
                     fullHandle, outputWidget, widgets, posted, unhandled, reloads,
                     pendingTargets, registered, kernelTargets>>
  BY DEF KernelCreated, hookVars, webview, targetVars
<1> QED
  BY <1>1 DEF DispatcherInv, WidgetsTypeOK, SocketsInv, ChainsInv, SameChain,
              ItemsInv, ItemInv, Elements, HandedOnce, TargetsInv

LEMMA SessionLostStep ==
  ASSUME DispatcherInv, SessionLost
  PROVE  DispatcherInv'
<1> USE WidgetBounds
<1>1. WidgetsTypeOK'
  BY DEF DispatcherInv, SessionLost, WidgetsTypeOK, Announcements, hookVars, webview
<1>2. SocketsInv'
  BY DEF DispatcherInv, SessionLost, WidgetsTypeOK, SocketsInv
<1>3. ChainsInv' /\ ItemsInv' /\ HandedOnce'
  <2>1. sockets' >= sockets
    BY DEF DispatcherInv, SessionLost, WidgetsTypeOK
  <2> QED
    BY <1>1, <1>2, <2>1, ItemsKept DEF SessionLost, hookVars, webview
<1>4. TargetsInv'
  BY DEF SessionLost, TargetsInv
<1> QED BY <1>1, <1>2, <1>3, <1>4 DEF DispatcherInv

LEMMA KernelRestartedStep ==
  ASSUME DispatcherInv, KernelRestarted
  PROVE  DispatcherInv'
<1> USE WidgetBounds
<1>1. /\ announced = "restart" /\ announced' = "restarted" /\ session # 0
      /\ UNCHANGED <<kernel, session, sessions, socket, sockets, item>>
      /\ UNCHANGED <<fullHandle, outputWidget, widgets, posted, unhandled, reloads>>
  BY DEF KernelRestarted, sessionVars, hookVars, webview, DispatcherInv, SocketsInv
<1>2. /\ pendingTargets \in Seq(Targets)
      /\ registered \subseteq Targets /\ kernelTargets \in SUBSET Targets
  BY DEF DispatcherInv, WidgetsTypeOK
<1>3. /\ subscribed' \in {subscribed, session} /\ listened' \in {listened, socket}
      /\ listened' = listened \/ listened = 0
      /\ subscribed' = 0 <=> listened' = 0
      /\ pendingTargets' \in Seq(Targets)
      /\ registered' \subseteq Targets /\ kernelTargets' \subseteq Targets
      /\ registered' \ {Default} \subseteq kernelTargets'
  <2>1. CASE registered = {}
    BY <1>2, <2>1 DEF KernelRestarted, targetVars, DispatcherInv, SocketsInv
  <2>2. CASE registered # {}
    <3> DEFINE again == [t \in Targets |-> t \in registered]
               one(s, t) == IF again[t] THEN Added(s, t) ELSE s
               first == one(pendingTargets, Default)
               second == one(first, "own.target")
    <3>1. SubscribeAndRegister(session, second, {})
      BY <2>2, TargetNames DEF KernelRestarted, Forgotten
    <3>2. first \in Seq(Targets)
      BY <1>2, TargetNames, AddedFacts
    <3>3. second \in Seq(Targets)
      <4> HIDE DEF first
      <4> QED BY <3>2, TargetNames, AddedFacts
    <3> HIDE DEF second
    <3> QED BY <1>1, <3>1, <3>3, SubscribeFacts DEF DispatcherInv
  <2> QED BY <2>1, <2>2
<1>4. WidgetsTypeOK'
  BY <1>1, <1>3 DEF DispatcherInv, WidgetsTypeOK, Announcements
<1>5. SocketsInv'
  BY <1>1, <1>3 DEF DispatcherInv, SocketsInv
<1>6. ChainsInv' /\ ItemsInv' /\ HandedOnce'
  <2>1. sockets' >= sockets
    BY <1>1 DEF DispatcherInv, WidgetsTypeOK
  <2> QED BY <1>1, <1>3, <1>4, <1>5, <2>1, ItemsKept
<1>7. TargetsInv'
  BY <1>3 DEF TargetsInv
<1> QED BY <1>4, <1>5, <1>6, <1>7 DEF DispatcherInv

-----------------------------------------------------------------------------
(* Items go on in the order of their chains: one leaves the queue only     *)
(* when nothing before it holds the chain up, and none goes back.          *)
LEMMA ChainsKept ==
  ASSUME ChainsInv,
         \A i \in Items :
            /\ item'[i].kind = item[i].kind /\ item'[i].socket = item[i].socket
            /\ item'[i].pc = "unused" <=> item[i].pc = "unused"
            /\ Busy(item'[i].pc) => Busy(item[i].pc)
            /\ item[i].pc \in {"unused", "queued"} /\ ~IsNext(i)
               => item'[i].pc \in {"unused", "queued"}
  PROVE  ChainsInv'
<1>1. ASSUME NEW i \in Items, NEW j \in Items, i < j, item'[i].pc = "unused"
      PROVE  item'[j].pc = "unused"
  BY <1>1 DEF ChainsInv
<1>2. ASSUME NEW i \in Items, NEW j \in Items, i < j,
             SameChain(i, j)', Busy(item'[i].pc)
      PROVE  item'[j].pc \in {"unused", "queued"}
  <2>1. SameChain(i, j) /\ SameChain(j, i) /\ Busy(item[i].pc)
    BY <1>2 DEF SameChain
  <2>2. item[j].pc \in {"unused", "queued"}
    BY <1>2, <2>1 DEF ChainsInv
  <2>3. ~IsNext(j)
    <3>1. i \in 1..j - 1
      BY <1>2, WidgetBounds DEF Items
    <3> QED BY <2>1, <3>1 DEF IsNext
  <2> QED BY <2>2, <2>3
<1> QED BY <1>1, <1>2 DEF ChainsInv

LEMMA ReleasedFacts ==
  ASSUME DispatcherInv
  PROVE  /\ Released(item) \in [Items -> Item]
         /\ \A i \in Items :
               /\ Released(item)[i].kind = item[i].kind
               /\ Released(item)[i].socket = item[i].socket
               /\ Released(item)[i].full <=> item[i].full
               /\ item[i].pc # "posted" => Released(item)[i] = item[i]
               /\ item[i].pc = "posted" => \/ Released(item)[i].pc = "passed"
                                           \/ /\ Released(item)[i].pc = "handling"
                                              /\ Released(item)[i].on = i
<1>1. item \in [Items -> Item] /\ fullHandle \in 0..MaxItems
  BY DEF DispatcherInv, WidgetsTypeOK
<1>2. Released(item) = [i \in Items |-> IF item[i].pc = "posted"
                            THEN Answered(item[i], fullHandle) ELSE item[i]]
  BY DEF Released
<1>3. ASSUME NEW i \in Items
      PROVE  /\ Released(item)[i] \in Item
             /\ Released(item)[i].kind = item[i].kind
             /\ Released(item)[i].socket = item[i].socket
             /\ Released(item)[i].full <=> item[i].full
             /\ item[i].pc # "posted" => Released(item)[i] = item[i]
             /\ item[i].pc = "posted" => \/ Released(item)[i].pc = "passed"
                                         \/ /\ Released(item)[i].pc = "handling"
                                            /\ Released(item)[i].on = i
  <2>1. item[i] \in Item
    BY <1>1
  <2>2. CASE item[i].pc = "posted"
    <3>1. Released(item)[i] = Answered(item[i], fullHandle)
      BY <1>2, <2>2
    <3>2. item[i].kind # "execute" => fullHandle = i /\ i # 0
      BY <2>2, WidgetBounds DEF DispatcherInv, ItemsInv, ItemInv, Items
    <3> QED BY <1>1, <2>1, <2>2, <3>1, <3>2, AnsweredFacts
  <2>3. CASE item[i].pc # "posted"
    BY <1>2, <2>1, <2>3
  <2> QED BY <2>2, <2>3
<1> QED BY <1>2, <1>3

(* A session that is subscribed to brings the dispatcher a new socket.     *)
LEMMA NewSocketStep ==
  ASSUME DispatcherInv, NEW had \in SUBSET Targets,
         session # 0, subscribed = session, sockets < MaxSockets,
         NewSocket(sockets + 1, had),
         socket' = sockets + 1, sockets' = sockets + 1, announced' = "restart",
         UNCHANGED <<kernel, session, sessions, subscribed>>, UNCHANGED hookVars,
         UNCHANGED <<unhandled, reloads>>
  PROVE  DispatcherInv'
<1> USE WidgetBounds
<1>1. WidgetsTypeOK /\ SocketsInv /\ ChainsInv /\ ItemsInv /\ HandedOnce
  BY DEF DispatcherInv
<1>2. /\ listened' = sockets + 1
      /\ item' = Released(item) /\ posted' = Append(posted, RestartMark)
      /\ RegisterCommTargets(pendingTargets, registered, session, had)
  <2>1. listened # 0
    BY <1>1 DEF SocketsInv, WidgetsTypeOK
  <2> QED BY <2>1 DEF NewSocket
<1>3. /\ pendingTargets' \in Seq(Targets)
      /\ registered' \subseteq Targets /\ kernelTargets' \subseteq Targets
  BY <1>1, <1>2, RegisterFacts DEF WidgetsTypeOK
<1>4. WidgetsTypeOK'
  <2>1. posted' \in Seq(Items \cup {RestartMark})
    BY <1>1, <1>2 DEF WidgetsTypeOK
  <2>2. item' \in [Items -> Item]
        /\ \A i \in Items : item'[i].full => item'[i].kind = "update"
    BY <1>1, <1>2, ReleasedFacts DEF WidgetsTypeOK
  <2> QED BY <1>1, <1>2, <1>3, <2>1, <2>2 DEF WidgetsTypeOK, Announcements, hookVars
<1>5. SocketsInv'
  BY <1>1, <1>2 DEF SocketsInv, WidgetsTypeOK
<1>6. ChainsInv'
  BY <1>1, <1>2, ReleasedFacts, ChainsKept DEF Busy, IsNext
<1>7. ASSUME NEW i \in Items PROVE ItemInv(i)'
  <2>1. ItemInv(i) /\ item[i] \in Item /\ sockets \in Nat
    BY <1>1 DEF ItemsInv, WidgetsTypeOK
  <2>2. i \in Elements(posted') => i \in Elements(posted)
    <3>1. i # RestartMark
      BY DEF Items, RestartMark
    <3> QED BY <1>1, <1>2, <3>1 DEF Elements, WidgetsTypeOK
  <2>3. item[i].socket \in Nat
    BY <2>1 DEF Item
  <2>4. /\ item'[i].socket = item[i].socket
        /\ item'[i].full <=> item[i].full
        /\ item'[i].kind = item[i].kind
        /\ item[i].pc # "posted" => item'[i] = item[i]
        /\ item[i].pc = "posted" => \/ item'[i].pc = "passed"
                                    \/ item'[i].pc = "handling" /\ item'[i].on = i
    BY <1>2, ReleasedFacts
  <2>5. item'[i].pc # "posted" /\ item'[i].pc # "threw"
    BY <2>1, <2>4 DEF ItemInv
  <2>6. item'[i].pc # "unused" => item'[i].socket # sockets + 1
    BY <2>1, <2>3, <2>4 DEF ItemInv
  <2>7. item'[i].full => item'[i].pc # "unused"
    BY <2>1, <2>4 DEF ItemInv
  <2> QED BY <1>2, <2>1, <2>2, <2>3, <2>4, <2>5, <2>6, <2>7 DEF ItemInv
<1>8. HandedOnce'
  <2>1. posted \in Seq(Items \cup {RestartMark}) /\ posted' = Append(posted, RestartMark)
    BY <1>1, <1>2 DEF WidgetsTypeOK
  <2>2. /\ DOMAIN posted' = DOMAIN posted \cup {Len(posted) + 1}
        /\ posted'[Len(posted) + 1] = RestartMark
        /\ \A n \in DOMAIN posted : posted'[n] = posted[n]
    BY <2>1
  <2> QED BY <1>1, <2>2 DEF HandedOnce
<1>9. TargetsInv'
  BY DEF TargetsInv
<1> QED BY <1>4, <1>5, <1>6, <1>7, <1>8, <1>9 DEF DispatcherInv, ItemsInv

LEMMA SessionRestartsStep ==
  ASSUME DispatcherInv, NEW remote \in BOOLEAN, SessionRestarts(remote)
  PROVE  DispatcherInv'
<1> USE WidgetBounds
<1> DEFINE had == IF remote THEN kernelTargets ELSE {}
<1>1. had \in SUBSET Targets
  BY DEF DispatcherInv, WidgetsTypeOK
<1>2. /\ session # 0 /\ sockets < MaxSockets
      /\ socket' = sockets + 1 /\ sockets' = sockets + 1
      /\ announced \in {"started", "restarted"} /\ announced' = "restart"
      /\ UNCHANGED <<kernel, session, sessions, subscribed>> /\ UNCHANGED hookVars
      /\ UNCHANGED <<unhandled, reloads>>
  BY DEF SessionRestarts, DispatcherInv, SocketsInv
<1>3. CASE subscribed = session
  <2>1. NewSocket(sockets + 1, had)
    BY <1>3 DEF SessionRestarts
  <2> HIDE DEF had
  <2> QED BY <1>1, <1>2, <1>3, <2>1, NewSocketStep
<1>4. CASE subscribed # session
  <2>1. /\ kernelTargets' = had
        /\ UNCHANGED <<listened, item, posted, pendingTargets, registered>>
    BY <1>4 DEF SessionRestarts
  <2> HIDE DEF had
  <2>2. WidgetsTypeOK'
    BY <1>1, <1>2, <2>1 DEF DispatcherInv, WidgetsTypeOK, Announcements, hookVars
  <2>3. SocketsInv'
    BY <1>2, <2>1 DEF DispatcherInv, WidgetsTypeOK, SocketsInv
  <2>4. ChainsInv' /\ ItemsInv' /\ HandedOnce'
    <3>1. sockets' >= sockets /\ fullHandle' = fullHandle
      BY <1>2 DEF DispatcherInv, WidgetsTypeOK, hookVars
    <3> QED BY <1>2, <2>1, <2>2, <2>3, <3>1, ItemsKept
  <2>5. TargetsInv'
    BY <1>2 DEF TargetsInv
  <2> QED BY <2>2, <2>3, <2>4, <2>5 DEF DispatcherInv
<1> QED BY <1>3, <1>4

-----------------------------------------------------------------------------
(* The steps of the chains and of the webview.                             *)
LEMMA ArrivesStep ==
  ASSUME DispatcherInv,
         NEW i \in Items, NEW kind \in Incoming \cup {"execute"},
         Arrives(i, kind)
  PROVE  DispatcherInv'
<1> USE WidgetBounds
<1>1. WidgetsTypeOK /\ SocketsInv /\ ChainsInv /\ ItemsInv /\ HandedOnce /\ TargetsInv
  BY DEF DispatcherInv
<1>2. /\ item[i].pc = "unused" /\ \A j \in 1..i - 1 : item[j].pc # "unused"
      /\ socket # 0
      /\ UNCHANGED <<kernel, session, sessions, socket, sockets, announced, subscribed, listened,
                     fullHandle, outputWidget, widgets, posted, unhandled, reloads,
                     pendingTargets, registered, kernelTargets>>
  BY DEF Arrives, sessionVars, hookVars, webview, targetVars
<1> DEFINE new == [kind |-> kind, socket |-> socket, pc |-> "queued",
                   full |-> FALSE, on |-> 0]
<1>3. new \in Item
  BY <1>1 DEF WidgetsTypeOK, Item
<1>4. /\ item \in [Items -> Item]
      /\ item' = [item EXCEPT ![i] = new]
  BY <1>1 DEF Arrives, WidgetsTypeOK
<1>5. /\ new.kind = kind /\ new.socket = socket /\ new.pc = "queued"
      /\ ~new.full /\ new.on = 0
  OBVIOUS
<1> HIDE DEF new
<1>6. /\ item' \in [Items -> Item] /\ item'[i] = new
      /\ \A k \in Items : k # i => item'[k] = item[k]
  BY <1>3, <1>4
<1>7. WidgetsTypeOK'
  BY <1>1, <1>2, <1>5, <1>6 DEF WidgetsTypeOK
<1>8. SocketsInv' /\ HandedOnce' /\ TargetsInv'
  BY <1>1, <1>2 DEF SocketsInv, HandedOnce, TargetsInv
<1>9. ChainsInv'
  <2>1. ASSUME NEW a \in Items, NEW b \in Items, a < b, item'[a].pc = "unused"
        PROVE  item'[b].pc = "unused"
    <3>1. a # i /\ item[a].pc = "unused"
      BY <1>5, <1>6, <2>1
    <3>2. b # i
      BY <1>2, <2>1, <3>1 DEF Items
    <3> QED BY <1>1, <1>6, <2>1, <3>1, <3>2 DEF ChainsInv
  <2>2. ASSUME NEW a \in Items, NEW b \in Items, a < b,
               SameChain(a, b)', Busy(item'[a].pc)
        PROVE  item'[b].pc \in {"unused", "queued"}
    <3>1. CASE a = i
      <4>1. b # i /\ item[b].pc = "unused"
        BY <1>1, <1>2, <2>2, <3>1 DEF ChainsInv, Items
      <4> QED BY <1>6, <4>1
    <3>2. CASE b = i
      BY <1>5, <1>6, <3>2
    <3>3. CASE a # i /\ b # i
      <4>1. item'[a] = item[a] /\ item'[b] = item[b]
        BY <1>6, <3>3
      <4>2. SameChain(a, b) /\ Busy(item[a].pc)
        BY <2>2, <4>1 DEF SameChain
      <4> QED BY <1>1, <2>2, <4>1, <4>2 DEF ChainsInv
    <3> QED BY <3>1, <3>2, <3>3
  <2> QED BY <2>1, <2>2 DEF ChainsInv
<1>10. ASSUME NEW k \in Items PROVE ItemInv(k)'
  <2>1. ItemInv(k)
    BY <1>1 DEF ItemsInv
  <2>2. CASE k = i
    <3>1. socket <= sockets
      BY <1>1 DEF SocketsInv
    <3>2. k \notin Elements(posted) /\ k \notin unhandled
      BY <1>2, <2>1, <2>2 DEF ItemInv
    <3> QED BY <1>2, <1>5, <1>6, <2>2, <3>1, <3>2 DEF ItemInv, Elements
  <2>3. CASE k # i
    <3>1. item'[k] = item[k]
      BY <1>6, <2>3
    <3> QED BY <1>2, <2>1, <3>1 DEF ItemInv, Elements
  <2> QED BY <2>2, <2>3
<1> QED BY <1>7, <1>8, <1>9, <1>10 DEF DispatcherInv, ItemsInv

LEMMA PassesStep ==
  ASSUME DispatcherInv, NEW i \in Items, Passes(i)
  PROVE  DispatcherInv'
<1> USE WidgetBounds
<1>1. WidgetsTypeOK /\ SocketsInv /\ ChainsInv /\ ItemsInv /\ HandedOnce /\ TargetsInv
  BY DEF DispatcherInv
<1>2. /\ IsNext(i) /\ item[i].pc = "queued"
      /\ item' = [item EXCEPT ![i].pc = "passed"]
      /\ UNCHANGED <<kernel, session, sessions, socket, sockets, announced, subscribed, listened,
                     fullHandle, outputWidget, widgets, posted, unhandled, reloads,
                     pendingTargets, registered, kernelTargets>>
  BY DEF Passes, IsNext, sessionVars, hookVars,
         webview, targetVars
<1>3. /\ item \in [Items -> Item]
      /\ item' \in [Items -> Item]
      /\ item'[i].pc = "passed" /\ item'[i].kind = item[i].kind
      /\ item'[i].socket = item[i].socket /\ (item'[i].full <=> item[i].full)
      /\ \A k \in Items : k # i => item'[k] = item[k]
  BY <1>1, <1>2 DEF WidgetsTypeOK, Item
<1>4. WidgetsTypeOK'
  BY <1>1, <1>2, <1>3 DEF WidgetsTypeOK
<1>5. SocketsInv' /\ HandedOnce' /\ TargetsInv'
  BY <1>1, <1>2 DEF SocketsInv, HandedOnce, TargetsInv
<1>6. ChainsInv'
  BY <1>1, <1>2, <1>3, ChainsKept DEF Busy
<1>7. ASSUME NEW k \in Items PROVE ItemInv(k)'
  <2>1. ItemInv(k)
    BY <1>1 DEF ItemsInv
  <2>2. CASE k = i
    BY <1>2, <1>3, <2>1, <2>2 DEF ItemInv, Elements
  <2>3. CASE k # i
    <3>1. item'[k] = item[k]
      BY <1>3, <2>3
    <3> QED BY <1>2, <2>1, <3>1 DEF ItemInv, Elements
  <2> QED BY <2>2, <2>3
<1> QED BY <1>4, <1>5, <1>6, <1>7 DEF DispatcherInv, ItemsInv

LEMMA HookStep ==
  ASSUME DispatcherInv, NEW i \in Items, Hook(i)
  PROVE  DispatcherInv'
<1> USE WidgetBounds
<1>1. WidgetsTypeOK /\ SocketsInv /\ ChainsInv /\ ItemsInv /\ HandedOnce /\ TargetsInv
  BY DEF DispatcherInv
<1> DEFINE kind == item[i].kind
           full == HandledFully(kind)
           p == IF (IF kind = "execute" THEN widgets ELSE full) THEN "posted" ELSE "passed"
<1>2. /\ IsNext(i) /\ item[i].pc = "queued" /\ item[i].socket = listened
      /\ posted' = Append(posted, i)
      /\ item' = [item EXCEPT ![i].pc = p, ![i].full = full]
      /\ fullHandle' = IF full THEN i ELSE fullHandle
      /\ UNCHANGED <<kernel, session, sessions, socket, sockets, announced, subscribed, listened,
                     unhandled, reloads, pendingTargets, registered, kernelTargets>>
  BY DEF Hook, IsNext, sessionVars, hookVars,
         webview, targetVars
<1>3. /\ full \in BOOLEAN /\ p \in {"posted", "passed"}
      /\ full => kind = "update" /\ p = "posted"
      /\ kind # "execute" /\ p = "posted" => full
  BY DEF HandledFully
<1>4. outputWidget' \in BOOLEAN /\ widgets' \in BOOLEAN
  BY <1>1 DEF Hook, WidgetsTypeOK
<1> HIDE DEF full, p
<1>5. /\ item \in [Items -> Item]
      /\ item' \in [Items -> Item]
      /\ item'[i].pc = p /\ item'[i].kind = kind
      /\ item'[i].socket = item[i].socket /\ (item'[i].full <=> full)
      /\ \A k \in Items : k # i => item'[k] = item[k]
  BY <1>1, <1>2, <1>3 DEF WidgetsTypeOK, Item
<1>6. /\ posted \in Seq(Items \cup {RestartMark})
      /\ i \notin Elements(posted) /\ i \notin unhandled
      /\ Elements(posted') = Elements(posted) \cup {i}
  <2>1. posted \in Seq(Items \cup {RestartMark})
    BY <1>1 DEF WidgetsTypeOK
  <2>2. i \notin Elements(posted) /\ i \notin unhandled
    BY <1>1, <1>2 DEF ItemsInv, ItemInv
  <2>3. /\ DOMAIN posted' = DOMAIN posted \cup {Len(posted) + 1}
        /\ posted'[Len(posted) + 1] = i
        /\ \A n \in DOMAIN posted : posted'[n] = posted[n]
    BY <1>2, <2>1
  <2>4. Elements(posted') = Elements(posted) \cup {i}
    BY <2>3 DEF Elements
  <2> QED BY <2>1, <2>2, <2>4
<1>7. WidgetsTypeOK'
  <2>1. posted' \in Seq(Items \cup {RestartMark})
    BY <1>2, <1>6
  <2>2. fullHandle' \in 0..MaxItems
    BY <1>1, <1>2 DEF WidgetsTypeOK, Items
  <2>3. \A k \in Items : item'[k].full => item'[k].kind = "update"
    BY <1>1, <1>3, <1>5 DEF WidgetsTypeOK
  <2> QED BY <1>1, <1>2, <1>4, <1>5, <2>1, <2>2, <2>3 DEF WidgetsTypeOK
<1>8. SocketsInv' /\ TargetsInv'
  BY <1>1, <1>2 DEF SocketsInv, TargetsInv
<1>9. ChainsInv'
  BY <1>1, <1>2, <1>3, <1>5, ChainsKept DEF Busy
<1>10. HandedOnce'
  <2>1. /\ DOMAIN posted' = DOMAIN posted \cup {Len(posted) + 1}
        /\ posted'[Len(posted) + 1] = i
        /\ \A n \in DOMAIN posted : posted'[n] = posted[n] /\ posted[n] # i
    BY <1>2, <1>6 DEF Elements
  <2> QED BY <1>1, <2>1 DEF HandedOnce
<1>11. ASSUME NEW k \in Items PROVE ItemInv(k)'
  <2>1. ItemInv(k) /\ ItemInv(i)
    BY <1>1 DEF ItemsInv
  <2>2. CASE k = i
    <3>1. item[i].socket # 0
      BY <1>2, <2>1 DEF ItemInv
    <3>2. /\ item'[i].pc # "unused" /\ item'[i].pc # "queued"
          /\ item'[i].pc # "handling" /\ item'[i].pc # "threw"
      BY <1>3, <1>5
    <3>3. item'[i].socket <= sockets'
      BY <1>2, <1>5, <2>1 DEF ItemInv
    <3> QED BY <1>2, <1>3, <1>5, <1>6, <2>2, <3>1, <3>2, <3>3 DEF ItemInv
  <2>3. CASE k # i
    <3>1. item'[k] = item[k] /\ (k \in Elements(posted') <=> k \in Elements(posted))
      BY <1>5, <1>6, <2>3
    <3>2. item[k].pc = "posted" /\ item[k].kind # "execute" => ~full
      <4>1. SUFFICES ASSUME item[k].pc = "posted", item[k].kind # "execute", full
                     PROVE  FALSE
        OBVIOUS
      <4>2. SameChain(i, k) /\ SameChain(k, i)
        BY <1>2, <1>3, <2>1, <4>1 DEF ItemInv, SameChain
      <4>3. CASE i < k
        BY <1>1, <1>2, <4>1, <4>2, <4>3 DEF ChainsInv, Busy
      <4>4. CASE k < i
        <5>1. k \in 1..i - 1
          BY <4>4 DEF Items
        <5> QED BY <1>2, <4>1, <4>2, <5>1 DEF IsNext, Busy
      <4> QED BY <2>3, <4>3, <4>4 DEF Items
    <3> QED BY <1>2, <2>1, <3>1, <3>2 DEF ItemInv
  <2> QED BY <2>2, <2>3
<1> QED BY <1>7, <1>8, <1>9, <1>10, <1>11 DEF DispatcherInv, ItemsInv

(* The first of what is on its way comes once.                             *)
LEMMA TailFacts ==
  ASSUME WidgetsTypeOK, HandedOnce, posted # <<>>, posted' = Tail(posted)
  PROVE  /\ posted' \in Seq(Items \cup {RestartMark})
         /\ Head(posted) \in Items \cup {RestartMark}
         /\ Head(posted) \in Elements(posted)
         /\ Elements(posted') \subseteq Elements(posted)
         /\ Head(posted) # RestartMark => Head(posted) \notin Elements(posted')
         /\ HandedOnce'
<1>1. posted \in Seq(Items \cup {RestartMark})
  BY DEF WidgetsTypeOK
<1>2. /\ posted' \in Seq(Items \cup {RestartMark})
      /\ Len(posted') = Len(posted) - 1 /\ Len(posted) > 0
      /\ \A n \in 1..Len(posted') : posted'[n] = posted[n + 1]
      /\ Head(posted) = posted[1]
  BY <1>1
<1>3. Head(posted) \in Elements(posted) /\ Head(posted) \in Items \cup {RestartMark}
  BY <1>1, <1>2 DEF Elements
<1>4. Elements(posted') \subseteq Elements(posted)
  BY <1>1, <1>2 DEF Elements
<1>5. Head(posted) # RestartMark => Head(posted) \notin Elements(posted')
  <2>1. ASSUME Head(posted) # RestartMark, NEW n \in DOMAIN posted', posted'[n] = Head(posted)
        PROVE  FALSE
    <3>1. n \in 1..Len(posted') /\ n + 1 \in DOMAIN posted /\ 1 \in DOMAIN posted
      BY <1>1, <1>2
    <3>2. posted[n + 1] = posted[1] /\ posted[n + 1] # RestartMark
      BY <1>2, <2>1, <3>1
    <3>3. n + 1 = 1
      BY <3>1, <3>2 DEF HandedOnce
    <3> QED BY <3>1, <3>3
  <2> QED BY <2>1 DEF Elements
<1>6. HandedOnce'
  <2>1. ASSUME NEW m \in DOMAIN posted', NEW n \in DOMAIN posted',
               posted'[m] = posted'[n], posted'[m] # RestartMark
        PROVE  m = n
    <3>1. /\ m \in 1..Len(posted') /\ n \in 1..Len(posted')
          /\ m + 1 \in DOMAIN posted /\ n + 1 \in DOMAIN posted
      BY <1>1, <1>2
    <3>2. m + 1 = n + 1
      BY <1>2, <2>1, <3>1 DEF HandedOnce
    <3> QED BY <3>1, <3>2
  <2> QED BY <2>1 DEF HandedOnce
<1> QED BY <1>2, <1>3, <1>4, <1>5, <1>6

LEMMA ReceivesStep ==
  ASSUME DispatcherInv, Receives
  PROVE  DispatcherInv'
<1> USE WidgetBounds
<1>1. WidgetsTypeOK /\ SocketsInv /\ ChainsInv /\ ItemsInv /\ HandedOnce /\ TargetsInv
  BY DEF DispatcherInv
<1> DEFINE i == Head(posted)
           answers == i # RestartMark /\ item[i].pc = "posted"
<1>2. /\ posted # <<>> /\ posted' = Tail(posted)
      /\ unhandled' = (IF i = RestartMark THEN {}
                       ELSE IF item[i].kind = "execute" THEN unhandled ELSE unhandled \cup {i})
      /\ answers => item' = [item EXCEPT ![i] = Answered(item[i], fullHandle)]
      /\ ~answers => item' = item
      /\ UNCHANGED <<kernel, session, sessions, socket, sockets, announced, subscribed, listened,
                     fullHandle, outputWidget, widgets, reloads,
                     pendingTargets, registered, kernelTargets>>
  BY DEF Receives, sessionVars, hookVars, targetVars
<1>3. /\ posted' \in Seq(Items \cup {RestartMark})
      /\ i \in Items \cup {RestartMark} /\ i \in Elements(posted)
      /\ Elements(posted') \subseteq Elements(posted)
      /\ i # RestartMark => i \notin Elements(posted')
      /\ HandedOnce'
  BY <1>1, <1>2, TailFacts
<1> HIDE DEF i
<1>4. item \in [Items -> Item] /\ fullHandle \in 0..MaxItems
  BY <1>1 DEF WidgetsTypeOK
<1>5. ASSUME answers
      PROVE  /\ i \in Items /\ i # 0 /\ ItemInv(i)
             /\ item' \in [Items -> Item]
             /\ item'[i].kind = item[i].kind /\ item'[i].socket = item[i].socket
             /\ item'[i].full <=> item[i].full
             /\ item[i].kind = "execute" => item'[i].pc = "passed"
             /\ item[i].kind # "execute" => item'[i].pc = "handling" /\ item'[i].on = i
             /\ \A k \in Items : k # i => item'[k] = item[k]
  <2>1. i \in Items /\ i # 0 /\ ItemInv(i)
    BY <1>1, <1>3, <1>5 DEF ItemsInv, Items
  <2>2. item[i].kind # "execute" => fullHandle = i
    BY <1>5, <2>1 DEF ItemInv
  <2>3. /\ Answered(item[i], fullHandle) \in Item
        /\ Answered(item[i], fullHandle).kind = item[i].kind
        /\ Answered(item[i], fullHandle).socket = item[i].socket
        /\ Answered(item[i], fullHandle).full <=> item[i].full
        /\ item[i].kind = "execute" => Answered(item[i], fullHandle).pc = "passed"
        /\ item[i].kind # "execute" /\ fullHandle # 0
           => /\ Answered(item[i], fullHandle).pc = "handling"
              /\ Answered(item[i], fullHandle).on = fullHandle
    BY <1>4, <2>1, AnsweredFacts
  <2> QED BY <1>2, <1>4, <1>5, <2>1, <2>2, <2>3
<1>6. \A k \in Items :
         /\ item'[k].kind = item[k].kind /\ item'[k].socket = item[k].socket
         /\ item'[k].full <=> item[k].full
         /\ item'[k] # item[k] => /\ k = i /\ item[k].pc = "posted"
                                  /\ item'[k].pc \in {"passed", "handling"}
  BY <1>2, <1>5
<1>7. WidgetsTypeOK'
  <2>1. item' \in [Items -> Item]
    BY <1>2, <1>4, <1>5
  <2>2. unhandled' \subseteq Items
    BY <1>1, <1>2, <1>3 DEF WidgetsTypeOK
  <2>3. \A k \in Items : item'[k].full => item'[k].kind = "update"
    BY <1>1, <1>6 DEF WidgetsTypeOK
  <2> QED BY <1>1, <1>2, <1>3, <2>1, <2>2, <2>3 DEF WidgetsTypeOK
<1>8. SocketsInv' /\ TargetsInv'
  BY <1>1, <1>2 DEF SocketsInv, TargetsInv
<1>9. ChainsInv'
  BY <1>1, <1>6, ChainsKept DEF Busy
<1>10. ASSUME NEW k \in Items PROVE ItemInv(k)'
  <2>1. ItemInv(k) /\ k # RestartMark
    BY <1>1 DEF ItemsInv, Items, RestartMark
  <2>2. CASE k # i
    <3>1. /\ item'[k] = item[k]
          /\ k \in unhandled' => k \in unhandled
      BY <1>2, <1>6, <2>2
    <3> QED BY <1>2, <1>3, <2>1, <3>1 DEF ItemInv
  <2>3. CASE k = i /\ item[k].pc = "posted"
    <3>1. answers
      BY <2>1, <2>3
    <3>2. item[i].full => item[i].kind = "update"
      BY <1>1, <2>3 DEF WidgetsTypeOK
    <3> QED BY <1>2, <1>3, <1>5, <2>1, <2>3, <3>1, <3>2 DEF ItemInv
  <2>4. CASE k = i /\ item[k].pc # "posted"
    <3>1. item'[k] = item[k]
      BY <1>2, <2>4
    <3>2. ~(item[k].full /\ item[k].socket = listened)
      BY <1>3, <2>1, <2>4 DEF ItemInv
    <3>3. item[k].pc \notin {"unused", "queued"}
      BY <1>3, <2>1, <2>4 DEF ItemInv
    <3> QED BY <1>2, <2>1, <2>4, <3>1, <3>2, <3>3 DEF ItemInv
  <2> QED BY <2>2, <2>3, <2>4
<1> QED BY <1>3, <1>7, <1>8, <1>9, <1>10 DEF DispatcherInv, ItemsInv

LEMMA HandlesStep ==
  ASSUME DispatcherInv, NEW i \in Items, Handles(i)
  PROVE  DispatcherInv'
<1> USE WidgetBounds
<1>1. WidgetsTypeOK /\ SocketsInv /\ ChainsInv /\ ItemsInv /\ HandedOnce /\ TargetsInv
  BY DEF DispatcherInv
<1>2. /\ i \in unhandled /\ unhandled' = unhandled \ {i}
      /\ fullHandle = i => item' = Finished(i) /\ fullHandle' = 0
      /\ fullHandle # i => item' = item /\ fullHandle' = fullHandle
      /\ UNCHANGED <<kernel, session, sessions, socket, sockets, announced, subscribed, listened,
                     outputWidget, widgets, posted, reloads,
                     pendingTargets, registered, kernelTargets>>
  BY DEF Handles, IsAwaited, sessionVars, targetVars
<1>3. item \in [Items -> Item] /\ fullHandle \in 0..MaxItems
  BY <1>1 DEF WidgetsTypeOK
<1> DEFINE ends(k) == fullHandle = i /\ item[k].pc = "handling" /\ item[k].on = i
<1>4. ASSUME NEW k \in Items
      PROVE  /\ ends(k) => /\ k = i /\ item'[k] \in Item /\ item'[k].pc = "passed"
                           /\ item'[k].kind = item[k].kind
                           /\ item'[k].socket = item[k].socket
                           /\ item'[k].full <=> item[k].full
             /\ ~ends(k) => item'[k] = item[k]
  <2>1. item[k].pc = "handling" => item[k].on = k
    BY <1>1 DEF ItemsInv, ItemInv
  <2>2. fullHandle = i
        => item'[k] = IF item[k].pc = "handling" /\ item[k].on = i
                      THEN [item[k] EXCEPT !.pc = "passed", !.on = 0] ELSE item[k]
    BY <1>2 DEF Finished
  <2>3. item[k] \in Item
    BY <1>3
  <2>4. CASE ends(k)
    <3>1. item'[k] = [item[k] EXCEPT !.pc = "passed", !.on = 0]
      BY <2>2, <2>4
    <3>2. k = i
      BY <2>1, <2>4
    <3>3. /\ item'[k] \in Item /\ item'[k].pc = "passed"
          /\ item'[k].kind = item[k].kind /\ item'[k].socket = item[k].socket
          /\ item'[k].full <=> item[k].full
      BY <2>3, <3>1, 0 \in 0..MaxItems DEF Item
    <3> QED BY <2>4, <3>2, <3>3
  <2>5. CASE ~ends(k)
    BY <1>2, <2>2, <2>5
  <2> QED BY <2>4, <2>5
<1>5. WidgetsTypeOK'
  <2>1. item' \in [Items -> Item]
    <3>1. fullHandle = i
          => item' = [k \in Items |-> IF item[k].pc = "handling" /\ item[k].on = i
                        THEN [item[k] EXCEPT !.pc = "passed", !.on = 0] ELSE item[k]]
      BY <1>2 DEF Finished
    <3>2. \A k \in Items : item'[k] \in Item
      BY <1>3, <1>4
    <3> QED BY <1>2, <1>3, <3>1, <3>2
  <2>2. fullHandle' \in 0..MaxItems
    BY <1>2, <1>3
  <2>3. \A k \in Items : item'[k].full => item'[k].kind = "update"
    BY <1>1, <1>4 DEF WidgetsTypeOK
  <2> QED BY <1>1, <1>2, <2>1, <2>2, <2>3 DEF WidgetsTypeOK
<1>6. SocketsInv' /\ HandedOnce' /\ TargetsInv'
  BY <1>1, <1>2 DEF SocketsInv, HandedOnce, TargetsInv
<1>7. ChainsInv'
  BY <1>1, <1>4, ChainsKept DEF Busy
<1>8. ASSUME NEW k \in Items PROVE ItemInv(k)'
  <2>1. ItemInv(k) /\ ItemInv(i)
    BY <1>1 DEF ItemsInv
  <2>2. Elements(posted') = Elements(posted)
    BY <1>2 DEF Elements
  <2>3. CASE ends(k)
    <3>1. k \notin unhandled' /\ k = i
      BY <1>2, <1>4, <2>3
    <3>2. item[k].full /\ item[k].socket = listened => k \notin Elements(posted)
      BY <2>1, <2>3 DEF ItemInv
    <3> QED BY <1>2, <1>4, <2>1, <2>2, <2>3, <3>1, <3>2 DEF ItemInv
  <2>4. CASE ~ends(k)
    <3>1. item'[k] = item[k]
      BY <1>4, <2>4
    <3>2. item[k].pc = "posted" /\ item[k].kind # "execute" => fullHandle' = fullHandle
      BY <1>2, <2>1 DEF ItemInv
    <3> QED BY <1>2, <2>1, <2>2, <3>1, <3>2 DEF ItemInv
  <2> QED BY <2>3, <2>4
<1> QED BY <1>5, <1>6, <1>7, <1>8 DEF DispatcherInv, ItemsInv

-----------------------------------------------------------------------------
LEMMA DispatcherStep ==
  ASSUME DispatcherInv, [WidgetsNext]_(widgetVars)
  PROVE  DispatcherInv'
<1>1. CASE WidgetsNext
  <2>1. \/ KernelCreated \/ SessionStarts \/ SessionLost \/ KernelRestarted
        \/ \E remote \in BOOLEAN : SessionRestarts(remote)
        \/ KernelStarted \/ Reloads
        \/ (\E t \in Targets : RegisterCommTarget(t))
        \/ \E i \in Items, kind \in Incoming \cup {"execute"} : Arrives(i, kind)
        \/ Receives
        \/ \E i \in Items : Passes(i) \/ Hook(i) \/ Handles(i)
    BY <1>1 DEF WidgetsNext, Chains, Webview
  <2> QED
    BY <2>1, KernelCreatedStep, SessionStartsStep, SessionLostStep, KernelRestartedStep, SessionRestartsStep,
       InitializingSteps, ArrivesStep, ReceivesStep, PassesStep, HookStep, HandlesStep
<1>2. CASE UNCHANGED widgetVars
  <2>1. UNCHANGED <<kernel, session, sessions, socket, sockets, announced, subscribed, listened, item,
                    fullHandle, outputWidget, widgets, posted, unhandled, reloads,
                    pendingTargets, registered, kernelTargets>>
    BY <1>2 DEF widgetVars, sessionVars, hookVars, webview, targetVars
  <2> QED
    BY <2>1 DEF DispatcherInv, WidgetsTypeOK, SocketsInv, ChainsInv, SameChain,
                ItemsInv, ItemInv,
                Elements, HandedOnce, TargetsInv
<1> QED BY <1>1, <1>2

LEMMA DispatcherInit ==
  ASSUME WidgetsInit
  PROVE  DispatcherInv
<1> USE WidgetBounds
<1>1. \A i \in Items : /\ item[i].kind = "open" /\ item[i].socket = 0
                         /\ item[i].pc = "unused" /\ ~item[i].full /\ item[i].on = 0
  BY DEF WidgetsInit
<1>2. WidgetsTypeOK
  <2>1. item \in [Items -> Item]
    BY DEF WidgetsInit, Item, Incoming
  <2>2. pendingTargets \in Seq(Targets)
    BY TargetNames DEF WidgetsInit
  <2>3. posted \in Seq(Items \cup {RestartMark}) /\ unhandled \subseteq Items
    BY DEF WidgetsInit
  <2>4. registered \subseteq Targets /\ kernelTargets \subseteq Targets
    BY DEF WidgetsInit
  <2>5. \A i \in Items : item[i].full => item[i].kind = "update"
    BY <1>1
  <2>6. /\ session = 0 /\ sessions = 0 /\ socket = 0 /\ sockets = 0 /\ subscribed = 0
        /\ listened = 0 /\ fullHandle = 0 /\ reloads = 0 /\ announced = "none"
        /\ outputWidget = FALSE /\ widgets = FALSE /\ kernel = FALSE
    BY DEF WidgetsInit
  <2>7. /\ session \in 0..MaxSessions /\ sessions \in 0..MaxSessions
        /\ socket \in 0..MaxSockets /\ sockets \in 0..MaxSockets
        /\ subscribed \in 0..MaxSessions /\ listened \in 0..MaxSockets
        /\ fullHandle \in 0..MaxItems /\ reloads \in 0..MaxReloads
        /\ announced \in Announcements
    BY <2>6 DEF Announcements
  <2>8. outputWidget \in BOOLEAN /\ widgets \in BOOLEAN /\ kernel \in BOOLEAN
    BY <2>6
  <2> QED BY <2>1, <2>2, <2>3, <2>4, <2>5, <2>7, <2>8 DEF WidgetsTypeOK
<1>3. SocketsInv /\ TargetsInv /\ HandedOnce
  BY DEF WidgetsInit, SocketsInv, TargetsInv, HandedOnce
<1>4. ChainsInv /\ ItemsInv
  BY <1>1 DEF WidgetsInit, ChainsInv, Busy, ItemsInv, ItemInv, Elements
<1> QED BY <1>2, <1>3, <1>4 DEF DispatcherInv

(* However many messages, sessions and sockets there are, the dispatcher   *)
(* stays sound: well typed, with fullHandleMessage there for the hook that *)
(* reads it again, and nothing waiting for the webview on a socket that    *)
(* was replaced.                                                           *)
THEOREM DispatcherStaysSound ==
  WidgetsSpec => []DispatcherIsSound
<1>1. DispatcherInv => DispatcherIsSound
  BY DEF DispatcherInv, ItemsInv, ItemInv, DispatcherIsSound,
         FullHandleIsThere, WaitersAreCurrent
<1>2. WidgetsInit => DispatcherInv
  BY DispatcherInit
<1>3. DispatcherInv /\ [WidgetsNext]_(widgetVars) => DispatcherInv'
  BY DispatcherStep
<1> QED BY <1>1, <1>2, <1>3, PTL DEF WidgetsSpec

(* The connection of a session that has restarted knows every target the   *)
(* dispatcher counts as registered, whether it was registered with a       *)
(* session, without one or before there was a kernel.                      *)
THEOREM RestartedTargetsAreKnown ==
  WidgetsSpec => []RestartRegistersTargets
<1>1. DispatcherInv => RestartRegistersTargets
  BY DEF DispatcherInv, TargetsInv, RestartRegistersTargets
<1>2. WidgetsInit => DispatcherInv
  BY DispatcherInit
<1>3. DispatcherInv /\ [WidgetsNext]_(widgetVars) => DispatcherInv'
  BY DispatcherStep
<1> QED BY <1>1, <1>2, <1>3, PTL DEF WidgetsSpec

(* The webview is never handed a later message of a socket the dispatcher  *)
(* listens to while it has an update that it must handle fully.            *)
THEOREM FullUpdatesComeFirst ==
  WidgetsSpec => []UpdatesAreHandledFirst
<1>1. ASSUME DispatcherInv, NEW i \in Items, NEW j \in Items,
             item[i].full, i < j, SameChain(i, j), item[i].socket = listened,
             InWebview(i), InWebview(j)
      PROVE  FALSE
  <2>1. ItemInv(i) /\ ItemInv(j)
    BY <1>1 DEF DispatcherInv, ItemsInv
  <2>2. Busy(item[i].pc)
    BY <1>1, <2>1 DEF ItemInv, InWebview, Busy
  <2>3. item[j].pc \in {"unused", "queued"}
    BY <1>1, <2>2 DEF DispatcherInv, ChainsInv
  <2> QED BY <1>1, <2>1, <2>3 DEF ItemInv, InWebview
<1>2. DispatcherInv => UpdatesAreHandledFirst
  BY <1>1 DEF UpdatesAreHandledFirst
<1>3. WidgetsInit => DispatcherInv
  BY DispatcherInit
<1>4. DispatcherInv /\ [WidgetsNext]_(widgetVars) => DispatcherInv'
  BY DispatcherStep
<1> QED BY <1>2, <1>3, <1>4, PTL DEF WidgetsSpec
=============================================================================
