-------------------------- MODULE KernelConnections --------------------------
(***************************************************************************)
(* KernelConnector and KernelProvider, for one notebook: whoever needs the *)
(* kernel of the notebook calls wrapKernelMethod to start, interrupt or    *)
(* restart it, and gets the kernel that is connected in the end.           *)
(*                                                                         *)
(* The provider maps the notebook to one kernel, as long as its connection *)
(* is the one asked for.  The connector caches, for all calls that want    *)
(* the kernel started, the promise of one connection: a loop that starts   *)
(* the kernel, asks the user what to do about an error or a dead kernel,   *)
(* and tries again.  Calls with and without UI share connections: one that *)
(* is joined by a call with UI shows its errors from then on.              *)
(*                                                                         *)
(* A call or a loop that goes on at once, without waiting for anything, is *)
(* a step of its own where that keeps the actions simple.                  *)
(***************************************************************************)
EXTENDS Naturals

CONSTANTS MaxCalls,         \* bound: calls of wrapKernelMethod, in their order
          MaxConnections,   \* bound: loops begun, in this order
          MaxKernels        \* bound: kernels created, in this order

ASSUME ConnectionBounds == /\ MaxCalls \in Nat
                           /\ MaxConnections \in Nat
                           /\ MaxKernels \in Nat

Calls == 1..MaxCalls
Connections == 1..MaxConnections
Kernels == 1..MaxKernels
Controllers == {"A", "B"}   \* with the metadata of their kernels
Contexts == {"start", "interrupt", "restart"}

VARIABLES kernel,       \* kernel[k]: the Kernel
          mapped,       \* kernelsByNotebook: the kernel of the notebook, or 0
          connection,   \* connection[e]: a call of wrapKernelMethodImpl
          cached,       \* connectionsByNotebook: the connection cached, or 0
          call          \* call[c]: a call of wrapKernelMethod

vars == <<kernel, mapped, connection, cached, call>>

Kernel == [life: {"none", "fresh", "starting", "live", "dead"},
           controller: Controllers,
           disposing: BOOLEAN,
           disposed: BOOLEAN]

Connection == [pc: {"unused", "method", "prompt", "restart", "lastPrompt",
                    "lastRestart", "handling", "choosing", "retry", "done", "failed"},
               context: Contexts,          \* what it was begun for
               method: Contexts,           \* what it calls
               ui: BOOLEAN,
               controller: Controllers,
               kernel: 0..MaxKernels,
               deadKernel: {"notAsked", "restarted", "notRestarted"}]

Call == [pc: {"new", "waiting", "again", "done", "failed"},
         ui: BOOLEAN,
         on: 0..MaxConnections,
         kernel: 0..MaxKernels,            \* the kernel it returned
         gone: SUBSET Kernels]             \* see GoneNow

TypeOK == /\ kernel \in [Kernels -> Kernel]
          /\ mapped \in 0..MaxKernels
          /\ connection \in [Connections -> Connection]
          /\ cached \in 0..MaxConnections
          /\ call \in [Calls -> Call]
          /\ cached # 0 => connection[cached].pc # "unused"
          /\ \A c \in Calls : call[c].pc = "waiting" =>
                connection[call[c].on].pc \notin {"unused", "done", "failed"}

Init == /\ kernel = [k \in Kernels |-> [life |-> "none", controller |-> "A",
                                        disposing |-> FALSE, disposed |-> FALSE]]
        /\ mapped = 0
        /\ connection = [e \in Connections |->
              [pc |-> "unused", context |-> "start", method |-> "start", ui |-> FALSE,
               controller |-> "A", kernel |-> 0, deadKernel |-> "notAsked"]]
        /\ cached = 0
        /\ call = [c \in Calls |-> [pc |-> "new", ui |-> FALSE, on |-> 0,
                                    kernel |-> 0, gone |-> {}]]
-----------------------------------------------------------------------------
(***************************************************************************)
(* The provider.                                                           *)
(***************************************************************************)

\* Kernel.dispose(): a kernel that is starting awaits its start first.
DisposedKernel(r) == [r EXCEPT !.disposing = TRUE,
                               !.disposed = @ \/ r.life # "starting"]

\* Its event onDisposed: connections that had resolved are forgotten.
ForgottenWith(D) == IF /\ cached # 0 /\ connection[cached].pc = "done"
                       /\ connection[cached].kernel \in {k \in D : ~kernel[k].disposed}
                    THEN 0 ELSE cached

\* disposeOldKernel(): what k replaces.
\* Faulty variant: the kernel is replaced in the map only.
OldKernelKept(k) == {}

OldKernel(k) == {mapped} \ {0, k}

\* getOrCreate() of a kernel for a controller; k is what it returns.
GetOrCreate(controller, k) ==
    IF mapped # 0 /\ kernel[mapped].controller = controller THEN k = mapped
    ELSE kernel[k].life = "none" /\ \A j \in 1..k - 1 : kernel[j].life # "none"

\* The kernels after it, and after Kernel.start() of k if that is called.
KernelsAfter(controller, k, starts) ==
    [j \in Kernels |->
        IF j \in OldKernel(k) THEN DisposedKernel(kernel[j])
        ELSE IF j # k THEN kernel[j]
        ELSE LET r == IF kernel[k].life = "none"
                      THEN [kernel[k] EXCEPT !.life = "fresh", !.controller = controller]
                      ELSE kernel[k]
             IN  IF starts /\ r.life \in {"fresh", "dead"}
                 THEN [r EXCEPT !.life = "starting"] ELSE r]

OldKernelDisposed(k) == {j \in OldKernel(k) : kernel[j].life # "starting"}
-----------------------------------------------------------------------------
(***************************************************************************)
(* verifyKernelState(): call record r, which waited for connection e, goes *)
(* on.  A kernel that died meanwhile is dealt with in a new connection     *)
(* unless the user has just been asked about it.                           *)
(***************************************************************************)
Verified(r, e, k, dead) ==
    CASE ~dead -> [r EXCEPT !.pc = "done", !.kernel = k]
      [] dead /\ e.deadKernel = "restarted" -> [r EXCEPT !.pc = "done", !.kernel = k]
      [] dead /\ e.deadKernel = "notRestarted" -> [r EXCEPT !.pc = "failed"]
      [] OTHER -> [r EXCEPT !.pc = "again"]

\* Connections in E have resolved with kernel k, after the events in `with`.
Resolved(E, k, deadKernel, with) ==
    LET dead == kernel'[k].life = "dead"
        seen == \E c \in Calls : call[c].pc = "waiting" /\ call[c].on \in E
        done(e) == [connection[e] EXCEPT !.pc = "done", !.deadKernel = deadKernel]
    IN  /\ connection' = [e \in Connections |-> IF e \in E THEN done(e) ELSE connection[e]]
        /\ call' = [c \in Calls |->
              IF call[c].pc = "waiting" /\ call[c].on \in E
              THEN Verified(call[c], done(call[c].on), k, dead) ELSE call[c]]
        /\ cached' = IF dead /\ seen /\ cached \in E THEN 0 ELSE ForgottenWith(with)

\* The method or restart of the connections in E throws.  Without UI that is
\* the end of them; deleteKernelInfo() deletes nothing but their own entry.
Failed(E) == IF cached \in E THEN 0 ELSE cached

CallsFail(E) == [c \in Calls |-> IF call[c].pc = "waiting" /\ call[c].on \in E
                                 THEN [call[c] EXCEPT !.pc = "failed"] ELSE call[c]]

Threw(E) ==
    LET silent == {e \in E : ~connection[e].ui}
    IN  /\ connection' = [e \in Connections |->
              IF e \in silent THEN [connection[e] EXCEPT !.pc = "failed"]
              ELSE IF e \in E THEN [connection[e] EXCEPT !.pc = "handling"]
              ELSE connection[e]]
        /\ call' = CallsFail(silent)
        /\ cached' = Failed(silent)
-----------------------------------------------------------------------------
(***************************************************************************)
(* Calls of wrapKernelMethod.                                              *)
(***************************************************************************)

\* One turn of the loop of connection e: a kernel that is known to be dead
\* is not touched before the user was asked.
Turn(e, r, connections) ==
    \E k \in Kernels :
        LET dead == kernel[k].life = "dead" /\ k = mapped
            asks == dead /\ r.ui /\ r.context # "restart"
        IN  /\ GetOrCreate(r.controller, k)
            /\ kernel' = KernelsAfter(r.controller, k, ~asks /\ r.method = "start")
            /\ mapped' = k
            /\ connection' = [connections EXCEPT ![e] =
                  [r EXCEPT !.kernel = k, !.pc = IF asks THEN "prompt" ELSE "method"]]

\* A call with UI makes the connection it finds show its errors.
\* Faulty variant: it does not.
ShownNever(ui) == connection

Shown(ui) == IF ui /\ cached # 0 THEN [connection EXCEPT ![cached].ui = TRUE]
             ELSE connection

\* A call with UI does not take a kernel that is gone from the cache.
\* Faulty variant: it does.
GoneNever(ui) == FALSE

Gone(ui) == LET k == connection[cached].kernel
            IN  /\ ui /\ cached # 0
                /\ connection[cached].pc = "done"
                /\ kernel[k].disposing \/ kernel[k].disposed

Wrap(c, context, ui, controller, gone) ==
    LET r == [pc |-> "waiting", ui |-> ui, on |-> cached, kernel |-> 0, gone |-> gone]
        joins == context = "start" /\ cached # 0 /\ ~Gone(ui)
        k == connection[cached].kernel
        dead == kernel[k].life = "dead"
        resolved == connection[cached].pc = "done"
    IN  \/ /\ joins
           /\ connection' = Shown(ui)
           /\ call' = [call EXCEPT ![c] = IF resolved
                          THEN Verified(r, connection[cached], k, dead) ELSE r]
           /\ cached' = IF resolved /\ dead THEN 0 ELSE cached
           /\ UNCHANGED <<kernel, mapped>>
        \/ /\ ~joins
           /\ \E e \in Connections :
                 /\ connection[e].pc = "unused"
                 /\ \A d \in 1..e - 1 : connection[d].pc # "unused"
                 /\ Turn(e, [pc |-> "method", context |-> context, method |-> context,
                             ui |-> ui, controller |-> controller, kernel |-> 0,
                             deadKernel |-> "notAsked"], Shown(ui))
                 /\ cached' = e
                 /\ call' = [call EXCEPT ![c] = [r EXCEPT !.on = e]]

IsNext(c) == call[c].pc = "new" /\ \A d \in 1..c - 1 : call[d].pc # "new"

\* What the call must not return: the kernels disposed when it is made, if it
\* finds no connection that is pending.
GoneNow == {k \in Kernels : /\ kernel[k].disposed
                            /\ cached # 0 => connection[cached].pc = "done"}

\* Cells are run, and kernels interrupted and restarted, with UI.
WrapKernelMethod(c, context, controller) ==
    /\ IsNext(c)
    /\ context = "start" \/ mapped # 0
    /\ Wrap(c, context, TRUE, controller, GoneNow)

\* A controller is selected: its kernel becomes that of the notebook, and is
\* then started without UI.
ControllerSelected(controller) ==
    \E k \in Kernels :
        /\ mapped # 0 => kernel[mapped].controller # controller
        /\ GetOrCreate(controller, k)
        /\ kernel' = KernelsAfter(controller, k, FALSE)
        /\ mapped' = k
        /\ cached' = ForgottenWith(OldKernelDisposed(k))
        /\ UNCHANGED <<connection, call>>

AutoStart(c) == /\ IsNext(c) /\ mapped # 0
                /\ Wrap(c, "start", FALSE, kernel[mapped].controller, GoneNow)

\* A call whose kernel died connects anew, to the controller of that kernel.
WrapAgain(c) == /\ call[c].pc = "again"
                /\ Wrap(c, "start", call[c].ui,
                        kernel[connection[call[c].on].kernel].controller, call[c].gone)
-----------------------------------------------------------------------------
(***************************************************************************)
(* Kernels.                                                                *)
(***************************************************************************)
Starting(k) == {e \in Connections : /\ connection[e].pc = "method"
                                    /\ connection[e].method = "start"
                                    /\ connection[e].kernel = k}

\* A start ends.  If the kernel was disposed meanwhile, it is now, and that
\* before the connections that wait for it can listen to it.
StartReturns(k) ==
    /\ kernel[k].life = "starting"
    /\ kernel' = [kernel EXCEPT ![k].life = "live", ![k].disposed = kernel[k].disposing]
    /\ mapped' = IF kernel[k].disposing /\ mapped = k THEN 0 ELSE mapped
    /\ Resolved(Starting(k), k, "notAsked",
                IF kernel[k].disposing THEN {k} ELSE {})

\* A start fails, also because the kernel was disposed: which that disposal
\* does not survive, so that the kernel never counts as disposed.
StartThrows(k) ==
    /\ kernel[k].life = "starting"
    /\ kernel' = [kernel EXCEPT ![k].life = "fresh"]
    /\ Threw(Starting(k))
    /\ UNCHANGED mapped

Dies(k) == /\ kernel[k].life = "live" /\ ~kernel[k].disposed
           /\ kernel' = [kernel EXCEPT ![k].life = "dead"]
           /\ UNCHANGED <<mapped, connection, cached, call>>
-----------------------------------------------------------------------------
(***************************************************************************)
(* The loop of a connection.                                               *)
(***************************************************************************)
At(e, pc) == connection[e].pc = pc

Move(e, pc) == /\ connection' = [connection EXCEPT ![e].pc = pc]
               /\ UNCHANGED <<kernel, mapped, cached, call>>

\* The method returned: Kernel.start() of a kernel that runs, or another.
MethodReturns(e) ==
    LET k == connection[e].kernel
        r == connection[e]
        life == IF r.method = "restart" /\ ~kernel[k].disposed THEN "live"
                ELSE kernel[k].life
    IN  /\ At(e, "method")
        /\ r.method = "start" => kernel[k].life # "starting"
        /\ IF life = "dead" /\ r.ui THEN Move(e, "lastPrompt")
           ELSE /\ kernel' = [kernel EXCEPT ![k].life = life]
                /\ Resolved({e}, k, "notAsked", {})
                /\ UNCHANGED mapped

\* An interrupt or a restart throws; a restart that fails kills the kernel.
MethodThrows(e) ==
    LET k == connection[e].kernel
    IN  /\ At(e, "method") /\ connection[e].method # "start"
        /\ kernel' = IF connection[e].method = "restart" /\ kernel[k].life = "live"
                     THEN [kernel EXCEPT ![k].life = "dead"] ELSE kernel
        /\ Threw({e})
        /\ UNCHANGED mapped

\* notifyAndRestartDeadKernel(), before the method or after it.
RestartChosen(e) == \/ At(e, "prompt") /\ Move(e, "restart")
                    \/ At(e, "lastPrompt") /\ Move(e, "lastRestart")

RestartDeclined(e) ==
    /\ At(e, "prompt") \/ At(e, "lastPrompt")
    /\ UNCHANGED <<kernel, mapped>>
    /\ Resolved({e}, connection[e].kernel,
                IF At(e, "prompt") THEN "notRestarted" ELSE "notAsked", {})

RestartReturns(e) ==
    LET k == connection[e].kernel
    IN  /\ At(e, "restart") \/ At(e, "lastRestart")
        /\ kernel' = IF kernel[k].disposed THEN kernel
                     ELSE [kernel EXCEPT ![k].life = "live"]
        /\ Resolved({e}, k, IF At(e, "restart") THEN "restarted" ELSE "notAsked", {})
        /\ UNCHANGED mapped

RestartThrows(e) == /\ At(e, "restart") \/ At(e, "lastRestart")
                    /\ Threw({e})
                    /\ UNCHANGED <<kernel, mapped>>

(***************************************************************************)
(* handleKernelError(): once the user has dealt with the error, or it was  *)
(* a cancellation, the kernel is disposed, and the loop gives up, tries    *)
(* again or lets the user choose another controller.                       *)
(***************************************************************************)
Handled(e, next) ==
    LET k == connection[e].kernel
    IN  /\ At(e, "handling")
        /\ kernel' = [kernel EXCEPT ![k] = DisposedKernel(@)]
        /\ mapped' = IF kernel'[k].disposed /\ mapped = k THEN 0 ELSE mapped
        /\ connection' = [connection EXCEPT ![e].pc = next, ![e].method = "start"]
        /\ LET left == IF kernel'[k].disposed THEN ForgottenWith({k}) ELSE cached
           IN  IF next = "failed"
               THEN call' = CallsFail({e}) /\ cached' = IF left = e THEN 0 ELSE left
               ELSE cached' = left /\ UNCHANGED call

ControllerChosen(e, controller) ==
    /\ At(e, "choosing")
    /\ connection' = [connection EXCEPT ![e].controller = controller, ![e].pc = "retry"]
    /\ UNCHANGED <<kernel, mapped, cached, call>>

NoneChosen(e) == /\ At(e, "choosing")
                 /\ connection' = [connection EXCEPT ![e].pc = "failed"]
                 /\ call' = CallsFail({e})
                 /\ cached' = Failed({e})
                 /\ UNCHANGED <<kernel, mapped>>

Retry(e) == /\ At(e, "retry")
            /\ Turn(e, connection[e], connection)
            /\ cached' = ForgottenWith(OldKernelDisposed(mapped'))
            /\ UNCHANGED call
-----------------------------------------------------------------------------
Loop(e) == \/ MethodReturns(e) \/ MethodThrows(e)
           \/ RestartChosen(e) \/ RestartDeclined(e)
           \/ RestartReturns(e) \/ RestartThrows(e)
           \/ \E next \in {"failed", "choosing", "retry"} : Handled(e, next)
           \/ \E controller \in Controllers : ControllerChosen(e, controller)
           \/ NoneChosen(e) \/ Retry(e)

Next == \/ \E c \in Calls : \/ \E context \in Contexts, controller \in Controllers :
                                  WrapKernelMethod(c, context, controller)
                            \/ AutoStart(c) \/ WrapAgain(c)
        \/ \E controller \in Controllers : ControllerSelected(controller)
        \/ \E k \in Kernels : StartReturns(k) \/ StartThrows(k) \/ Dies(k)
        \/ \E e \in Connections : Loop(e)

Spec == Init /\ [][Next]_vars
-----------------------------------------------------------------------------
(***************************************************************************)
(* A kernel that is neither disposed nor being disposed is the one the     *)
(* notebook is mapped to: errors, retries and changes of controller, from  *)
(* whichever connection, leave no other kernel behind.                     *)
(***************************************************************************)
OneKernelPerNotebook ==
    \A k \in Kernels : kernel[k].life # "none" /\ ~kernel[k].disposing => mapped = k

(***************************************************************************)
(* A call with UI never returns a kernel that had been disposed before it  *)
(* was made, although the cache may still hold it; a call that joins one   *)
(* still pending gets what becomes of that.                                *)
(***************************************************************************)
CallsGetKernelsThatAreThere ==
    \A c \in Calls : call[c].ui => call[c].kernel \notin call[c].gone

(***************************************************************************)
(* A connection that failed is not cached: the next call tries again.      *)
(***************************************************************************)
FailuresAreNotCached == cached # 0 => connection[cached].pc # "failed"

(* What is kept for a notebook is sound: well typed, one kernel that is    *)
(* used, and no failure in the cache.                                      *)
NotebookIsSound == TypeOK /\ OneKernelPerNotebook /\ FailuresAreNotCached

(***************************************************************************)
(* A call with UI fails only after the user was asked about the error or   *)
(* the dead kernel, also if it joined a start without UI.                  *)
(***************************************************************************)
FailuresAreShown ==
    [][\A c \in Calls : call[c].ui /\ call[c].pc = "waiting" /\ call'[c].pc = "failed"
          => connection[call[c].on].pc \in {"handling", "choosing", "prompt"}]_vars
=============================================================================
