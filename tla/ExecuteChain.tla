----------------------------- MODULE ExecuteChain -----------------------------
(***************************************************************************)
(* How execute requests of cells reach a kernel: ChainingExecuteRequester  *)
(* and DelayedFutureExecute (kernels/common), and the id by which the      *)
(* message handler of a cell (execution/cellExecutionMessageHandler.ts)    *)
(* knows what answers its request.                                         *)
(*                                                                         *)
(* Cells of two queues may execute at once (OneActiveCell in               *)
(* KernelExecution), so a request may be made while another one is         *)
(* pending.  It is then held back in a DelayedFutureExecute.               *)
(*                                                                         *)
(* Requests and kernels are numbered in the order they are made.           *)
(***************************************************************************)
EXTENDS Integers

CONSTANTS
    MaxRequests,   \* bound: how many cells are sent
    MaxKernels,    \* bound: a local restart replaces the kernel by the next
    MaxDrops       \* bound: how often the connection to a kernel is lost

ASSUME BoundsAssumption ==
    MaxRequests \in Nat /\ MaxKernels \in Nat \ {0} /\ MaxDrops \in Nat

Requests == 1..MaxRequests
Kernels == 1..MaxKernels
None == 0

VARIABLES
    nRequests,        \* requests made so far
    request,          \* the futures requestExecute() returned
    previousExecute,  \* the last one, or None once it is done
    kernel,           \* the kernel of the session
    status,           \* status of each kernel connection
    drops             \* how often each connection was lost

vars == <<nRequests, request, previousExecute, kernel, status, drops>>

(* link is what the future waits for before it is sent, future is the one  *)
(* JupyterLab made when the code was sent, done is the promise the cell    *)
(* awaits.  ownedId is the msg_id the handler of the cell looks for; the   *)
(* id '1' of a future that is held back is None.                           *)
RequestRec ==
    [kernel : 0..MaxKernels, link : 0..MaxRequests, linked : BOOLEAN,
     future : {"none", "sent", "replied", "rejected"},
     done : {"pending", "resolved", "rejected"},
     listens : BOOLEAN, disposed : BOOLEAN, ownedId : 0..MaxRequests]

TypeOK ==
    /\ nRequests \in 0..MaxRequests
    /\ request \in [Requests -> RequestRec]
    /\ previousExecute \in 0..nRequests
    /\ kernel \in Kernels
    /\ status \in [Kernels -> {"ok", "unknown", "dead"}]
    /\ drops \in [Kernels -> 0..MaxDrops]

NotMade ==
    [kernel |-> None, link |-> None, linked |-> FALSE, future |-> "none",
     done |-> "pending", listens |-> FALSE, disposed |-> FALSE, ownedId |-> None]

Init ==
    /\ nRequests = 0
    /\ request = [r \in Requests |-> NotMade]
    /\ previousExecute = None
    /\ kernel = 1
    /\ status = [k \in Kernels |-> "ok"]
    /\ drops = [k \in Kernels |-> 0]

Made == 1..nRequests
Pending(r) == request[r].done = "pending"

\* A deferred keeps the first value it is settled with.
Settle(r, value) == IF Pending(r) THEN value ELSE request[r].done

\* Faulty variant: any future that is done makes requestExecute() forget.
ForgetOnAnyDone == previousExecute' =
    IF \E r \in Made : Pending(r) /\ request'[r].done # "pending"
    THEN None ELSE previousExecute

(* requestExecute() forgets the last future when it is done.               *)
ForgetIfDone == previousExecute' =
    IF previousExecute # None /\ request'[previousExecute].done # "pending"
    THEN None ELSE previousExecute

(* The promise of the link has settled: a microtask is due.                *)
LinkDue(r) == request[r].linked /\ ~Pending(request[r].link)
NoLinkDue == \A r \in Requests : ~LinkDue(r)

-----------------------------------------------------------------------------
ChainIsBusy == \E r \in Made : r = previousExecute /\ request[r].kernel = kernel

(* requestExecute() while the previous request of this kernel is pending.  *)
(* The constructor runs the status handler at once.                        *)
ExecuteDelayed(r) ==
    /\ ChainIsBusy
    /\ request' = [request EXCEPT ![r] =
          [NotMade EXCEPT !.kernel = kernel, !.link = previousExecute, !.linked = TRUE,
                          !.listens = TRUE,
                          !.done = IF status[kernel] = "ok" THEN "pending" ELSE "rejected"]]
    /\ previousExecute' = IF status[kernel] = "ok" THEN r ELSE None

(* A dead kernel makes JupyterLab throw: nothing is sent or remembered.    *)
ExecuteAtOnce(r) ==
    /\ ~ChainIsBusy
    /\ \/ /\ status[kernel] = "dead"
          /\ request' = [request EXCEPT ![r] =
                           [NotMade EXCEPT !.kernel = kernel, !.done = "rejected"]]
          /\ UNCHANGED previousExecute
       \/ /\ status[kernel] # "dead"
          /\ request' = [request EXCEPT ![r] =
                           [NotMade EXCEPT !.kernel = kernel, !.future = "sent",
                                           !.ownedId = r]]
          /\ previousExecute' = r

Execute ==
    /\ NoLinkDue
    /\ nRequests < MaxRequests
    /\ nRequests' = nRequests + 1
    /\ ExecuteDelayed(nRequests + 1) \/ ExecuteAtOnce(nRequests + 1)
    /\ UNCHANGED <<kernel, status, drops>>

\* Faulty variants: the code is sent even if the link was rejected; a rejected
\* link is swallowed.
LinkSettlesEitherWay(r) ==
    /\ LinkDue(r)
    /\ request' = [request EXCEPT ![r].linked = FALSE, ![r].future = "sent"]
    /\ ForgetIfDone
    /\ UNCHANGED <<nRequests, kernel, status, drops>>

LinkRejectionSwallowed(r) ==
    /\ LinkDue(r)
    /\ request' = [request EXCEPT ![r].linked = FALSE,
          ![r].future = IF request[request[r].link].done = "rejected" THEN @ ELSE "sent"]
    /\ ForgetIfDone
    /\ UNCHANGED <<nRequests, kernel, status, drops>>

(* previousLink.done settled.  The code is sent whatever has become of the *)
(* future in the meantime; if the link was rejected, so is this one.       *)
LinkSettles(r) ==
    LET linkRejected == request[request[r].link].done = "rejected"
        throws == status[request[r].kernel] = "dead"
    IN  /\ LinkDue(r)
        /\ \/ /\ linkRejected \/ throws
              /\ request' = [request EXCEPT ![r].linked = FALSE,
                                            ![r].done = Settle(r, "rejected")]
           \/ /\ ~linkRejected /\ ~throws
              /\ request' = [request EXCEPT ![r].linked = FALSE, ![r].future = "sent"]
        /\ ForgetIfDone
        /\ UNCHANGED <<nRequests, kernel, status, drops>>

(* The cell is deleted or the notebook closed: the future is disposed.     *)
Dispose(r) ==
    /\ NoLinkDue
    /\ r \in Made /\ ~request[r].disposed
    /\ request' = [request EXCEPT ![r].disposed = TRUE, ![r].listens = FALSE,
          ![r].future = IF @ = "sent" THEN "rejected" ELSE @,
          ![r].done = IF request[r].future = "sent" THEN Settle(r, "rejected") ELSE @]
    /\ ForgetIfDone
    /\ UNCHANGED <<nRequests, kernel, status, drops>>

-----------------------------------------------------------------------------
Reply(r) ==
    /\ NoLinkDue
    /\ request[r].future = "sent" /\ status[request[r].kernel] = "ok"
    /\ request' = [request EXCEPT ![r].future = "replied",
                                  ![r].done = Settle(r, "resolved")]
    /\ ForgetIfDone
    /\ UNCHANGED <<nRequests, kernel, status, drops>>

(* The status of kernel k changes to one that ends the futures held back,  *)
(* and, unless only the connection is gone, JupyterLab rejects the others. *)
StatusEnds(k, futuresEnd) ==
    /\ request' = [r \in Requests |->
          IF request[r].kernel # k THEN request[r]
          ELSE [request[r] EXCEPT
                  !.future = IF @ = "sent" /\ futuresEnd THEN "rejected" ELSE @,
                  !.done = IF \/ request[r].listens
                              \/ request[r].future = "sent" /\ futuresEnd
                           THEN Settle(r, "rejected") ELSE @]]
    /\ ForgetIfDone
    /\ UNCHANGED <<nRequests, kernel>>

KernelDies(k) ==
    /\ NoLinkDue
    /\ k <= kernel /\ status[k] # "dead"
    /\ status' = [status EXCEPT ![k] = "dead"]
    /\ StatusEnds(k, TRUE)
    /\ UNCHANGED drops

(* An automatic restart, or one of a remote server: the kernel keeps its id*)
KernelRestartsInPlace(k) ==
    /\ NoLinkDue
    /\ k = kernel
    /\ status' = [status EXCEPT ![k] = "ok"]
    /\ StatusEnds(k, TRUE)
    /\ UNCHANGED drops

ConnectionLost(k) ==
    /\ NoLinkDue
    /\ k <= kernel /\ status[k] = "ok" /\ drops[k] < MaxDrops
    /\ drops' = [drops EXCEPT ![k] = @ + 1]
    /\ status' = [status EXCEPT ![k] = "unknown"]
    /\ StatusEnds(k, FALSE)

ConnectionBack(k) ==
    /\ NoLinkDue
    /\ status[k] = "unknown"
    /\ status' = [status EXCEPT ![k] = "ok"]
    /\ UNCHANGED <<nRequests, request, previousExecute, kernel, drops>>

(* BaseJupyterSession.restart(): the session has a new kernel; the old one *)
(* is shut down later.                                                     *)
SwitchKernel ==
    /\ NoLinkDue
    /\ kernel < MaxKernels
    /\ kernel' = kernel + 1
    /\ UNCHANGED <<nRequests, request, previousExecute, status, drops>>

Next ==
    \/ Execute \/ SwitchKernel
    \/ \E r \in Requests : LinkSettles(r) \/ Dispose(r) \/ Reply(r)
    \/ \E k \in Kernels :
          \/ KernelDies(k) \/ KernelRestartsInPlace(k)
          \/ ConnectionLost(k) \/ ConnectionBack(k)

Spec == Init /\ [][Next]_vars

(* Microtasks run, the kernel gets to the end of the code it was sent, and *)
(* JupyterLab reconnects or gives up.                                      *)
FairSpec ==
    /\ Spec
    /\ \A r \in Requests : WF_vars(LinkSettles(r)) /\ WF_vars(Reply(r))
    /\ \A k \in Kernels : WF_vars(ConnectionBack(k) \/ KernelDies(k))

-----------------------------------------------------------------------------
(* Properties.                                                             *)

SameKernel(r, t) == request[r].kernel = request[t].kernel
NeverLost(r) == drops[request[r].kernel] = 0

(* "so we don't queue up more than one of these at a time": a kernel has   *)
(* one future of a cell that is sent and not answered, unless its          *)
(* connection was lost in between.  A lost connection ends the futures     *)
(* held back but not the code that runs, and the chain then starts anew.   *)
(* A future that was disposed is gone, though its code may still run.      *)
OneRequestAtATime ==
    \A r, t \in Made :
        (/\ SameKernel(r, t) /\ NeverLost(r)
         /\ request[r].future = "sent" /\ request[t].future = "sent") => r = t

(* A future that is sent is one its cell still awaits: code does not run on*)
(* behind a cell that has its result, with the same exception.             *)
WhatRunsIsAwaited ==
    \A r \in Made : (request[r].future = "sent" /\ NeverLost(r)) => Pending(r)

(* Cells are done in the order in which they were run.                     *)
DoneInOrder ==
    NoLinkDue =>
        \A r, t \in Made :
            (r < t /\ SameKernel(r, t) /\ NeverLost(r) /\ ~Pending(t)) => ~Pending(r)

-----------------------------------------------------------------------------
(* The invariant behind these.                                             *)

(* Requests know their kernel, and kernels are used one after the other.   *)
RequestsHaveKernels ==
    /\ \A r \in Requests \ Made : request[r] = NotMade
    /\ \A r \in Made : request[r].kernel \in 1..kernel
    /\ \A r, t \in Made : r < t => request[r].kernel <= request[t].kernel

(* A future that is held back waits for the request made just before it, a *)
(* pending one is held back or sent, and one that ended early is not sent  *)
(* later because its link was not resolved.                                *)
LinksAreInOrder ==
    \A r \in Made :
        /\ request[r].linked => /\ request[r].link = r - 1 /\ r - 1 \in Made
                                /\ SameKernel(r - 1, r)
                                /\ request[r].future = "none"
        /\ Pending(r) => request[r].linked \/ request[r].future = "sent"
        /\ (request[r].linked /\ NeverLost(r) /\ ~Pending(r))
              => request[r - 1].done # "resolved"

(* The last future is remembered for as long as it is pending.             *)
ChainIsRemembered ==
    /\ previousExecute # None =>
          /\ Pending(previousExecute)
          /\ request[previousExecute].kernel = kernel => previousExecute = nRequests
    /\ (nRequests # 0 /\ request[nRequests].kernel = kernel /\ Pending(nRequests))
          => previousExecute = nRequests

(* The requests of a kernel are done in order, or all that remain of them  *)
(* are held back by one that was rejected, and will be rejected in turn.   *)
OnKernel(k) == {r \in Made : request[r].kernel = k}
InOrder(k) ==
    \A r, t \in OnKernel(k) : (r < t /\ ~Pending(t)) => ~Pending(r)
Ended(k) ==
    \A r \in OnKernel(k) : Pending(r) =>
        request[r].linked /\ request[r - 1].done # "resolved"
KernelsAreInOrderOrEnded ==
    \A k \in Kernels :
        /\ status[k] = "unknown" => drops[k] > 0
        /\ drops[k] = 0 => /\ InOrder(k) \/ Ended(k)
                           /\ status[k] = "dead" => Ended(k)

(* What was sent to a kernel was sent after all before it was done.        *)
SentInOrder ==
    \A r, t \in Made :
        (r < t /\ SameKernel(r, t) /\ NeverLost(t) /\ request[t].future = "sent")
            => ~Pending(r)

ChainInv == /\ RequestsHaveKernels /\ LinksAreInOrder /\ ChainIsRemembered
            /\ KernelsAreInOrderOrEnded /\ SentInOrder /\ WhatRunsIsAwaited

-----------------------------------------------------------------------------
(* Every request is done at last if the kernel gets to the end of the code:*)
(* no chain of futures waits on itself or on one that is gone.             *)
RequestsAreDone == \A r \in Requests : r \in Made ~> ~Pending(r)

(* "List of msg_ids of requests sent either as part of request_execute":   *)
(* the handler of a cell that awaits a request knows the id under which it *)
(* was sent, without which it takes no message for its cell.  This does    *)
(* not hold of a request that was held back: its id is read when it is     *)
(* made, not when it is sent.                                              *)
HandlersKnowTheirRequest ==
    \A r \in Made : (request[r].future = "sent" /\ Pending(r)) => request[r].ownedId = r
=============================================================================
