----------------------------- MODULE DaemonPool -----------------------------
(***************************************************************************)
(* PythonDaemonExecutionServicePool with the daemons it hands out: Python  *)
(* processes that run one request after the other, each in one of two      *)
(* pools.  A daemon taken from a pool comes back when its request is over  *)
(* and it answers a ping; otherwise a new one is made in its place.  With  *)
(* no daemon, or one that fails, a request runs in a Python process of its *)
(* own.                                                                    *)
(*                                                                         *)
(* A pool is given out when all its daemons are up, so that is the first   *)
(* state.  The counts of the options are parameters: 2 and 1 unless a      *)
(* caller says otherwise.  The end of the extension, which disposes        *)
(* everything, is not modelled.                                            *)
(***************************************************************************)
EXTENDS Naturals, Sequences, FiniteSets, Functions

CONSTANTS Standard,       \* requests whose result is awaited
          Observable,     \* requests whose output is observed
          NoRequest,
          StandardCount,  \* daemonCount
          ObservableCount,  \* observableDaemonCount
          MaxDaemons      \* bound: daemons made, in this order

ASSUME DaemonBounds == /\ Standard \cap Observable = {} /\ IsFiniteSet(Standard \cup Observable)
                       /\ NoRequest \notin Standard \cup Observable
                       /\ StandardCount \in Nat /\ ObservableCount \in Nat
                       /\ MaxDaemons \in Nat /\ MaxDaemons >= StandardCount + ObservableCount

Requests == Standard \cup Observable
Daemons == 1..MaxDaemons
Types == {"standard", "observable"}
Count(t) == IF t = "standard" THEN StandardCount ELSE ObservableCount
TypeOf(r) == IF r \in Standard THEN "standard" ELSE "observable"

VARIABLES daemon,    \* daemon[d]: see below
          pool,      \* pool[t]: daemons and observableDaemons
          request,   \* request[r]: see below
          failed     \* failed[t]: the daemons of t that could not be made

vars == <<daemon, pool, request, failed>>

Daemon == [use: {"none", "creating", "pool", "out", "testing", "replaced", "gone"},
           type: Types,
           alive: BOOLEAN,                      \* the process
           noticed: BOOLEAN,                    \* connectionClosedMessage is set
           disposed: BOOLEAN,
           runs: Requests \cup {NoRequest},     \* what the process runs
           replaces: 0..MaxDaemons]             \* the daemon it is made for

\* A request on its own is one that pythonExecutionService runs.
\* One that is abandoned is over for the caller, who disposed its daemon.
Request == [pc: {"new", "waiting", "running", "own", "done", "abandoned"},
            daemon: 0..MaxDaemons,              \* the daemon taken, or 0
            sent: BOOLEAN,                      \* it was given the request
            completed: BOOLEAN]                 \* completeHandler has run

InPool(t) == Range(pool[t])

TypeOK == /\ daemon \in [Daemons -> Daemon]
          /\ pool \in [Types -> Seq(Daemons)]
          /\ request \in [Requests -> Request]
          /\ failed \in [Types -> 0..MaxDaemons]
          /\ \A t \in Types :
                /\ InPool(t) = {d \in Daemons : daemon[d].use = "pool" /\ daemon[d].type = t}
                /\ IsInjective(pool[t])

\* After initialize().
Init == /\ daemon = [d \in Daemons |->
              [use |-> IF d <= StandardCount + ObservableCount THEN "pool" ELSE "none",
               type |-> IF d <= StandardCount THEN "standard" ELSE "observable",
               alive |-> d <= StandardCount + ObservableCount,
               noticed |-> FALSE, disposed |-> FALSE, runs |-> NoRequest, replaces |-> 0]]
        /\ pool = [t \in Types |-> [n \in 1..Count(t) |->
                                     IF t = "standard" THEN n ELSE StandardCount + n]]
        /\ request = [r \in Requests |->
                         [pc |-> "new", daemon |-> 0, sent |-> FALSE, completed |-> FALSE]]
        /\ failed = [t \in Types |-> 0]
-----------------------------------------------------------------------------
(***************************************************************************)
(* Making daemons and putting them back.                                   *)
(***************************************************************************)
IsUnused(n) == daemon[n].use = "none" /\ \A m \in 1..n - 1 : daemon[m].use # "none"

\* addDaemonService() in the place of d; old is what then becomes of d.
Replace(d, n, old) ==
    /\ IsUnused(n)
    /\ daemon' = [daemon EXCEPT ![d].use = old,
                                ![n] = [@ EXCEPT !.use = "creating", !.type = daemon[d].type,
                                                 !.replaces = IF old = "replaced" THEN d ELSE 0]]

\* dispose(): the process is killed.
Killed(r) == [r EXCEPT !.use = "gone", !.alive = FALSE, !.noticed = TRUE, !.disposed = TRUE]

Created(n) ==
    LET d == daemon[n].replaces
        t == daemon[n].type
        up == [daemon EXCEPT ![n].use = "pool", ![n].alive = TRUE]
    IN  /\ daemon[n].use = "creating"
        /\ daemon' = IF d = 0 THEN up ELSE [up EXCEPT ![d] = Killed(@)]
        /\ pool' = [pool EXCEPT ![t] = Append(@, n)]
        /\ UNCHANGED <<request, failed>>

\* The one it was made for is left as it is.
CreationFails(n) ==
    /\ daemon[n].use = "creating"
    /\ daemon' = [daemon EXCEPT ![n].use = "gone", ![n].noticed = TRUE]
    /\ failed' = [failed EXCEPT ![daemon[n].type] = @ + 1]
    /\ UNCHANGED <<pool, request>>

\* pushDaemonIntoPool(): a daemon that seems alive is tested first.
\* Faulty variant: it goes back at once.
PushedUntested(d) ==
    /\ daemon' = [daemon EXCEPT ![d].use = "pool"]
    /\ pool' = [pool EXCEPT ![daemon[d].type] = Append(@, d)]

Pushed(d) ==
    /\ UNCHANGED pool
    /\ IF ~daemon[d].alive
       THEN \E n \in Daemons : Replace(d, n, "replaced")
       ELSE daemon' = [daemon EXCEPT ![d].use = "testing"]

\* The process answers when it has no request to run, if it is in time.
PingAnswered(d) ==
    /\ daemon[d].use = "testing" /\ daemon[d].alive /\ daemon[d].runs = NoRequest
    /\ daemon' = [daemon EXCEPT ![d].use = "pool"]
    /\ pool' = [pool EXCEPT ![daemon[d].type] = Append(@, d)]
    /\ UNCHANGED <<request, failed>>

PingTimesOut(d) ==
    /\ daemon[d].use = "testing"
    /\ \E n \in Daemons : Replace(d, n, "replaced")
    /\ UNCHANGED <<pool, request, failed>>
-----------------------------------------------------------------------------
(***************************************************************************)
(* Requests.                                                               *)
(***************************************************************************)

\* The daemon is taken out of its pool.
Taken(t) == [pool EXCEPT ![t] = Tail(@)]

\* A daemon known to be dead does not get the request it was taken for, and
\* none gets one whose options it does not support.
Take(r) ==
    LET d == Head(pool[TypeOf(r)])
    IN  /\ pool[TypeOf(r)] # <<>>
        /\ pool' = Taken(TypeOf(r))
        /\ \E sent \in BOOLEAN :
              /\ sent => ~daemon[d].noticed
              /\ daemon' = [daemon EXCEPT ![d].use = "out", ![d].runs = IF sent THEN r ELSE @]
              /\ request' = [request EXCEPT ![r].daemon = d, ![r].sent = sent,
                                            ![r].pc = IF sent THEN "running" ELSE "own"]
        /\ UNCHANGED failed

RunsOnItsOwn(r) == /\ pool[TypeOf(r)] = <<>>
                   /\ request' = [request EXCEPT ![r].pc = "own"]
                   /\ UNCHANGED <<daemon, pool, failed>>

\* wrapCall(): waits a second for a daemon.
Call(r) == /\ r \in Standard
           /\ \/ (request[r].pc \in {"new", "waiting"} /\ Take(r))
              \/ /\ request[r].pc = "new" /\ pool["standard"] = <<>>
                 /\ request' = [request EXCEPT ![r].pc = "waiting"]
                 /\ UNCHANGED <<daemon, pool, failed>>
              \/ (request[r].pc = "waiting" /\ RunsOnItsOwn(r))

\* wrapObservableCall(): does not.
Observe(r) == /\ r \in Observable /\ request[r].pc = "new"
              /\ (Take(r) \/ RunsOnItsOwn(r))

\* The process has run the request; an error in the answer of an awaited one
\* makes that run again on its own.
ProcessFinishes(d) ==
    LET r == daemon[d].runs
    IN  /\ daemon[d].alive /\ r # NoRequest
        /\ daemon' = [daemon EXCEPT ![d].runs = NoRequest]
        /\ UNCHANGED <<pool, failed>>
        /\ request[r].pc # "running" => UNCHANGED request
        /\ request[r].pc = "running" =>
              \E pc \in {"done", "own"} :
                  /\ pc = "own" => r \in Standard
                  /\ request' = [request EXCEPT ![r].pc = pc]

\* The observer gets an error output while the process runs on.
StdErr(r) == /\ r \in Observable /\ request[r].pc = "running"
             /\ request' = [request EXCEPT ![r].pc = "done"]
             /\ UNCHANGED <<daemon, pool, failed>>

OwnProcessEnds(r) == /\ request[r].pc = "own"
                     /\ request' = [request EXCEPT ![r].pc = "done"]
                     /\ UNCHANGED <<daemon, pool, failed>>

\* A request that is over gives its daemon back, once.  An observed one does
\* so when its output ends and when the process does.
\* Faulty variant: each time.
CompletedNever(r) == FALSE

Completed(r) == request[r].completed

ReturnsDaemon(r) ==
    LET d == request[r].daemon
    IN  /\ d # 0 /\ ~Completed(r)
        /\ request[r].pc = "done" \/ (r \in Observable /\ ~daemon[d].alive)
        /\ request' = [request EXCEPT ![r].completed = TRUE]
        /\ IF r \in Standard \/ daemon[d].alive THEN Pushed(d)
           ELSE (\E n \in Daemons : Replace(d, n, "gone")) /\ UNCHANGED pool
        /\ UNCHANGED failed
-----------------------------------------------------------------------------
(***************************************************************************)
(* The end of a process.                                                   *)
(***************************************************************************)
Exits(d) == /\ daemon[d].alive
            /\ daemon' = [daemon EXCEPT ![d].alive = FALSE]
            /\ UNCHANGED <<pool, request, failed>>

\* The result of an observed request lets its holder dispose the daemon, also
\* when that is back in its pool or runs the request of another.  No one
\* rejects what it runs then.
ObserverDisposes(r) ==
    LET d == request[r].daemon
    IN  /\ r \in Observable /\ request[r].sent
        /\ request[r].pc = "running" \/ ~daemon[d].disposed
        /\ daemon' = [daemon EXCEPT ![d].alive = FALSE, ![d].noticed = TRUE,
                                    ![d].disposed = TRUE, ![d].runs = NoRequest]
        /\ request' = [request EXCEPT ![r].pc = IF @ = "running" THEN "abandoned" ELSE @]
        /\ UNCHANGED <<pool, failed>>

\* logConnectionStatus(): the end is noticed.  The request that was sent is
\* rejected: an awaited one runs again on its own, an observed one errors.
\* Faulty variant: nobody rejects it.
RejectedNever(d) == request

Rejected(d) ==
    LET r == daemon[d].runs
    IN  IF r = NoRequest \/ request[r].pc # "running" THEN request
        ELSE [request EXCEPT ![r].pc = IF r \in Standard THEN "own" ELSE "done"]

Noticed(d) == /\ daemon[d].use \notin {"none", "creating"} /\ ~daemon[d].alive /\ ~daemon[d].noticed
              /\ daemon' = [daemon EXCEPT ![d].noticed = TRUE, ![d].runs = NoRequest]
              /\ request' = Rejected(d)
              /\ UNCHANGED <<pool, failed>>
-----------------------------------------------------------------------------
Pool == \/ \E n \in Daemons : Created(n) \/ CreationFails(n)
        \/ \E d \in Daemons : PingAnswered(d) \/ PingTimesOut(d)

Next == \/ Pool
        \/ \E r \in Requests : \/ Call(r) \/ Observe(r) \/ StdErr(r) \/ OwnProcessEnds(r)
                               \/ ReturnsDaemon(r) \/ ObserverDisposes(r)
        \/ \E d \in Daemons : ProcessFinishes(d) \/ Exits(d) \/ Noticed(d)

Spec == Init /\ [][Next]_vars

(***************************************************************************)
(* A process that lives finishes what it runs, the end of one that does    *)
(* not is noticed, and a wait for a daemon is over after a second.  New    *)
(* requests, exits and what observers do are not fair, nor is the upkeep   *)
(* of the pools: no request needs it.                                      *)
(***************************************************************************)
FairSpec ==
    /\ Spec
    /\ \A r \in Requests :
          WF_vars(\/ request[r].pc = "waiting" /\ Call(r)
                  \/ OwnProcessEnds(r))
    /\ \A d \in Daemons : WF_vars(ProcessFinishes(d) \/ Noticed(d))
-----------------------------------------------------------------------------
(***************************************************************************)
(* A daemon serves one request: what is in a pool runs nothing and nobody  *)
(* holds it, and no two requests hold one daemon.  A request that errored  *)
(* while its process runs on, and one that ends in two ways, are what      *)
(* could break it (wrapObservableCall and pushDaemonIntoPool).             *)
(***************************************************************************)
Holds(r, d) == request[r].daemon = d /\ ~request[r].completed

DaemonsServeOne ==
    /\ \A t \in Types : \A d \in InPool(t) :
          daemon[d].runs = NoRequest /\ \A r \in Requests : ~Holds(r, d)
    /\ \A d \in Daemons : \A q, r \in Requests : Holds(q, d) /\ Holds(r, d) => q = r

(***************************************************************************)
(* The pools neither grow nor shrink: as many daemons of each type as the  *)
(* options ask for are in the pool, with a request, tested or being made,  *)
(* less those whose making failed (addDaemonService is not tried again).   *)
(* A daemon found dead twice, or a request that ends in two ways, must not *)
(* make two of one.                                                        *)
(***************************************************************************)
InUse(t) == {d \in Daemons : /\ daemon[d].type = t
                             /\ daemon[d].use \in {"pool", "out", "testing", "creating"}}

PoolsKeepTheirSize == \A t \in Types : failed[t] + Cardinality(InUse(t)) = Count(t)

(* The state of the pools is sound: well typed, and no daemon gets lost.   *)
PoolsAreSound == TypeOK /\ PoolsKeepTheirSize

(***************************************************************************)
(* Every awaited request returns, whatever becomes of the daemon it was    *)
(* given: the rejection of what was sent to a process that ended is what   *)
(* hands it over to a process of its own (baseDaemon.node.ts).             *)
(***************************************************************************)
AwaitedCallsReturn ==
    \A r \in Standard :
       request[r].pc \in {"waiting", "running", "own"} ~> request[r].pc = "done"

(***************************************************************************)
(* Every observed request ends for its observer, too, except one that a    *)
(* daemon runs when the holder of an earlier result disposes it: what      *)
(* would reject it is left alone then.                                     *)
(***************************************************************************)
LeftBehind(r) == request[r].pc = "running" /\ daemon[request[r].daemon].disposed

ObservedCallsEnd ==
    \A r \in Observable :
       request[r].pc \in {"running", "own"}
          ~> request[r].pc \in {"done", "abandoned"} \/ LeftBehind(r)

(* No call that the pool was asked for hangs, but those left behind.       *)
CallsReturn == AwaitedCallsReturn /\ ObservedCallsEnd
=============================================================================
