--------------------------- MODULE KernelLauncher ---------------------------
(***************************************************************************)
(* KernelLauncher and KernelProcess: every kernel that runs on this        *)
(* machine is a process of its own, which gets ports that no other kernel  *)
(* uses.                                                                   *)
(*                                                                         *)
(* A launch asks for ports, spawns the process and waits until it listens. *)
(* Its caller may cancel it in every one of these waits.  A cancelled      *)
(* launch throws at once, while the search and the spawning it began go on *)
(* behind its back: `search` and `process` are therefore fields of their   *)
(* own, next to the `stage` of the launch.                                 *)
(*                                                                         *)
(* The operators below are the steps of one launch; RawSessions composes   *)
(* them with what the owner of the launch does in the same task.  A step   *)
(* is a task of the event loop with all its promise continuations.         *)
(***************************************************************************)
EXTENDS Integers, FiniteSets, FiniteSetsExt

CONSTANTS MaxLaunches,     \* bound: launches made
          MaxPort,         \* bound: ports are 1..MaxPort (9000..65535)
          PortsPerKernel   \* ports that a kernel needs (5 in the code)

ASSUME LaunchBounds == /\ MaxLaunches \in Nat
                       /\ MaxPort \in Nat \ {0}
                       /\ PortsPerKernel \in Nat \ {0}

Launches == 1..MaxLaunches
Ports == 1..MaxPort

VARIABLES launch,      \* launch[k]: the k-th call of launch()
          usedPorts,   \* _usedPorts
          portChain    \* the launch whose search is in portChain, or 0

launcherVars == <<launch, usedPorts, portChain>>

Stages == {"unused", "ports", "launching", "launched", "failed"}
Searches == {"none", "queued", "searching", "found", "failed"}
Processes == {"none", "spawning", "running", "exited"}

Launch == [stage: Stages,
           search: Searches,        \* getConnectionPorts() of this launch
           behind: 0..MaxLaunches,  \* whose search it waits for
           from: Ports,             \* where findNextFreePort() looks next
           ports: SUBSET Ports,
           process: Processes,
           disposed: BOOLEAN]       \* the KernelProcess is disposed

Unlaunched == [stage |-> "unused", search |-> "none", behind |-> 0, from |-> 1,
               ports |-> {}, process |-> "none", disposed |-> FALSE]

LauncherInit == /\ launch = [k \in Launches |-> Unlaunched]
                /\ usedPorts = {}
                /\ portChain = 0

Unused == {k \in Launches : launch[k].stage = "unused"}

Running(k) == launch[k].process = "running"
-----------------------------------------------------------------------------
(***************************************************************************)
(* Ports.  The searches form a chain: a launch waits for the search it     *)
(* finds in portChain and then puts its own there.                         *)
(***************************************************************************)

\* Ports that portfinder finds taken: a process listens on them.
Bound == UNION {launch[k].ports : k \in {j \in Launches :
                  Running(j) /\ launch[j].stage # "launching"}}

\* portfinder.getPorts(n, from): the first free ports, or none are left.
FreeFrom(from) == {p \in Ports \ Bound : p >= from}
GetPorts(from) ==
    {p \in FreeFrom(from) :
        Cardinality({q \in FreeFrom(from) : q < p}) < PortsPerKernel}

CallLaunch(k) ==
    /\ k \in Unused
    /\ \A j \in Unused : k <= j
    /\ LET search == IF portChain = 0 THEN "found"
                     ELSE launch[portChain].search
       IN  \/ /\ search = "found"
              /\ launch' = [launch EXCEPT ![k].stage = "ports",
                                          ![k].search = "searching"]
              /\ portChain' = k
           \/ /\ search = "searching"
              /\ launch' = [launch EXCEPT ![k].stage = "ports",
                                          ![k].search = "queued",
                                          ![k].behind = portChain]
              /\ UNCHANGED portChain
           \/ /\ search = "failed"   \* a failed search stays in portChain
              /\ launch' = [launch EXCEPT ![k].stage = "failed",
                                          ![k].search = "failed"]
              /\ UNCHANGED portChain
    /\ UNCHANGED usedPorts

\* Faulty variant: launches that wait for a search are not resumed by it.
QueuedForgotten(k) == {j \in Launches : j = k /\ launch[j].search = "queued"}

Queued(k) == {j \in Launches : launch[j].search = "queued" /\ launch[j].behind = k}

\* Faulty variant: ports count as taken only while a process listens.
TakenIfBound(found) == found \cap Bound # {}

\* Ports that a launch was given, whether its process listens yet or not.
Taken(found) == found \cap usedPorts # {}

NextFrom(found) == Max(usedPorts \cup found)

\* All launches that wait for the same search go on together; the last of
\* them is what later launches wait for.
FindPorts(k) ==
    LET found == GetPorts(launch[k].from)
    IN  /\ launch[k].search = "searching"
        /\ Cardinality(found) = PortsPerKernel
        /\ IF Taken(found)
           THEN /\ launch' = [launch EXCEPT ![k].from = NextFrom(found)]
                /\ UNCHANGED <<usedPorts, portChain>>
           ELSE /\ usedPorts' = usedPorts \cup found
                /\ launch' = [j \in Launches |->
                      IF j = k
                      THEN [launch[k] EXCEPT
                              !.search = "found", !.ports = found,
                              !.stage = IF @ = "ports" THEN "launching" ELSE @,
                              !.process = IF launch[k].stage = "ports"
                                          THEN "spawning" ELSE @]
                      ELSE IF j \in Queued(k)
                      THEN [launch[j] EXCEPT !.search = "searching"]
                      ELSE launch[j]]
                /\ portChain' = IF Queued(k) = {} THEN portChain ELSE Max(Queued(k))

\* No ports are left, since other programs may listen on any: the launch
\* and those that wait for it fail.
Stranded(k) == {k} \cup Queued(k)
FindNoPorts(k) ==
    /\ launch[k].search = "searching"
    /\ launch' = [j \in Launches |->
          IF j \in Stranded(k) THEN [launch[j] EXCEPT !.search = "failed",
                                                      !.stage = "failed"]
          ELSE launch[j]]
    /\ UNCHANGED <<usedPorts, portChain>>
-----------------------------------------------------------------------------
(***************************************************************************)
(* The process: its connection file is written, its environment is         *)
(* activated, and it is spawned.  A KernelProcess that is disposed while   *)
(* the environment of a Python kernel is activated has no process to kill  *)
(* and spawns one all the same; before that, and for other kernels, it     *)
(* spawns none.  So Spawn may or may not come after a disposal.            *)
(***************************************************************************)
Spawn(k) ==
    /\ launch[k].process = "spawning"
    /\ launch' = [launch EXCEPT ![k].process = "running"]
    /\ UNCHANGED <<usedPorts, portChain>>

\* The ports are in use: launch() returns and watches for the exit.
Listening(k) ==
    /\ launch[k].stage = "launching" /\ Running(k)
    /\ launch' = [launch EXCEPT ![k].stage = "launched"]
    /\ UNCHANGED <<usedPorts, portChain>>

\* KernelProcess.dispose() of the processes in K, and their exit events: the
\* launcher, which watches the processes it returned, frees their ports.
DisposedProcess(l) ==
    [l EXCEPT !.disposed = TRUE,
              !.process = IF @ = "running" THEN "exited" ELSE @]

\* Faulty variant: the exit of a process frees no ports.
FreedByNone(K) == {p \in usedPorts : K = {}}

FreedBy(K) == UNION {launch[k].ports : k \in {j \in K :
                        launch[j].stage = "launched" /\ ~launch[j].disposed}}

Disposed(K) == [k \in Launches |-> IF k \in K /\ ~launch[k].disposed
                                   THEN DisposedProcess(launch[k]) ELSE launch[k]]

DisposeProcesses(K) == /\ launch' = Disposed(K)
                       /\ usedPorts' = usedPorts \ FreedBy(K)
                       /\ UNCHANGED portChain

\* launch() throws: it is cancelled or failed, and disposes its process.
ThrownLaunch(k) ==
    [launch EXCEPT ![k] = [(IF @.stage = "launching" THEN DisposedProcess(@) ELSE @)
                           EXCEPT !.stage = "failed"]]

\* The process ends by itself; one that is disposed tells nobody.
Exited(k) == [launch EXCEPT ![k].process = "exited"]

SpawnedTooLate(k) == launch[k].disposed /\ launch[k].process \in {"spawning", "running"}
=============================================================================
