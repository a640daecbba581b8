-------------------------- MODULE RawSessions_proofs --------------------------
(***************************************************************************)
(* Proofs about RawSessions and KernelLauncher, for any number of          *)
(* sessions, launches and ports.                                           *)
(***************************************************************************)
EXTENDS RawSessions, WellFoundedInduction, TLAPS

USE LaunchBounds, SessionBound DEF Launches, Ports, Sessions

-----------------------------------------------------------------------------
(* A set of numbers up to N has a greatest element, and that is Max.       *)
LEMMA SmallestOf ==
  ASSUME NEW T \in SUBSET Nat, T # {}
  PROVE  \E x \in T : \A y \in T : ~ (y < x)
<1> DEFINE R == OpToRel(<, Nat)
<1>1. IsWellFoundedOn(R, Nat)
  BY NatLessThanWellFounded
<1>2. \A x, y \in Nat : y < x => <<y, x>> \in R
  BY DEF OpToRel
<1> HIDE DEF R
<1>3. \E x \in T : \A y \in T : ~ (<<y, x>> \in R)
  BY <1>1, WFMin
<1> QED
  BY <1>2, <1>3

LEMMA MaxIsIn ==
  ASSUME NEW N \in Nat, NEW S \in SUBSET (1..N), S # {}
  PROVE  Max(S) \in S
<1> DEFINE T == {N - s : s \in S}
<1>1. \A s \in S : N - s \in Nat /\ N - s \in T
  OBVIOUS
<1>2. T \in SUBSET Nat /\ T # {}
  BY <1>1
<1>3. PICK x \in T : \A y \in T : ~ (y < x)
  BY <1>2, SmallestOf
<1>4. PICK m \in S : x = N - m
  BY <1>3
<1>5. ASSUME NEW y \in S
      PROVE  m >= y
  <2>1. ~ (N - y < N - m)
    BY <1>1, <1>3, <1>4
  <2>2. N \in Int /\ y \in Int /\ m \in Int
    OBVIOUS
  <2> QED
    BY <2>1, <2>2
<1> QED
  BY <1>5 DEF Max

-----------------------------------------------------------------------------
(* What the operations do to the fields of a launch.                       *)
LaunchesTyped == /\ launch \in [Launches -> Launch]
                 /\ usedPorts \subseteq Ports
                 /\ portChain \in 0..MaxLaunches

LEMMA DisposedFields ==
  ASSUME LaunchesTyped, NEW K, NEW k \in Launches
  PROVE  LET d == Disposed(K)[k]
         IN  /\ d \in Launch
             /\ d.stage = launch[k].stage
             /\ d.search = launch[k].search
             /\ d.ports = launch[k].ports
             /\ d.disposed = (launch[k].disposed \/ k \in K)
             /\ d.process = IF k \in K /\ ~launch[k].disposed /\ launch[k].process = "running"
                            THEN "exited" ELSE launch[k].process
  BY DEF LaunchesTyped, Disposed, DisposedProcess, Launch, Processes

LEMMA ThrownFields ==
  ASSUME LaunchesTyped, NEW j \in Launches, NEW k \in Launches
  PROVE  LET t == ThrownLaunch(j)[k]
         IN  /\ t \in Launch
             /\ t.stage = IF k = j THEN "failed" ELSE launch[k].stage
             /\ t.search = launch[k].search
             /\ t.ports = launch[k].ports
             /\ t.disposed = (launch[k].disposed \/ (k = j /\ launch[k].stage = "launching"))
             /\ t.process = IF k = j /\ launch[k].stage = "launching" /\ launch[k].process = "running"
                            THEN "exited" ELSE launch[k].process
  BY DEF LaunchesTyped, ThrownLaunch, DisposedProcess, Launch, Processes, Stages

LEMMA CallFields ==
  ASSUME LaunchesTyped, NEW k \in Launches, CallLaunch(k)
  PROVE  /\ LaunchesTyped'
         /\ \A j \in Launches \ {k} : launch'[j] = launch[j]
         /\ launch[k].stage = "unused"
         /\ \/ launch'[k].stage = "ports" /\ launch'[k].search \in {"queued", "searching"}
            \/ launch'[k].stage = "failed" /\ launch'[k].search = "failed"
         /\ launch'[k].ports = launch[k].ports
         /\ launch'[k].process = launch[k].process
         /\ launch'[k].disposed = launch[k].disposed
         /\ usedPorts' = usedPorts
<1> DEFINE a == [launch[k] EXCEPT !.stage = "ports", !.search = "searching"]
           b == [launch[k] EXCEPT !.stage = "failed", !.search = "failed"]
           c == [launch[k] EXCEPT !.stage = "ports", !.search = "queued", !.behind = portChain]
<1>1. launch[k] \in Launch
  BY DEF LaunchesTyped
<1>2. /\ a \in Launch /\ b \in Launch /\ c \in Launch
      /\ a.stage = "ports" /\ b.stage = "failed" /\ c.stage = "ports"
      /\ a.search = "searching" /\ b.search = "failed" /\ c.search = "queued"
      /\ \A x \in {a, b, c} : /\ x.ports = launch[k].ports
                              /\ x.process = launch[k].process
                              /\ x.disposed = launch[k].disposed
  BY <1>1 DEF LaunchesTyped, Launch, Stages, Searches
<1>3. PICK x \in {a, b, c} : launch' = [launch EXCEPT ![k] = x]
  BY <1>1 DEF CallLaunch, LaunchesTyped
<1>4. portChain' \in 0..MaxLaunches /\ usedPorts' = usedPorts /\ launch[k].stage = "unused"
  BY DEF CallLaunch, Unused, LaunchesTyped
<1> HIDE DEF a, b, c
<1>5. launch'[k] = x /\ \A j \in Launches \ {k} : launch'[j] = launch[j]
  BY <1>3 DEF LaunchesTyped
<1>6. LaunchesTyped'
  BY <1>2, <1>3, <1>4 DEF LaunchesTyped
<1> QED
  BY <1>2, <1>4, <1>5, <1>6

LEMMA FindFields ==
  ASSUME LaunchesTyped, NEW k \in Launches, FindPorts(k)
  PROVE  LET found == GetPorts(launch[k].from)
         IN  /\ LaunchesTyped'
             /\ found \subseteq Ports
             /\ launch[k].search = "searching"
             /\ \A j \in Launches : launch'[j].disposed = launch[j].disposed
             /\ \/ /\ \A j \in Launches :
                          /\ launch'[j].stage = launch[j].stage
                          /\ launch'[j].search = launch[j].search
                          /\ launch'[j].ports = launch[j].ports
                          /\ launch'[j].process = launch[j].process
                   /\ usedPorts' = usedPorts
                \/ /\ found \cap usedPorts = {}
                   /\ usedPorts' = usedPorts \cup found
                   /\ launch'[k].search = "found"
                   /\ launch'[k].ports = found
                   /\ launch'[k].stage = IF launch[k].stage = "ports" THEN "launching"
                                         ELSE launch[k].stage
                   /\ launch'[k].process = IF launch[k].stage = "ports" THEN "spawning"
                                           ELSE launch[k].process
                   /\ \A j \in Launches \ {k} :
                          /\ launch'[j].stage = launch[j].stage
                          /\ \/ launch'[j].search = launch[j].search
                             \/ /\ launch[j].search = "queued"
                                /\ launch'[j].search = "searching"
                          /\ launch'[j].ports = launch[j].ports
                          /\ launch'[j].process = launch[j].process
<1> DEFINE found == GetPorts(launch[k].from)
<1>1. launch \in [Launches -> Launch] /\ usedPorts \subseteq 1..MaxPort
  BY DEF LaunchesTyped
<1>2. found \subseteq Ports /\ launch[k].search = "searching"
  BY DEF GetPorts, FreeFrom, FindPorts
<1>3. CASE Taken(found)
  <2> DEFINE from == NextFrom(found)
             l == [launch[k] EXCEPT !.from = from]
  <2>1. usedPorts \cup found \in SUBSET (1..MaxPort) /\ usedPorts \cup found # {}
    BY <1>1, <1>2, <1>3 DEF Taken
  <2>2. Max(usedPorts \cup found) \in usedPorts \cup found
    BY <2>1, MaxIsIn
  <2>3. from \in Ports
    BY <2>1, <2>2 DEF NextFrom
  <2>4. /\ launch' = [launch EXCEPT ![k] = l]
        /\ usedPorts' = usedPorts /\ portChain' = portChain
    BY <1>1, <1>3 DEF FindPorts
  <2> HIDE DEF from
  <2>5. /\ l \in Launch
        /\ l.stage = launch[k].stage /\ l.search = launch[k].search
        /\ l.ports = launch[k].ports /\ l.process = launch[k].process
        /\ l.disposed = launch[k].disposed
    BY <1>1, <2>3 DEF Launch
  <2> HIDE DEF l, found
  <2>6. launch' \in [Launches -> Launch]
    BY <1>1, <2>4, <2>5
  <2>7. \A j \in Launches : /\ launch'[j].stage = launch[j].stage
                            /\ launch'[j].search = launch[j].search
                            /\ launch'[j].ports = launch[j].ports
                            /\ launch'[j].process = launch[j].process
                            /\ launch'[j].disposed = launch[j].disposed
    BY <1>1, <2>4, <2>5
  <2>8. LaunchesTyped'
    BY <2>4, <2>6 DEF LaunchesTyped
  <2> QED
    BY <1>2, <2>4, <2>7, <2>8 DEF found
<1>4. CASE ~Taken(found)
  <2> DEFINE stage == IF launch[k].stage = "ports" THEN "launching" ELSE launch[k].stage
             process == IF launch[k].stage = "ports" THEN "spawning" ELSE launch[k].process
             l == [launch[k] EXCEPT !.search = "found", !.ports = found,
                                    !.stage = stage, !.process = process]
             q(j) == [launch[j] EXCEPT !.search = "searching"]
  <2>1. /\ launch' = [j \in Launches |-> IF j = k THEN l
                                         ELSE IF j \in Queued(k) THEN q(j) ELSE launch[j]]
        /\ usedPorts' = usedPorts \cup found
        /\ portChain' = IF Queued(k) = {} THEN portChain ELSE Max(Queued(k))
    BY <1>1, <1>4 DEF FindPorts
  <2>2. stage \in Stages /\ process \in Processes
    BY <1>1 DEF Launch, Stages, Processes
  <2> HIDE DEF stage, process
  <2>3. /\ l \in Launch /\ l.search = "found" /\ l.ports = found
        /\ l.stage = stage /\ l.process = process
        /\ l.disposed = launch[k].disposed
    BY <1>1, <1>2, <2>2 DEF Launch, Searches
  <2>4. ASSUME NEW j \in Launches
        PROVE  /\ q(j) \in Launch
               /\ q(j).search = "searching" /\ q(j).ports = launch[j].ports
               /\ q(j).stage = launch[j].stage /\ q(j).process = launch[j].process
               /\ q(j).disposed = launch[j].disposed
    BY <1>1 DEF Launch, Searches
  <2> HIDE DEF l, q
  <2>5. launch' \in [Launches -> Launch]
    BY <1>1, <2>1, <2>3, <2>4
  <2>6. Queued(k) \in SUBSET (1..MaxLaunches)
    BY DEF Queued
  <2>7. portChain' \in 0..MaxLaunches
    <3>1. CASE Queued(k) = {}
      BY <2>1, <3>1 DEF LaunchesTyped
    <3>2. CASE Queued(k) # {}
      <4>1. Max(Queued(k)) \in Queued(k)
        BY <2>6, <3>2, MaxIsIn
      <4> QED
        BY <2>1, <2>6, <3>2, <4>1
    <3> QED
      BY <3>1, <3>2
  <2>8. LaunchesTyped'
    BY <1>1, <1>2, <2>1, <2>5, <2>7 DEF LaunchesTyped
  <2>9. \A j \in Launches \ {k} :
            /\ launch'[j].stage = launch[j].stage
            /\ \/ launch'[j].search = launch[j].search
               \/ launch[j].search = "queued" /\ launch'[j].search = "searching"
            /\ launch'[j].ports = launch[j].ports
            /\ launch'[j].process = launch[j].process
            /\ launch'[j].disposed = launch[j].disposed
    BY <2>1, <2>4 DEF Queued
  <2>10. launch'[k] = l
    BY <2>1
  <2> QED
    BY <1>2, <1>4, <2>1, <2>3, <2>8, <2>9, <2>10 DEF Taken, stage, process
<1> QED
  BY <1>3, <1>4

LEMMA NoPortsFields ==
  ASSUME LaunchesTyped, NEW k \in Launches, FindNoPorts(k)
  PROVE  /\ LaunchesTyped'
         /\ usedPorts' = usedPorts
         /\ \A j \in Launches :
                /\ launch'[j].ports = launch[j].ports
                /\ launch'[j].process = launch[j].process
                /\ launch'[j].disposed = launch[j].disposed
                /\ \/ launch'[j] = launch[j]
                   \/ /\ launch[j].search \in {"queued", "searching"}
                      /\ launch'[j].search = "failed" /\ launch'[j].stage = "failed"
<1> DEFINE f(j) == [launch[j] EXCEPT !.search = "failed", !.stage = "failed"]
<1>1. launch \in [Launches -> Launch]
  BY DEF LaunchesTyped
<1>2. ASSUME NEW j \in Launches
      PROVE  /\ f(j) \in Launch
             /\ f(j).search = "failed" /\ f(j).stage = "failed"
             /\ f(j).ports = launch[j].ports /\ f(j).process = launch[j].process
             /\ f(j).disposed = launch[j].disposed
  BY <1>1 DEF Launch, Searches, Stages
<1>3. /\ launch' = [j \in Launches |-> IF j \in Stranded(k) THEN f(j) ELSE launch[j]]
      /\ usedPorts' = usedPorts /\ portChain' = portChain
  BY DEF FindNoPorts
<1>4. \A j \in Stranded(k) : launch[j].search \in {"queued", "searching"}
  BY DEF Stranded, Queued, FindNoPorts
<1> HIDE DEF f
<1>5. launch' \in [Launches -> Launch]
  BY <1>1, <1>2, <1>3
<1> QED
  BY <1>2, <1>3, <1>4, <1>5 DEF LaunchesTyped

LEMMA SpawnFields ==
  ASSUME LaunchesTyped, NEW k \in Launches, Spawn(k)
  PROVE  /\ LaunchesTyped'
         /\ usedPorts' = usedPorts
         /\ \A j \in Launches \ {k} : launch'[j] = launch[j]
         /\ launch[k].process = "spawning"
         /\ launch'[k].process = "running"
         /\ launch'[k].stage = launch[k].stage
         /\ launch'[k].search = launch[k].search
         /\ launch'[k].ports = launch[k].ports
         /\ launch'[k].disposed = launch[k].disposed
  BY DEF LaunchesTyped, Spawn, Launch, Processes

LEMMA ListeningFields ==
  ASSUME LaunchesTyped, NEW k \in Launches, Listening(k)
  PROVE  /\ LaunchesTyped'
         /\ usedPorts' = usedPorts
         /\ \A j \in Launches \ {k} : launch'[j] = launch[j]
         /\ launch[k].process = "running"
         /\ launch[k].stage = "launching"
         /\ launch'[k].process = launch[k].process
         /\ launch'[k].stage = "launched"
         /\ launch'[k].search = launch[k].search
         /\ launch'[k].ports = launch[k].ports
         /\ launch'[k].disposed = launch[k].disposed
  BY DEF LaunchesTyped, Listening, Launch, Stages, Running

LEMMA ExitedFields ==
  ASSUME LaunchesTyped, NEW k \in Launches
  PROVE  LET e == Exited(k)
         IN  /\ e \in [Launches -> Launch]
             /\ \A j \in Launches \ {k} : e[j] = launch[j]
             /\ e[k].process = "exited"
             /\ e[k].stage = launch[k].stage
             /\ e[k].search = launch[k].search
             /\ e[k].ports = launch[k].ports
             /\ e[k].disposed = launch[k].disposed
  BY DEF LaunchesTyped, Exited, Launch, Processes
-----------------------------------------------------------------------------
(* Typing.                                                                 *)
LEMMA DisposeTyped ==
  ASSUME LaunchesTyped, NEW K, DisposeProcesses(K)
  PROVE  LaunchesTyped'
<1>1. \A k \in Launches : Disposed(K)[k] \in Launch
  BY DisposedFields
<1>2. launch' \in [Launches -> Launch]
  BY <1>1 DEF DisposeProcesses, Disposed
<1> QED
  BY <1>2 DEF DisposeProcesses, LaunchesTyped

LEMMA ThrownTyped ==
  ASSUME LaunchesTyped, NEW k \in Launches
  PROVE  ThrownLaunch(k) \in [Launches -> Launch]
<1>1. \A j \in Launches : ThrownLaunch(k)[j] \in Launch
  BY ThrownFields
<1> QED
  BY <1>1 DEF ThrownLaunch, LaunchesTyped

SessionsTyped == /\ start \in [Launches -> Starts]
                 /\ session \in [Sessions -> Session]
                 /\ provider \in Provider

LEMMA TypedParts ==
  ASSUME LaunchesTyped, SessionsTyped
  PROVE  TypeOK
  BY DEF TypeOK, LaunchesTyped, SessionsTyped

LEMMA FailedSessionFields ==
  ASSUME SessionsTyped, NEW K, NEW s \in Sessions
  PROVE  LET f == FailedSession(s, K)
         IN  /\ f \in Session
             /\ f.state = IF session[s].state = "starting" THEN "failed" ELSE session[s].state
             /\ f.current = session[s].current
             /\ f.over = session[s].over
             /\ f.restarting = IF session[s].restarting \in K THEN 0 ELSE session[s].restarting
             /\ session[s].state # "starting" => f.isDisposed = session[s].isDisposed
<1> DEFINE state == IF session[s].state = "starting" THEN "failed" ELSE session[s].state
           gone == session[s].isDisposed \/ session[s].state = "starting"
           next == IF session[s].restarting \in K THEN 0 ELSE session[s].restarting
           f == [session[s] EXCEPT !.state = state, !.isDisposed = gone, !.restarting = next]
<1>1. session[s] \in Session
  BY DEF SessionsTyped
<1>2. /\ state \in {"new", "starting", "connected", "failed"}
      /\ gone \in BOOLEAN
      /\ next \in 0..MaxLaunches
  BY <1>1 DEF Session
<1>3. f = FailedSession(s, K)
  BY <1>1 DEF FailedSession, Session
<1>4. session[s].state # "starting" => gone = session[s].isDisposed
  BY <1>1 DEF Session
<1> HIDE DEF state, gone, next
<1>5. /\ f \in Session /\ f.state = state /\ f.isDisposed = gone /\ f.restarting = next
      /\ f.current = session[s].current /\ f.over = session[s].over
  BY <1>1, <1>2 DEF Session
<1> QED
  BY <1>3, <1>4, <1>5 DEF state, next

LEMMA StartsFailTyped ==
  ASSUME SessionsTyped, NEW K, StartsFail(K)
  PROVE  SessionsTyped'
<1>1. start' \in [Launches -> Starts]
  BY DEF SessionsTyped, StartsFail, Starts
<1>2. \A s \in Sessions : FailedSession(s, K) \in Session
  BY FailedSessionFields
<1>3. session' \in [Sessions -> Session]
  BY <1>2 DEF SessionsTyped, StartsFail
<1> QED
  BY <1>1, <1>3 DEF SessionsTyped, StartsFail

LEMMA BeginStartFields ==
  ASSUME SessionsTyped, NEW s \in Sessions, NEW k \in Launches, BeginStart(s, k)
  PROVE  LET refused == launch'[k].stage = "failed"
         IN  /\ SessionsTyped'
             /\ \A r \in Sessions \ {s} : session'[r] = session[r]
             /\ \A j \in Launches \ {k} : start'[j] = start[j]
             /\ start'[k].of = s
             /\ start'[k].pc = IF refused THEN "failed" ELSE "launching"
             /\ session'[s].current = session[s].current
             /\ session'[s].over = session[s].over
             /\ IF session[s].state = "new"
                THEN /\ session'[s].state = IF refused THEN "failed" ELSE "starting"
                     /\ session'[s].restarting = session[s].restarting
                ELSE /\ session'[s].state = session[s].state
                     /\ session'[s].restarting = IF refused THEN 0 ELSE k
                     /\ session'[s].isDisposed = session[s].isDisposed
<1> DEFINE refused == launch'[k].stage = "failed"
           state == IF refused THEN "failed" ELSE "starting"
           pc == IF refused THEN "failed" ELSE "launching"
           next == IF refused THEN 0 ELSE k
           a == [session[s] EXCEPT !.state = state, !.isDisposed = refused]
           b == [session[s] EXCEPT !.restarting = next]
<1>1. session[s] \in Session /\ session \in [Sessions -> Session]
      /\ start \in [Launches -> Starts]
  BY DEF SessionsTyped
<1>2. session' = [session EXCEPT ![s] = IF session[s].state = "new" THEN a ELSE b]
  BY <1>1 DEF BeginStart
<1>3. start' = [start EXCEPT ![k] = [of |-> s, pc |-> pc]] /\ provider' = provider
  BY DEF BeginStart
<1>4. /\ state \in {"failed", "starting"} /\ pc \in {"failed", "launching"}
      /\ next \in 0..MaxLaunches /\ refused \in BOOLEAN
  OBVIOUS
<1>5. start' \in [Launches -> Starts] /\ start'[k].of = s /\ start'[k].pc = pc
      /\ \A j \in Launches \ {k} : start'[j] = start[j]
  <2> HIDE DEF pc
  <2> QED
    BY <1>1, <1>3, <1>4 DEF Starts
<1> HIDE DEF state, next, refused
<1>6. /\ a \in Session /\ a.state = state
      /\ a.current = session[s].current /\ a.over = session[s].over
      /\ a.restarting = session[s].restarting
  BY <1>1, <1>4 DEF Session
<1>7. /\ b \in Session /\ b.state = session[s].state
      /\ b.current = session[s].current /\ b.over = session[s].over
      /\ b.restarting = next /\ b.isDisposed = session[s].isDisposed
  BY <1>1, <1>4 DEF Session
<1> HIDE DEF a, b
<1>8. /\ session' \in [Sessions -> Session]
      /\ \A r \in Sessions \ {s} : session'[r] = session[r]
      /\ session'[s] = IF session[s].state = "new" THEN a ELSE b
  BY <1>1, <1>2, <1>6, <1>7
<1>9. SessionsTyped'
  BY <1>3, <1>5, <1>8 DEF SessionsTyped
<1> HIDE DEF pc
<1>10. /\ session'[s].current = session[s].current
       /\ session'[s].over = session[s].over
       /\ IF session[s].state = "new"
          THEN session'[s].state = state /\ session'[s].restarting = session[s].restarting
          ELSE /\ session'[s].state = session[s].state
               /\ session'[s].restarting = next
               /\ session'[s].isDisposed = session[s].isDisposed
  BY <1>6, <1>7, <1>8
<1> QED
  BY <1>5, <1>8, <1>9, <1>10 DEF state, next, pc, refused

LEMMA SucceedFields ==
  ASSUME SessionsTyped, NEW k \in Launches, start[k].of \in Sessions, StartSucceeds(k)
  PROVE  LET s == start[k].of
         IN  /\ SessionsTyped'
             /\ \A r \in Sessions \ {s} : session'[r] = session[r]
             /\ \A j \in Launches : start'[j].of = start[j].of
             /\ \A j \in Launches \ {k} : start'[j].pc = start[j].pc
             /\ start'[k].pc = "done"
             /\ session'[s].state = "connected"
             /\ session'[s].current = k
             /\ session'[s].restarting = 0
             /\ session'[s].over = session[s].over
             /\ session'[s].isDisposed = session[s].isDisposed
<1> DEFINE s == start[k].of
           x == [session[s] EXCEPT !.state = "connected", !.current = k, !.restarting = 0]
<1>1. /\ session[s] \in Session /\ session \in [Sessions -> Session]
      /\ start \in [Launches -> Starts]
  BY DEF SessionsTyped
<1>2. session' = [session EXCEPT ![s] = x] /\ provider' = provider
  BY <1>1 DEF StartSucceeds
<1>3. start' = [start EXCEPT ![k] = [start[k] EXCEPT !.pc = "done"]]
  BY DEF StartSucceeds
<1>4. /\ start' \in [Launches -> Starts]
      /\ start'[k].pc = "done" /\ start'[k].of = s
      /\ \A j \in Launches \ {k} : start'[j] = start[j]
  BY <1>1, <1>3 DEF Starts
<1> HIDE DEF s
<1>5. /\ x \in Session /\ x.state = "connected" /\ x.current = k /\ x.restarting = 0
      /\ x.over = session[s].over /\ x.isDisposed = session[s].isDisposed
  BY <1>1, 0 \in 0..MaxLaunches, k \in 0..MaxLaunches DEF Session
<1> HIDE DEF x
<1>6. /\ session' \in [Sessions -> Session]
      /\ \A r \in Sessions \ {s} : session'[r] = session[r]
      /\ session'[s] = x
  BY <1>1, <1>2, <1>5 DEF s
<1> QED
  BY <1>2, <1>4, <1>5, <1>6 DEF SessionsTyped, s

LEMMA ShutdownFields ==
  ASSUME SessionsTyped, NEW S \in SUBSET Sessions, Shutdown(S), provider' \in Provider
  PROVE  /\ SessionsTyped'
         /\ \A j \in Launches : start'[j].of = start[j].of
         /\ \A s \in Sessions :
                /\ session'[s].state = session[s].state
                /\ IF s \in S /\ session[s].current # 0
                   THEN /\ session'[s].isDisposed
                        /\ session'[s].over
                        /\ session'[s].current = 0
                        /\ session'[s].restarting = 0
                   ELSE /\ session'[s].current = session[s].current
                        /\ session'[s].restarting = session[s].restarting
                        /\ session'[s].over = session[s].over
                        /\ session[s].isDisposed => session'[s].isDisposed
<1> DEFINE a(s) == [session[s] EXCEPT !.isDisposed = TRUE, !.over = TRUE,
                                      !.current = 0, !.restarting = 0]
           b(s) == [session[s] EXCEPT !.isDisposed = TRUE]
           next(s) == IF s \in S /\ session[s].current # 0 THEN a(s)
                      ELSE IF s \in S THEN b(s) ELSE session[s]
<1>1. /\ session \in [Sessions -> Session] /\ start \in [Launches -> Starts]
  BY DEF SessionsTyped
<1>2. session' = [s \in Sessions |-> next(s)]
  BY DEF Shutdown
<1>3. start' \in [Launches -> Starts] /\ \A j \in Launches : start'[j].of = start[j].of
  BY <1>1 DEF Shutdown, Starts
<1>4. ASSUME NEW s \in Sessions
      PROVE  /\ a(s) \in Session /\ b(s) \in Session
             /\ a(s).state = session[s].state /\ b(s).state = session[s].state
             /\ a(s).isDisposed /\ b(s).isDisposed = TRUE
             /\ a(s).over /\ b(s).over = session[s].over
             /\ a(s).current = 0 /\ b(s).current = session[s].current
             /\ a(s).restarting = 0 /\ b(s).restarting = session[s].restarting
             /\ session[s] \in Session
  <2>1. session[s] \in Session /\ 0 \in 0..MaxLaunches /\ TRUE \in BOOLEAN
    BY <1>1
  <2>2. a(s) \in Session /\ b(s) \in Session
    BY <2>1 DEF Session
  <2> QED
    BY <2>1, <2>2 DEF Session
<1> HIDE DEF a, b
<1>5. \A s \in Sessions : next(s) \in Session /\ session'[s] = next(s)
  BY <1>2, <1>4
<1>6. SessionsTyped'
  BY <1>2, <1>3, <1>5 DEF SessionsTyped
<1>7. ASSUME NEW s \in Sessions
      PROVE  /\ session'[s].state = session[s].state
             /\ IF s \in S /\ session[s].current # 0
                THEN /\ session'[s].isDisposed
                     /\ session'[s].over
                     /\ session'[s].current = 0
                     /\ session'[s].restarting = 0
                ELSE /\ session'[s].current = session[s].current
                     /\ session'[s].restarting = session[s].restarting
                     /\ session'[s].over = session[s].over
                     /\ session[s].isDisposed => session'[s].isDisposed
  <2>1. CASE s \in S /\ session[s].current # 0
    <3>1. session'[s] = a(s)
      BY <1>5, <2>1
    <3> QED
      BY <1>4, <2>1, <3>1
  <2>2. CASE s \in S /\ session[s].current = 0
    <3>1. session'[s] = b(s)
      BY <1>5, <2>2
    <3> QED
      BY <1>4, <2>2, <3>1
  <2>3. CASE s \notin S
    <3>1. session'[s] = session[s]
      BY <1>5, <2>3
    <3> QED
      BY <2>3, <3>1
  <2> QED
    BY <2>1, <2>2, <2>3
<1> QED
  BY <1>3, <1>6, <1>7
-----------------------------------------------------------------------------
(***************************************************************************)
(* The invariant.                                                          *)
(***************************************************************************)

(* One launch: ports only after a search that found them, a process only   *)
(* after ports, and nothing disposed before there is something to dispose. *)
LaunchOK(k) ==
    LET l == launch[k]
    IN  /\ l.search # "found" => l.ports = {}
        /\ l.stage = "unused" <=> l.search = "none"
        /\ l.search \in {"queued", "searching"} => l.stage \in {"ports", "failed"}
        /\ l.stage \in {"unused", "ports"} => l.process = "none" /\ ~l.disposed
        /\ l.stage = "launching" => ~l.disposed
        /\ l.stage = "launched" => l.process \in {"running", "exited"}
        /\ l.stage = "launched" /\ l.disposed => l.process = "exited"

(* The ports of a launch whose process came up and ended are free again;   *)
(* all other launches have theirs to themselves.                           *)
GivenBack(k) == launch[k].stage = "launched" /\ launch[k].disposed

PortsAreApart ==
    \A i, j \in Launches : i # j /\ ~GivenBack(i) /\ ~GivenBack(j)
                           => launch[i].ports \cap launch[j].ports = {}

LaunchInv == /\ \A k \in Launches : LaunchOK(k)
             /\ PortsComeBack
             /\ PortsAreApart

(* What a session does with a launch fits the stage of the launch.         *)
StageOK(k) ==
    LET pc == start[k].pc
        stage == launch[k].stage
    IN  /\ pc = "unused" <=> stage = "unused"
        /\ pc = "launching" => stage \in {"ports", "launching"}
        /\ pc \in {"connecting", "done"} => stage = "launched"
        /\ pc = "failed" => /\ stage \in {"launched", "failed"}
                            /\ launch[k].disposed \/ launch[k].process = "none"

(* A start in flight is the one its session waits for; a kernel that is    *)
(* up and not disposed is the current one of its session.                  *)
OwnerOK(k) ==
    LET s == start[k].of
    IN  /\ start[k].pc # "unused" => s \in Sessions
        /\ InFlight(k) => \/ session[s].state = "starting"
                          \/ session[s].state = "connected" /\ session[s].restarting = k
        /\ start[k].pc = "done" => launch[k].disposed \/ session[s].current = k

OneStart == \A i, j \in Launches :
                InFlight(i) /\ InFlight(j) /\ start[i].of = start[j].of => i = j

SessionOK(s) ==
    LET x == session[s]
    IN  /\ x.current # 0 => /\ start[x.current].pc = "done"
                            /\ start[x.current].of = s
                            /\ x.state = "connected"
        /\ x.restarting # 0 => /\ InFlight(x.restarting)
                               /\ start[x.restarting].of = s
                               /\ x.state = "connected"
        /\ x.over => /\ x.state = "connected" /\ x.isDisposed
                     /\ x.current = 0 /\ x.restarting = 0

SessionInv == /\ \A k \in Launches : OwnerOK(k)
              /\ OneStart
              /\ \A s \in Sessions : SessionOK(s)

IInv == /\ LaunchesTyped
        /\ SessionsTyped
        /\ LaunchInv
        /\ \A k \in Launches : StageOK(k)
        /\ SessionInv

-----------------------------------------------------------------------------
(* Launches: the ports stay apart.                                         *)
LEMMA PortsKept ==
  ASSUME LaunchInv,
         \A k \in Launches : launch'[k].ports = launch[k].ports,
         \A k \in Launches : GivenBack(k) => GivenBack(k)',
         usedPorts' = usedPorts \ UNION {launch[k].ports :
                          k \in {j \in Launches : GivenBack(j)' /\ ~GivenBack(j)}}
  PROVE  PortsComeBack' /\ PortsAreApart'
<1>1. PortsAreApart'
  BY DEF LaunchInv, PortsAreApart
<1>2. ASSUME NEW p \in usedPorts'
      PROVE  \E k \in Launches : ~GivenBack(k)' /\ p \in launch'[k].ports
  <2>1. PICK k \in Launches : ~GivenBack(k) /\ p \in launch[k].ports
    BY <1>2 DEF LaunchInv, PortsComeBack, GivenBack
  <2> QED
    BY <1>2, <2>1
<1>3. ASSUME NEW k \in Launches, ~GivenBack(k)', NEW p \in launch'[k].ports
      PROVE  p \in usedPorts'
  <2>1. ~GivenBack(k) /\ p \in launch[k].ports
    BY <1>3
  <2>2. p \in usedPorts
    BY <2>1 DEF LaunchInv, PortsComeBack, GivenBack
  <2>3. \A j \in Launches : GivenBack(j)' /\ ~GivenBack(j) => p \notin launch[j].ports
    BY <1>3, <2>1 DEF LaunchInv, PortsAreApart
  <2> QED
    BY <2>2, <2>3
<1> QED
  BY <1>1, <1>2, <1>3 DEF PortsComeBack, GivenBack

(* The same for a step that gives nothing back.                            *)
LEMMA NothingGivenBack ==
  ASSUME LaunchInv,
         \A k \in Launches : launch'[k].ports = launch[k].ports,
         \A k \in Launches : GivenBack(k)' = GivenBack(k),
         usedPorts' = usedPorts
  PROVE  PortsComeBack' /\ PortsAreApart'
<1>1. UNION {launch[k].ports : k \in {j \in Launches : GivenBack(j)' /\ ~GivenBack(j)}} = {}
  OBVIOUS
<1> QED
  BY <1>1, PortsKept

LEMMA CallKeeps ==
  ASSUME LaunchesTyped, LaunchInv, NEW k \in Launches, CallLaunch(k)
  PROVE  LaunchInv'
<1>1. \A j \in Launches : launch'[j].ports = launch[j].ports /\ GivenBack(j)' = GivenBack(j)
  BY CallFields DEF GivenBack
<1>2. PortsComeBack' /\ PortsAreApart'
  BY <1>1, CallFields, NothingGivenBack
<1>3. \A j \in Launches : LaunchOK(j)'
  BY CallFields DEF LaunchInv, LaunchOK
<1> QED
  BY <1>2, <1>3 DEF LaunchInv

LEMMA FindKeeps ==
  ASSUME LaunchesTyped, LaunchInv, NEW k \in Launches, FindPorts(k)
  PROVE  LaunchInv'
<1> DEFINE found == GetPorts(launch[k].from)
<1>1. \A j \in Launches : LaunchOK(j)'
  BY FindFields DEF LaunchInv, LaunchOK
<1>2. \A j \in Launches : GivenBack(j)' = GivenBack(j)
  BY FindFields DEF GivenBack, LaunchInv, LaunchOK
<1>3. CASE usedPorts' = usedPorts /\ \A j \in Launches : launch'[j].ports = launch[j].ports
  BY <1>1, <1>2, <1>3, NothingGivenBack DEF LaunchInv
<1>4. CASE /\ found \cap usedPorts = {}
           /\ usedPorts' = usedPorts \cup found
           /\ launch'[k].ports = found
           /\ \A j \in Launches \ {k} : launch'[j].ports = launch[j].ports
  <2>1. launch[k].ports = {} /\ ~GivenBack(k)
    BY FindFields DEF LaunchInv, LaunchOK, GivenBack
  <2>2. usedPorts = UNION {launch[j].ports : j \in {i \in Launches : ~GivenBack(i)}}
    BY DEF LaunchInv, PortsComeBack, GivenBack
  <2> HIDE DEF found
  <2>3. \A j \in Launches \ {k} : ~GivenBack(j) => found \cap launch'[j].ports = {}
    BY <1>4, <2>2
  <2>4. ASSUME NEW i \in Launches, NEW j \in Launches, i # j, ~GivenBack(i)', ~GivenBack(j)'
        PROVE  launch'[i].ports \cap launch'[j].ports = {}
    <3>1. CASE i = k
      BY <1>2, <1>4, <2>3, <2>4, <3>1
    <3>2. CASE j = k
      BY <1>2, <1>4, <2>3, <2>4, <3>2
    <3>3. CASE i # k /\ j # k
      BY <1>2, <1>4, <2>4, <3>3 DEF LaunchInv, PortsAreApart
    <3> QED
      BY <3>1, <3>2, <3>3
  <2>5. usedPorts' = UNION {launch'[j].ports : j \in {i \in Launches : ~GivenBack(i)'}}
    <3>1. ASSUME NEW p \in usedPorts'
          PROVE  \E j \in Launches : ~GivenBack(j)' /\ p \in launch'[j].ports
      BY <1>2, <1>4, <2>1, <2>2, <3>1
    <3>2. ASSUME NEW j \in Launches, ~GivenBack(j)', NEW p \in launch'[j].ports
          PROVE  p \in usedPorts'
      BY <1>2, <1>4, <2>2, <3>2
    <3> QED
      BY <3>1, <3>2
  <2> QED
    BY <1>1, <2>4, <2>5 DEF LaunchInv, PortsAreApart, PortsComeBack, GivenBack
<1> QED
  BY <1>3, <1>4, FindFields

LEMMA NoPortsKeeps ==
  ASSUME LaunchesTyped, LaunchInv, NEW k \in Launches, FindNoPorts(k)
  PROVE  LaunchInv'
<1>1. \A j \in Launches : launch'[j].ports = launch[j].ports /\ GivenBack(j)' = GivenBack(j)
  BY NoPortsFields DEF GivenBack, LaunchInv, LaunchOK
<1>2. PortsComeBack' /\ PortsAreApart'
  BY <1>1, NoPortsFields, NothingGivenBack
<1>3. \A j \in Launches : LaunchOK(j)'
  BY NoPortsFields DEF LaunchInv, LaunchOK
<1> QED
  BY <1>2, <1>3 DEF LaunchInv

LEMMA SpawnKeeps ==
  ASSUME LaunchesTyped, LaunchInv, NEW k \in Launches, Spawn(k)
  PROVE  LaunchInv'
<1>1. \A j \in Launches : launch'[j].ports = launch[j].ports /\ GivenBack(j)' = GivenBack(j)
  BY SpawnFields DEF GivenBack
<1>2. PortsComeBack' /\ PortsAreApart'
  BY <1>1, SpawnFields, NothingGivenBack
<1>3. \A j \in Launches : LaunchOK(j)'
  BY SpawnFields DEF LaunchInv, LaunchOK
<1> QED
  BY <1>2, <1>3 DEF LaunchInv

LEMMA ListeningKeeps ==
  ASSUME LaunchesTyped, LaunchInv, NEW k \in Launches, Listening(k)
  PROVE  LaunchInv'
<1>1. \A j \in Launches : launch'[j].ports = launch[j].ports /\ GivenBack(j)' = GivenBack(j)
  BY ListeningFields DEF GivenBack, LaunchInv, LaunchOK
<1>2. PortsComeBack' /\ PortsAreApart'
  BY <1>1, ListeningFields, NothingGivenBack
<1>3. \A j \in Launches : LaunchOK(j)'
  BY ListeningFields DEF LaunchInv, LaunchOK
<1> QED
  BY <1>2, <1>3 DEF LaunchInv

LEMMA ExitKeeps ==
  ASSUME LaunchesTyped, LaunchInv, NEW k \in Launches,
         Running(k), launch[k].disposed, launch' = Exited(k), usedPorts' = usedPorts
  PROVE  LaunchInv'
<1>1. \A j \in Launches : launch'[j].ports = launch[j].ports /\ GivenBack(j)' = GivenBack(j)
  BY ExitedFields DEF GivenBack
<1>2. PortsComeBack' /\ PortsAreApart'
  BY <1>1, NothingGivenBack
<1>3. \A j \in Launches : LaunchOK(j)'
  BY ExitedFields DEF LaunchInv, LaunchOK, Running
<1> QED
  BY <1>2, <1>3 DEF LaunchInv

(* Launches that throw and processes that are disposed, together: what a   *)
(* single failure, an exit, a restart and a shutdown have in common.       *)
LEMMA EndsKeep ==
  ASSUME LaunchesTyped, LaunchInv,
         NEW T \in SUBSET Launches, NEW D \in SUBSET Launches,
         \A k \in T : launch[k].stage \in {"ports", "launching"},
         \A k \in D : launch[k].stage = "launched",
         \A k \in Launches : launch'[k] = IF k \in T THEN ThrownLaunch(k)[k]
                                          ELSE Disposed(D)[k],
         usedPorts' = usedPorts \ FreedBy(D)
  PROVE  LaunchInv'
<1>1. ASSUME NEW k \in T
      PROVE  /\ launch'[k].stage = "failed"
             /\ launch'[k].search = launch[k].search
             /\ launch'[k].ports = launch[k].ports
             /\ launch'[k].disposed = (launch[k].disposed \/ launch[k].stage = "launching")
  BY ThrownFields
<1>2. ASSUME NEW k \in Launches \ T
      PROVE  /\ launch'[k].stage = launch[k].stage
             /\ launch'[k].search = launch[k].search
             /\ launch'[k].ports = launch[k].ports
             /\ launch'[k].disposed = (launch[k].disposed \/ k \in D)
             /\ launch'[k].process =
                    IF k \in D /\ ~launch[k].disposed /\ launch[k].process = "running"
                    THEN "exited" ELSE launch[k].process
  BY DisposedFields
<1>3. ASSUME NEW k \in Launches
      PROVE  LaunchOK(k)'
  <2>1. LaunchOK(k)
    BY DEF LaunchInv
  <2>2. CASE k \in T
    BY <1>1, <2>1, <2>2 DEF LaunchOK
  <2>3. CASE k \notin T
    BY <1>2, <2>1, <2>3 DEF LaunchOK
  <2> QED
    BY <2>2, <2>3
<1>4. \A k \in Launches : GivenBack(k) => GivenBack(k)'
  BY <1>1, <1>2 DEF GivenBack
<1>5. \A k \in Launches : (GivenBack(k)' /\ ~GivenBack(k)) <=> (k \in D /\ ~launch[k].disposed)
  BY <1>1, <1>2 DEF GivenBack
<1>6. UNION {launch[k].ports : k \in {j \in Launches : GivenBack(j)' /\ ~GivenBack(j)}}
        = FreedBy(D)
  <2>1. {j \in Launches : GivenBack(j)' /\ ~GivenBack(j)}
          = {j \in D : launch[j].stage = "launched" /\ ~launch[j].disposed}
    BY <1>5
  <2> QED
    BY <2>1 DEF FreedBy
<1>7. \A k \in Launches : launch'[k].ports = launch[k].ports
  BY <1>1, <1>2
<1>8. PortsComeBack' /\ PortsAreApart'
  BY <1>4, <1>6, <1>7, PortsKept
<1> QED
  BY <1>3, <1>8 DEF LaunchInv
-----------------------------------------------------------------------------
(* Sessions: what ends, ends for its session too.                          *)
LEMMA EndsStages ==
  ASSUME LaunchesTyped, LaunchInv, \A k \in Launches : StageOK(k),
         NEW T \in SUBSET Launches, NEW D \in SUBSET Launches,
         \A k \in T : launch[k].stage \in {"ports", "launching"},
         \A k \in D : launch[k].stage = "launched",
         \A k \in Launches : launch'[k] = IF k \in T THEN ThrownLaunch(k)[k]
                                          ELSE Disposed(D)[k],
         \A k \in Launches :
            \/ k \notin T /\ start'[k].pc = start[k].pc
            \/ k \in T \cup D /\ start'[k].pc = "failed"
            \/ k \notin T /\ start[k].pc = "connecting" /\ start'[k].pc = "done"
  PROVE  \A k \in Launches : /\ StageOK(k)'
                             /\ launch[k].disposed \/ k \in D => launch'[k].disposed
<1> SUFFICES ASSUME NEW k \in Launches
             PROVE  /\ StageOK(k)'
                    /\ launch[k].disposed \/ k \in D => launch'[k].disposed
  OBVIOUS
<1>1. CASE k \in T
  <2>1. /\ launch'[k].stage = "failed"
        /\ launch'[k].disposed = (launch[k].disposed \/ launch[k].stage = "launching")
        /\ launch[k].stage = "ports" => launch'[k].process = launch[k].process
        /\ k \notin D
    BY <1>1, ThrownFields
  <2> QED
    BY <1>1, <2>1 DEF StageOK, LaunchInv, LaunchOK
<1>2. CASE k \notin T
  <2>1. /\ launch'[k].stage = launch[k].stage
        /\ launch'[k].disposed = (launch[k].disposed \/ k \in D)
        /\ launch[k].process = "none" => launch'[k].process = "none"
    BY <1>2, DisposedFields
  <2> QED
    BY <1>2, <2>1 DEF StageOK
<1> QED
  BY <1>1, <1>2

LEMMA FailKeeps ==
  ASSUME SessionsTyped, SessionInv,
         NEW K \in SUBSET Launches, \A k \in K : InFlight(k), StartsFail(K),
         \A k \in Launches : launch[k].disposed => launch'[k].disposed
  PROVE  SessionInv'
<1>1. \A k \in Launches : /\ start'[k].of = start[k].of
                          /\ start'[k].pc = IF k \in K THEN "failed" ELSE start[k].pc
  BY DEF StartsFail, SessionsTyped, Starts
<1>2. \A k \in Launches : InFlight(k)' <=> InFlight(k) /\ k \notin K
  BY <1>1 DEF InFlight
<1>3. \A s \in Sessions :
         IF \E k \in K : start[k].of = s
         THEN /\ session'[s].state = IF session[s].state = "starting" THEN "failed"
                                     ELSE session[s].state
              /\ session'[s].current = session[s].current
              /\ session'[s].over = session[s].over
              /\ session'[s].restarting = IF session[s].restarting \in K THEN 0
                                          ELSE session[s].restarting
              /\ session[s].state # "starting" => session'[s].isDisposed = session[s].isDisposed
         ELSE session'[s] = session[s]
  BY FailedSessionFields DEF StartsFail
<1>4. OneStart'
  BY <1>1, <1>2 DEF SessionInv, OneStart
<1>5. ASSUME NEW k \in Launches
      PROVE  OwnerOK(k)'
  <2>1. OwnerOK(k) /\ (start'[k].pc # "unused" => start[k].pc # "unused")
    BY <1>1 DEF SessionInv, InFlight
  <2>2. CASE start[k].of \in Sessions
    <3>1. ASSUME InFlight(k)'
          PROVE  session'[start[k].of] = session[start[k].of]
      BY <1>2, <1>3, <2>2, <3>1 DEF SessionInv, OneStart
    <3>2. session'[start[k].of].current = session[start[k].of].current
      BY <1>3, <2>2
    <3> QED
      BY <1>1, <1>2, <2>1, <3>1, <3>2 DEF OwnerOK
  <2>3. CASE start[k].of \notin Sessions
    BY <1>1, <1>2, <2>1, <2>3 DEF OwnerOK, InFlight
  <2> QED
    BY <2>2, <2>3
<1>6. ASSUME NEW s \in Sessions
      PROVE  SessionOK(s)'
  <2>1. SessionOK(s) /\ session[s] \in Session
    BY DEF SessionInv, SessionsTyped
  <2>2. session[s].current \in 0..MaxLaunches /\ session[s].restarting \in 0..MaxLaunches
    BY <2>1 DEF Session
  <2>3. session[s].current # 0 => session[s].current \in Launches \ K
    BY <2>1, <2>2 DEF SessionOK, InFlight
  <2>4. session[s].restarting # 0 /\ ~ (\E k \in K : start[k].of = s)
          => session[s].restarting \in Launches \ K
    BY <2>1, <2>2 DEF SessionOK
  <2> QED
    BY <1>1, <1>2, <1>3, <2>1, <2>2, <2>3, <2>4 DEF SessionOK
<1> QED
  BY <1>4, <1>5, <1>6 DEF SessionInv

LEMMA BeginKeeps ==
  ASSUME SessionsTyped, SessionInv,
         NEW s \in Sessions, NEW k \in Launches, BeginStart(s, k),
         start[k].pc = "unused",
         \/ session[s].state = "new"
         \/ /\ session[s].state = "connected" /\ ~session[s].isDisposed
            /\ ~\E j \in Launches : start[j].of = s /\ InFlight(j),
         \A j \in Launches : launch[j].disposed => launch'[j].disposed
  PROVE  SessionInv'
<1> DEFINE refused == launch'[k].stage = "failed"
<1>1. /\ \A r \in Sessions \ {s} : session'[r] = session[r]
      /\ \A j \in Launches \ {k} : start'[j] = start[j]
      /\ start'[k].of = s
      /\ start'[k].pc = IF refused THEN "failed" ELSE "launching"
      /\ session'[s].current = session[s].current
      /\ session'[s].over = session[s].over
      /\ IF session[s].state = "new"
         THEN /\ session'[s].state = IF refused THEN "failed" ELSE "starting"
              /\ session'[s].restarting = session[s].restarting
         ELSE /\ session'[s].state = session[s].state
              /\ session'[s].restarting = IF refused THEN 0 ELSE k
              /\ session'[s].isDisposed = session[s].isDisposed
  BY BeginStartFields
<1> HIDE DEF refused
<1>2. ~\E j \in Launches : start[j].of = s /\ InFlight(j)
  BY DEF SessionInv, OwnerOK
<1>3. \A j \in Launches \ {k} : InFlight(j)' <=> InFlight(j)
  BY <1>1 DEF InFlight
<1>4. OneStart'
  BY <1>1, <1>2, <1>3 DEF SessionInv, OneStart
<1>5. ASSUME NEW j \in Launches
      PROVE  OwnerOK(j)'
  <2>1. CASE j = k
    BY <1>1, <2>1 DEF OwnerOK, InFlight
  <2>2. CASE j # k
    <3>1. OwnerOK(j) /\ start'[j] = start[j] /\ (InFlight(j)' <=> InFlight(j))
      BY <1>1, <1>3, <2>2 DEF SessionInv
    <3>2. CASE start[j].of = s
      BY <1>1, <1>2, <3>1, <3>2 DEF OwnerOK
    <3>3. CASE start[j].of # s
      BY <1>1, <3>1, <3>3 DEF OwnerOK, InFlight
    <3> QED
      BY <3>2, <3>3
  <2> QED
    BY <2>1, <2>2
<1>6. ASSUME NEW r \in Sessions
      PROVE  SessionOK(r)'
  <2>1. SessionOK(r) /\ session[r] \in Session
    BY DEF SessionInv, SessionsTyped
  <2>2. session[r].current \in 0..MaxLaunches /\ session[r].restarting \in 0..MaxLaunches
    BY <2>1 DEF Session
  <2>3. session[r].current # 0 => session[r].current \in Launches \ {k}
    BY <2>1, <2>2 DEF SessionOK
  <2>4. session[r].restarting # 0 => session[r].restarting \in Launches \ {k}
    BY <2>1, <2>2 DEF SessionOK, InFlight
  <2>5. CASE r # s
    BY <1>1, <1>3, <2>1, <2>3, <2>4, <2>5 DEF SessionOK
  <2>6. CASE r = s
    <3>1. session[s].current = 0 \/ session[s].state = "connected"
      BY <2>1, <2>6 DEF SessionOK
    <3>2. session[s].restarting = 0
      BY <1>2, <2>1, <2>4, <2>6 DEF SessionOK
    <3>3. ~session[s].over
      BY <2>1, <2>6 DEF SessionOK
    <3> QED
      BY <1>1, <2>1, <2>3, <2>6, <3>1, <3>2, <3>3 DEF SessionOK, InFlight
  <2> QED
    BY <2>5, <2>6
<1> QED
  BY <1>4, <1>5, <1>6 DEF SessionInv

LEMMA SucceedKeeps ==
  ASSUME SessionsTyped, SessionInv, NEW k \in Launches,
         InFlight(k), StartSucceeds(k),
         \A j \in Launches : launch[j].disposed \/ j \in Replaced(start[k].of)
                             => launch'[j].disposed
  PROVE  SessionInv'
<1> DEFINE s == start[k].of
<1>1. s \in Sessions
  BY DEF SessionInv, OwnerOK, InFlight
<1>2. /\ \A r \in Sessions \ {s} : session'[r] = session[r]
      /\ \A j \in Launches : start'[j].of = start[j].of
      /\ \A j \in Launches \ {k} : start'[j].pc = start[j].pc
      /\ start'[k].pc = "done"
      /\ session'[s].state = "connected"
      /\ session'[s].current = k
      /\ session'[s].restarting = 0
      /\ session'[s].over = session[s].over
  BY <1>1, SucceedFields
<1>3. \A j \in Launches : InFlight(j)' <=> InFlight(j) /\ j # k
  BY <1>2 DEF InFlight
<1>4. \A j \in Launches : InFlight(j)' => start[j].of # s
  BY <1>3 DEF SessionInv, OneStart
<1>5. ~session[s].over
  BY <1>1 DEF SessionInv, OwnerOK, SessionOK
<1>6. OneStart'
  BY <1>2, <1>3 DEF SessionInv, OneStart
<1>7. ASSUME NEW j \in Launches
      PROVE  OwnerOK(j)'
  <2>1. CASE j = k
    BY <1>1, <1>2, <1>3, <2>1 DEF OwnerOK
  <2>2. CASE j # k /\ start[j].of = s
    <3>1. OwnerOK(j)
      BY DEF SessionInv
    <3>2. start[j].pc = "done" => launch'[j].disposed
      BY <2>2, <3>1 DEF OwnerOK, Replaced
    <3> QED
      BY <1>1, <1>2, <1>4, <2>2, <3>2 DEF OwnerOK
  <2>3. CASE j # k /\ start[j].of # s
    <3>1. OwnerOK(j)
      BY DEF SessionInv
    <3> QED
      BY <1>2, <1>3, <2>3, <3>1 DEF OwnerOK, InFlight
  <2> QED
    BY <2>1, <2>2, <2>3
<1>8. ASSUME NEW r \in Sessions
      PROVE  SessionOK(r)'
  <2>1. SessionOK(r) /\ session[r] \in Session
    BY DEF SessionInv, SessionsTyped
  <2>2. session[r].current \in 0..MaxLaunches /\ session[r].restarting \in 0..MaxLaunches
    BY <2>1 DEF Session
  <2>3. CASE r = s
    BY <1>2, <1>5, <2>3 DEF SessionOK
  <2>4. CASE r # s
    <3>1. session[r].current # 0 => session[r].current \in Launches \ {k}
      BY <2>1, <2>2 DEF SessionOK, InFlight
    <3>2. session[r].restarting # 0 => session[r].restarting \in Launches \ {k}
      BY <2>1, <2>2, <2>4 DEF SessionOK
    <3> QED
      BY <1>2, <1>3, <2>1, <2>4, <3>1, <3>2 DEF SessionOK
  <2> QED
    BY <2>3, <2>4
<1> QED
  BY <1>6, <1>7, <1>8 DEF SessionInv

LEMMA ShutdownKeeps ==
  ASSUME SessionsTyped, SessionInv, \A k \in Launches : StageOK(k),
         LaunchesTyped, LaunchInv,
         NEW S \in SUBSET Sessions, Shutdown(S), provider' \in Provider
  PROVE  IInv'
<1> DEFINE alive == {s \in S : session[s].current # 0}
           C == CancelledBy(alive)
           T == {k \in C : start[k].pc = "launching"}
           D == {session[s].current : s \in alive} \cup (C \ T)
<1>1. \A s \in Sessions : /\ session[s].current \in 0..MaxLaunches
                          /\ session[s].restarting \in 0..MaxLaunches
                          /\ SessionOK(s)
  BY DEF SessionsTyped, Session, SessionInv
<1>2. ASSUME NEW k \in C
      PROVE  /\ k \in Launches /\ InFlight(k)
             /\ start[k].of \in alive /\ session[start[k].of].restarting = k
  BY <1>1 DEF CancelledBy, SessionOK
<1>3. ASSUME NEW k \in D
      PROVE  k \in Launches /\ launch[k].stage = "launched"
  <2>1. CASE k \in C \ T
    <3>1. k \in Launches /\ start[k].pc = "connecting"
      BY <1>2, <2>1 DEF InFlight
    <3> QED
      BY <3>1 DEF StageOK
  <2>2. CASE k \in {session[s].current : s \in alive}
    <3>1. k \in Launches /\ start[k].pc = "done"
      BY <1>1, <2>2 DEF SessionOK
    <3> QED
      BY <3>1 DEF StageOK
  <2> QED
    BY <2>1, <2>2
<1>4. ASSUME NEW k \in T
      PROVE  k \in Launches /\ launch[k].stage \in {"ports", "launching"}
  <2>1. k \in Launches /\ start[k].pc = "launching"
    BY <1>2
  <2> QED
    BY <2>1 DEF StageOK
<1>5. T \in SUBSET Launches /\ D \in SUBSET Launches
  BY <1>3, <1>4
<1>6. /\ \A k \in Launches : launch'[k] = IF k \in T THEN ThrownLaunch(k)[k]
                                          ELSE Disposed(D)[k]
      /\ launch' = [k \in Launches |-> IF k \in T THEN ThrownLaunch(k)[k]
                                       ELSE Disposed(D)[k]]
      /\ usedPorts' = usedPorts \ FreedBy(D) /\ portChain' = portChain
      /\ \A k \in Launches : start'[k].pc = IF k \in C THEN "failed" ELSE start[k].pc
  BY DEF Shutdown, SessionsTyped, Starts
<1>7. \A k \in T : k \in C
  OBVIOUS
<1>8. \A k \in C : k \in T \cup D
  OBVIOUS
<1> HIDE DEF T, D
<1>9. LaunchInv'
  BY <1>3, <1>4, <1>5, <1>6, EndsKeep
<1>10. \A k \in Launches : /\ StageOK(k)'
                           /\ launch[k].disposed \/ k \in D => launch'[k].disposed
  <2>1. \A k \in Launches :
            \/ k \notin T /\ start'[k].pc = start[k].pc
            \/ k \in T \cup D /\ start'[k].pc = "failed"
    BY <1>6, <1>7, <1>8
  <2> QED
    BY <1>3, <1>4, <1>5, <1>6, <2>1, EndsStages
<1>11. LaunchesTyped'
  <2>1. \A k \in Launches : ThrownLaunch(k)[k] \in Launch /\ Disposed(D)[k] \in Launch
    BY ThrownFields, DisposedFields
  <2> QED
    BY <1>6, <2>1 DEF LaunchesTyped
<1>12. /\ SessionsTyped'
       /\ \A j \in Launches : start'[j].of = start[j].of
       /\ \A s \in Sessions :
             /\ session'[s].state = session[s].state
             /\ IF s \in alive
                THEN /\ session'[s].isDisposed
                     /\ session'[s].over
                     /\ session'[s].current = 0
                     /\ session'[s].restarting = 0
                ELSE /\ session'[s].current = session[s].current
                     /\ session'[s].restarting = session[s].restarting
                     /\ session'[s].over = session[s].over
                     /\ session[s].isDisposed => session'[s].isDisposed
  BY ShutdownFields
<1>13. \A k \in Launches : InFlight(k)' <=> InFlight(k) /\ k \notin C
  BY <1>6 DEF InFlight
<1>14. ASSUME NEW k \in Launches
       PROVE  OwnerOK(k)'
  <2>1. OwnerOK(k) /\ (start'[k].pc # "unused" => start[k].pc # "unused")
    BY <1>2, <1>6 DEF SessionInv, InFlight
  <2>2. CASE start[k].of \in alive
    <3>1. InFlight(k) => k \in C
      <4>1. session[start[k].of].current # 0 => session[start[k].of].state = "connected"
        BY <1>1, <2>2 DEF SessionOK
      <4>2. InFlight(k) => session[start[k].of].restarting = k /\ k # 0
        BY <2>1, <2>2, <4>1 DEF OwnerOK
      <4> QED
        BY <2>2, <4>2 DEF CancelledBy
    <3>2. start'[k].pc = "done" => launch'[k].disposed
      <4>1. start'[k].pc = "done" => start[k].pc = "done"
        BY <1>6
      <4>2. session[start[k].of].current = k => k \in D
        BY <2>2 DEF D
      <4> QED
        BY <1>10, <2>1, <4>1, <4>2 DEF OwnerOK
    <3> QED
      BY <1>12, <1>13, <2>1, <2>2, <3>1, <3>2 DEF OwnerOK
  <2>3. CASE start[k].of \in Sessions \ alive
    <3>1. start'[k].pc = "done" => start[k].pc = "done"
      BY <1>6
    <3> HIDE DEF alive, C
    <3> QED
      BY <1>10, <1>12, <1>13, <2>1, <2>3, <3>1 DEF OwnerOK
  <2>4. CASE start[k].of \notin Sessions
    BY <1>6, <1>12, <1>13, <2>1, <2>4 DEF OwnerOK, InFlight
  <2> QED
    BY <2>2, <2>3, <2>4
<1>15. ASSUME NEW s \in Sessions
       PROVE  SessionOK(s)'
  <2>1. CASE s \in alive
    <3>1. session[s].state = "connected"
      BY <1>1, <2>1 DEF SessionOK
    <3> HIDE DEF alive, C
    <3>2. /\ session'[s].state = "connected" /\ session'[s].isDisposed
          /\ session'[s].current = 0 /\ session'[s].restarting = 0
      BY <1>12, <2>1, <3>1
    <3> QED
      BY <3>2 DEF SessionOK
  <2>2. CASE s \notin alive
    <3>1. session[s].current # 0 => session[s].current \in Launches \ C
      BY <1>1, <1>2 DEF SessionOK, InFlight
    <3>2. session[s].restarting # 0 => session[s].restarting \in Launches \ C
      BY <1>1, <1>2, <2>2 DEF SessionOK
    <3> HIDE DEF alive, C
    <3> QED
      BY <1>1, <1>6, <1>12, <1>13, <2>2, <3>1, <3>2 DEF SessionOK
  <2> QED
    BY <2>1, <2>2
<1>16. OneStart'
  BY <1>12, <1>13 DEF SessionInv, OneStart
<1> QED
  BY <1>9, <1>10, <1>11, <1>12, <1>14, <1>15, <1>16 DEF IInv, SessionInv
-----------------------------------------------------------------------------
(* The steps.                                                              *)
(* A step of the launcher alone.                                           *)
LEMMA SessionsAsideKeep ==
  ASSUME SessionInv, UNCHANGED sessionVars,
         \A k \in Launches : launch[k].disposed => launch'[k].disposed
  PROVE  SessionInv'
<1>1. start' = start /\ session' = session
  BY DEF sessionVars
<1>2. \A k \in Launches : OwnerOK(k)'
  BY <1>1 DEF SessionInv, OwnerOK, InFlight
<1>3. OneStart'
  BY <1>1 DEF SessionInv, OneStart, InFlight
<1>4. \A s \in Sessions : SessionOK(s)'
  BY <1>1 DEF SessionInv, SessionOK, InFlight
<1> QED
  BY <1>2, <1>3, <1>4 DEF SessionInv

LEMMA SameSessionsTyped ==
  ASSUME SessionsTyped, UNCHANGED sessionVars
  PROVE  SessionsTyped'
  BY DEF SessionsTyped, sessionVars

LEMMA BeginStep ==
  ASSUME IInv, NEW s \in Sessions, NEW k \in Launches, BeginStart(s, k),
         \/ session[s].state = "new"
         \/ /\ session[s].state = "connected" /\ ~session[s].isDisposed
            /\ ~\E j \in Launches : start[j].of = s /\ InFlight(j)
  PROVE  IInv'
<1>1. LaunchesTyped /\ SessionsTyped /\ LaunchInv /\ SessionInv
      /\ \A j \in Launches : StageOK(j)
  BY DEF IInv
<1>2. CallLaunch(k)
  BY DEF BeginStart
<1>3. LaunchesTyped' /\ LaunchInv'
  BY <1>1, <1>2, CallFields, CallKeeps
<1>4. /\ \A j \in Launches \ {k} : launch'[j] = launch[j]
      /\ launch[k].stage = "unused"
      /\ launch'[k].stage \in {"ports", "failed"}
      /\ launch'[k].process = launch[k].process
      /\ launch'[k].disposed = launch[k].disposed
  BY <1>1, <1>2, CallFields
<1>5. /\ SessionsTyped'
      /\ \A j \in Launches \ {k} : start'[j] = start[j]
      /\ start'[k].pc = IF launch'[k].stage = "failed" THEN "failed" ELSE "launching"
  BY <1>1, BeginStartFields
<1>6. start[k].pc = "unused" /\ launch[k].process = "none"
  BY <1>1, <1>4 DEF StageOK, LaunchInv, LaunchOK
<1>7. ASSUME NEW j \in Launches
      PROVE  StageOK(j)'
  BY <1>1, <1>4, <1>5, <1>6 DEF StageOK
<1>8. SessionInv'
  BY <1>1, <1>4, <1>6, BeginKeeps
<1> QED
  BY <1>3, <1>5, <1>7, <1>8 DEF IInv

LEMMA ThrowsStep ==
  ASSUME IInv, NEW k \in Launches, InFlight(k), Throws(k)
  PROVE  IInv'
<1>1. LaunchesTyped /\ SessionsTyped /\ LaunchInv /\ SessionInv
      /\ \A j \in Launches : StageOK(j)
  BY DEF IInv
<1> DEFINE T == IF start[k].pc = "launching" THEN {k} ELSE {}
           D == IF start[k].pc = "launching" THEN {} ELSE {k}
<1>2. /\ T \in SUBSET Launches /\ D \in SUBSET Launches
      /\ \A j \in T : launch[j].stage \in {"ports", "launching"}
      /\ \A j \in D : launch[j].stage = "launched"
      /\ T \cup D = {k}
  BY <1>1 DEF StageOK, InFlight
<1>3. /\ \A j \in Launches : launch'[j] = IF j \in T THEN ThrownLaunch(j)[j]
                                          ELSE Disposed(D)[j]
      /\ usedPorts' = usedPorts \ FreedBy(D)
      /\ LaunchesTyped'
  <2>1. CASE start[k].pc = "launching"
    <3>1. launch' = ThrownLaunch(k) /\ UNCHANGED <<usedPorts, portChain>>
      BY <2>1 DEF Throws
    <3>2. T = {k} /\ D = {}
      BY <2>1
    <3>3. FreedBy({}) = {} /\ \A j \in Launches : Disposed({})[j] = launch[j]
      BY DEF FreedBy, Disposed
    <3>4. \A j \in Launches \ {k} : ThrownLaunch(k)[j] = launch[j]
      BY <1>1 DEF ThrownLaunch, LaunchesTyped
    <3>5. LaunchesTyped'
      BY <1>1, <3>1, ThrownTyped DEF LaunchesTyped
    <3> HIDE DEF T, D
    <3> QED
      BY <3>1, <3>2, <3>3, <3>4, <3>5
  <2>2. CASE start[k].pc # "launching"
    <3>1. DisposeProcesses({k})
      BY <2>2 DEF Throws
    <3>2. T = {} /\ D = {k}
      BY <2>2
    <3>3. LaunchesTyped'
      BY <1>1, <3>1, DisposeTyped
    <3> HIDE DEF T, D
    <3> QED
      BY <3>1, <3>2, <3>3 DEF DisposeProcesses
  <2> QED
    BY <2>1, <2>2
<1> HIDE DEF T, D
<1>4. StartsFail({k})
  BY DEF Throws
<1>5. \A j \in Launches : start'[j].pc = IF j = k THEN "failed" ELSE start[j].pc
  BY <1>1, <1>4 DEF StartsFail, SessionsTyped, Starts
<1>6. LaunchInv'
  BY <1>1, <1>2, <1>3, EndsKeep
<1>7. \A j \in Launches : /\ StageOK(j)'
                          /\ launch[j].disposed => launch'[j].disposed
  BY <1>1, <1>2, <1>3, <1>5, EndsStages
<1>8. SessionInv' /\ SessionsTyped'
  BY <1>1, <1>4, <1>7, FailKeeps, StartsFailTyped
<1> QED
  BY <1>3, <1>6, <1>7, <1>8 DEF IInv

LEMMA FindStep ==
  ASSUME IInv, NEW k \in Launches, PortsFound(k)
  PROVE  IInv'
<1>1. LaunchesTyped /\ SessionsTyped /\ LaunchInv /\ SessionInv
      /\ \A j \in Launches : StageOK(j)
  BY DEF IInv
<1>2. FindPorts(k) /\ UNCHANGED sessionVars
  BY DEF PortsFound
<1>3. LaunchesTyped' /\ LaunchInv'
  BY <1>1, <1>2, FindFields, FindKeeps
<1>4. \A j \in Launches :
         /\ launch'[j].disposed = launch[j].disposed
         /\ \/ /\ launch'[j].stage = launch[j].stage
               /\ launch'[j].process = launch[j].process
            \/ launch[j].stage = "ports" /\ launch'[j].stage = "launching"
  BY <1>1, <1>2, FindFields
<1>5. ASSUME NEW j \in Launches
      PROVE  StageOK(j)'
  <2>1. StageOK(j) /\ start'[j] = start[j]
    BY <1>1, <1>2 DEF sessionVars
  <2> QED
    BY <1>4, <2>1 DEF StageOK
<1>6. SessionInv' /\ SessionsTyped'
  BY <1>1, <1>2, <1>4, SessionsAsideKeep, SameSessionsTyped
<1> QED
  BY <1>3, <1>5, <1>6 DEF IInv

LEMMA NoPortsStep ==
  ASSUME IInv, NEW k \in Launches, PortsExhausted(k)
  PROVE  IInv'
<1>1. LaunchesTyped /\ SessionsTyped /\ LaunchInv /\ SessionInv
      /\ \A j \in Launches : StageOK(j)
  BY DEF IInv
<1>2. FindNoPorts(k) /\ StartsFail(Refused)
  BY DEF PortsExhausted
<1>3. LaunchesTyped' /\ LaunchInv'
  BY <1>1, <1>2, NoPortsFields, NoPortsKeeps
<1>4. \A j \in Launches :
         /\ launch'[j].process = launch[j].process
         /\ launch'[j].disposed = launch[j].disposed
         /\ \/ launch'[j].stage = launch[j].stage
            \/ launch[j].stage \in {"ports", "failed"} /\ launch'[j].stage = "failed"
  <2>1. \A j \in Launches : LaunchOK(j)
    BY <1>1 DEF LaunchInv
  <2> QED
    BY <1>1, <1>2, <2>1, NoPortsFields DEF LaunchOK
<1>5. /\ Refused \in SUBSET Launches
      /\ \A j \in Refused : InFlight(j)
  BY DEF Refused, InFlight
<1>6. \A j \in Launches : start'[j].pc = IF j \in Refused THEN "failed" ELSE start[j].pc
  BY <1>1, <1>2 DEF StartsFail, SessionsTyped, Starts
<1>7. ASSUME NEW j \in Launches
      PROVE  StageOK(j)'
  <2>1. StageOK(j) /\ LaunchOK(j)
    BY <1>1 DEF LaunchInv
  <2>2. CASE j \in Refused
    <3>1. launch'[j].stage = "failed" /\ start[j].pc = "launching" /\ start'[j].pc = "failed"
      BY <1>6, <2>2 DEF Refused
    <3>2. launch'[j].process = "none"
      BY <1>4, <2>1, <3>1 DEF StageOK, LaunchOK
    <3> QED
      BY <3>1, <3>2 DEF StageOK
  <2>3. CASE j \notin Refused
    <3>1. start'[j].pc = start[j].pc
      BY <1>6, <2>3
    <3>2. start[j].pc = "launching" => launch'[j].stage # "failed"
      BY <2>3 DEF Refused
    <3> QED
      BY <1>4, <2>1, <3>1, <3>2 DEF StageOK
  <2> QED
    BY <2>2, <2>3
<1>8. SessionInv' /\ SessionsTyped'
  BY <1>1, <1>2, <1>4, <1>5, FailKeeps, StartsFailTyped
<1> QED
  BY <1>3, <1>7, <1>8 DEF IInv

LEMMA SpawnStep ==
  ASSUME IInv, NEW k \in Launches, Spawned(k)
  PROVE  IInv'
<1>1. LaunchesTyped /\ SessionsTyped /\ LaunchInv /\ SessionInv
      /\ \A j \in Launches : StageOK(j)
  BY DEF IInv
<1>2. Spawn(k) /\ UNCHANGED sessionVars
  BY DEF Spawned
<1>3. LaunchesTyped' /\ LaunchInv'
  BY <1>1, <1>2, SpawnFields, SpawnKeeps
<1>4. \A j \in Launches :
         /\ launch'[j].stage = launch[j].stage
         /\ launch'[j].disposed = launch[j].disposed
         /\ launch[j].process = "none" => launch'[j].process = "none"
  BY <1>1, <1>2, SpawnFields
<1>5. ASSUME NEW j \in Launches
      PROVE  StageOK(j)'
  <2>1. StageOK(j) /\ start'[j] = start[j]
    BY <1>1, <1>2 DEF sessionVars
  <2> QED
    BY <1>4, <2>1 DEF StageOK
<1>6. SessionInv' /\ SessionsTyped'
  BY <1>1, <1>2, <1>4, SessionsAsideKeep, SameSessionsTyped
<1> QED
  BY <1>3, <1>5, <1>6 DEF IInv

(* The start goes on from launching to connecting: both are in flight.     *)
LEMMA LaunchedStep ==
  ASSUME IInv, NEW k \in Launches, Launched(k)
  PROVE  IInv'
<1>1. LaunchesTyped /\ SessionsTyped /\ LaunchInv /\ SessionInv
      /\ \A j \in Launches : StageOK(j)
  BY DEF IInv
<1>2. /\ Listening(k) /\ session' = session /\ provider' = provider
      /\ start' = [start EXCEPT ![k].pc = "connecting"]
  BY DEF Launched
<1>3. LaunchesTyped' /\ LaunchInv'
  BY <1>1, <1>2, ListeningFields, ListeningKeeps
<1>4. /\ launch[k].stage = "launching" /\ launch'[k].stage = "launched"
      /\ \A j \in Launches \ {k} : launch'[j] = launch[j]
      /\ \A j \in Launches : launch'[j].disposed = launch[j].disposed
  BY <1>1, <1>2, ListeningFields
<1>5. /\ SessionsTyped'
      /\ \A j \in Launches : start'[j].of = start[j].of
      /\ \A j \in Launches \ {k} : start'[j].pc = start[j].pc
      /\ start'[k].pc = "connecting"
  BY <1>1, <1>2 DEF SessionsTyped, Starts
<1>6. start[k].pc \in {"unused", "launching", "connecting", "done", "failed"}
  BY <1>1 DEF SessionsTyped, Starts
<1>7. start[k].pc = "launching"
  BY <1>1, <1>4, <1>6 DEF StageOK
<1>8. ASSUME NEW j \in Launches
      PROVE  StageOK(j)'
  <2>1. CASE j = k
    BY <1>4, <1>5, <2>1 DEF StageOK
  <2>2. CASE j # k
    BY <1>1, <1>4, <1>5, <2>2 DEF StageOK
  <2> QED
    BY <2>1, <2>2
<1>9. \A j \in Launches : InFlight(j)' <=> InFlight(j)
  BY <1>5, <1>7 DEF InFlight
<1>10. ASSUME NEW j \in Launches
       PROVE  OwnerOK(j)'
  <2>1. OwnerOK(j) /\ (start'[j].pc # "unused" => start[j].pc # "unused")
        /\ (start'[j].pc = "done" => start[j].pc = "done")
    BY <1>1, <1>5, <1>7 DEF SessionInv
  <2> QED
    BY <1>2, <1>4, <1>5, <1>9, <2>1 DEF OwnerOK
<1>11. ASSUME NEW s \in Sessions
       PROVE  SessionOK(s)'
  <2>1. SessionOK(s) /\ session[s].current \in 0..MaxLaunches
        /\ session[s].restarting \in 0..MaxLaunches
    BY <1>1 DEF SessionInv, SessionsTyped, Session
  <2>2. session[s].current # 0 => session[s].current \in Launches \ {k}
    BY <1>7, <2>1 DEF SessionOK
  <2>3. session[s].restarting # 0 => session[s].restarting \in Launches
    BY <2>1
  <2> QED
    BY <1>2, <1>5, <1>9, <2>1, <2>2, <2>3 DEF SessionOK
<1>12. SessionInv'
  BY <1>1, <1>5, <1>9, <1>10, <1>11 DEF SessionInv, OneStart
<1> QED
  BY <1>3, <1>5, <1>8, <1>12 DEF IInv

LEMMA ConnectedStep ==
  ASSUME IInv, NEW k \in Launches, Connected(k)
  PROVE  IInv'
<1>1. LaunchesTyped /\ SessionsTyped /\ LaunchInv /\ SessionInv
      /\ \A j \in Launches : StageOK(j)
  BY DEF IInv
<1>2. start[k].pc = "connecting" /\ InFlight(k) /\ StartSucceeds(k)
  BY DEF Connected, InFlight
<1> DEFINE s == start[k].of
           D == Replaced(s)
<1>3. s \in Sessions
  BY <1>1, <1>2 DEF SessionInv, OwnerOK
<1>4. /\ D \in SUBSET Launches
      /\ \A j \in D : launch[j].stage = "launched"
  <2>1. SessionOK(s) /\ session[s].current \in 0..MaxLaunches
    BY <1>1, <1>3 DEF SessionInv, SessionsTyped, Session
  <2>2. \A j \in D : j \in Launches /\ start[j].pc = "done"
    BY <2>1 DEF Replaced, SessionOK
  <2> QED
    BY <1>1, <2>2 DEF StageOK
<1>5. DisposeProcesses(D)
  BY <1>2 DEF StartSucceeds
<1>6. /\ \A j \in Launches : launch'[j] = Disposed(D)[j]
      /\ usedPorts' = usedPorts \ FreedBy(D)
      /\ LaunchesTyped'
  BY <1>1, <1>5, DisposeTyped DEF DisposeProcesses
<1>7. /\ SessionsTyped'
      /\ \A j \in Launches \ {k} : start'[j].pc = start[j].pc
      /\ start'[k].pc = "done"
  BY <1>1, <1>2, <1>3, SucceedFields
<1>8. LaunchInv' /\ \A j \in Launches : /\ StageOK(j)'
                                        /\ launch[j].disposed \/ j \in D => launch'[j].disposed
  <2> HIDE DEF D
  <2>1. {} \in SUBSET Launches
    OBVIOUS
  <2>2. LaunchInv'
    BY <1>1, <1>4, <1>6, <2>1, EndsKeep
  <2>3. \A j \in Launches : /\ StageOK(j)'
                            /\ launch[j].disposed \/ j \in D => launch'[j].disposed
    BY <1>1, <1>2, <1>4, <1>6, <1>7, <2>1, EndsStages
  <2> QED
    BY <2>2, <2>3
<1>9. SessionInv'
  BY <1>1, <1>2, <1>8, SucceedKeeps
<1> QED
  BY <1>6, <1>7, <1>8, <1>9 DEF IInv

LEMMA ExitStep ==
  ASSUME IInv, NEW k \in Launches, ProcessExits(k)
  PROVE  IInv'
<1>1. LaunchesTyped /\ SessionsTyped /\ LaunchInv /\ SessionInv
      /\ \A j \in Launches : StageOK(j)
  BY DEF IInv
<1>2. Running(k)
  BY DEF ProcessExits
<1>3. CASE /\ launch[k].disposed /\ launch' = Exited(k)
           /\ UNCHANGED <<usedPorts, portChain, sessionVars>>
  <2>1. LaunchInv'
    BY <1>1, <1>2, <1>3, ExitKeeps
  <2>2. LaunchesTyped'
    BY <1>1, <1>3, ExitedFields DEF LaunchesTyped
  <2>3. \A j \in Launches :
           /\ launch'[j].stage = launch[j].stage
           /\ launch'[j].disposed = launch[j].disposed
           /\ launch[j].process = "none" => launch'[j].process = "none"
    BY <1>1, <1>2, <1>3, ExitedFields DEF Running
  <2>4. ASSUME NEW j \in Launches
        PROVE  StageOK(j)'
    <3>1. StageOK(j) /\ start'[j] = start[j]
      BY <1>1, <1>3 DEF sessionVars
    <3> QED
      BY <2>3, <3>1 DEF StageOK
  <2>5. SessionInv' /\ SessionsTyped'
    BY <1>1, <1>3, <2>3, SessionsAsideKeep, SameSessionsTyped
  <2> QED
    BY <2>1, <2>2, <2>4, <2>5 DEF IInv
<1>4. CASE start[k].pc = "launching" /\ Throws(k)
  BY <1>4, ThrowsStep DEF InFlight
<1>5. CASE /\ ~launch[k].disposed /\ start[k].pc # "launching"
           /\ DisposeProcesses({k})
           /\ session' = [s \in Sessions |-> IF session[s].current = k
                                             THEN [session[s] EXCEPT !.current = 0]
                                             ELSE session[s]]
           /\ start' = start /\ provider' = provider
  <2>1. start[k].pc \in {"unused", "launching", "connecting", "done", "failed"}
    BY <1>1 DEF SessionsTyped, Starts
  <2>2. StageOK(k) /\ LaunchOK(k)
    BY <1>1 DEF LaunchInv
  <2>3. start[k].pc \in {"connecting", "done"}
    BY <1>2, <1>5, <2>1, <2>2 DEF StageOK, LaunchOK, Running
  <2>4. launch[k].stage = "launched"
    BY <2>2, <2>3 DEF StageOK
  <2>5. /\ {k} \in SUBSET Launches /\ {} \in SUBSET Launches
        /\ \A j \in Launches : launch'[j] = Disposed({k})[j]
        /\ usedPorts' = usedPorts \ FreedBy({k})
        /\ LaunchesTyped'
    BY <1>1, <1>5, DisposeTyped DEF DisposeProcesses
  <2>6. LaunchInv'
    BY <1>1, <2>4, <2>5, EndsKeep
  <2>7. \A j \in Launches : /\ StageOK(j)'
                            /\ launch[j].disposed \/ j \in {k} => launch'[j].disposed
    BY <1>1, <1>5, <2>4, <2>5, EndsStages
  <2>8. ASSUME NEW s \in Sessions
        PROVE  /\ session'[s] \in Session
               /\ session'[s].state = session[s].state
               /\ session'[s].restarting = session[s].restarting
               /\ session'[s].over = session[s].over
               /\ session'[s].isDisposed = session[s].isDisposed
               /\ session'[s].current = IF session[s].current = k THEN 0 ELSE session[s].current
    <3>1. session[s] \in Session /\ 0 \in 0..MaxLaunches
      BY <1>1 DEF SessionsTyped
    <3>2. [session[s] EXCEPT !.current = 0] \in Session
      BY <3>1 DEF Session
    <3>3. session'[s] = IF session[s].current = k THEN [session[s] EXCEPT !.current = 0]
                        ELSE session[s]
      BY <1>5
    <3> QED
      BY <3>1, <3>2, <3>3 DEF Session
  <2>9. SessionsTyped'
    <3>1. session' \in [Sessions -> Session]
      BY <1>5, <2>8
    <3> QED
      BY <1>1, <1>5, <3>1 DEF SessionsTyped
  <2>10. \A j \in Launches : OwnerOK(j)'
    <3>1. ASSUME NEW j \in Launches
          PROVE  OwnerOK(j)'
      <4>1. OwnerOK(j) /\ start'[j] = start[j] /\ (InFlight(j)' <=> InFlight(j))
        BY <1>1, <1>5 DEF SessionInv, InFlight
      <4>2. CASE start[j].of \in Sessions
        BY <2>7, <2>8, <4>1, <4>2 DEF OwnerOK
      <4>3. CASE start[j].of \notin Sessions
        BY <4>1, <4>3 DEF OwnerOK, InFlight
      <4> QED
        BY <4>2, <4>3
    <3> QED
      BY <3>1
  <2>11. \A s \in Sessions : SessionOK(s)'
    <3>1. ASSUME NEW s \in Sessions
          PROVE  SessionOK(s)'
      <4>1. SessionOK(s)
        BY <1>1 DEF SessionInv
      <4> QED
        BY <1>5, <2>8, <4>1 DEF SessionOK, InFlight
    <3> QED
      BY <3>1
  <2>12. OneStart'
    BY <1>1, <1>5 DEF SessionInv, OneStart, InFlight
  <2> QED
    BY <2>5, <2>6, <2>7, <2>9, <2>10, <2>11, <2>12 DEF IInv, SessionInv
<1> QED
  BY <1>3, <1>4, <1>5 DEF ProcessExits

(* The provider: it shuts sessions down or only looks at them.             *)
LEMMA ProviderStep ==
  ASSUME IInv, ProviderDispose \/ ProviderGoesOn \/ ProviderFails
  PROVE  IInv'
<1>1. LaunchesTyped /\ SessionsTyped /\ LaunchInv /\ SessionInv
      /\ \A j \in Launches : StageOK(j)
  BY DEF IInv
<1>2. provider \in Provider
  BY <1>1 DEF SessionsTyped
<1>3. CASE ProviderGoesOn
  <2>1. provider.awaits \in SUBSET Sessions /\ Shutdown(provider.awaits)
    BY <1>2, <1>3 DEF Provider, ProviderGoesOn
  <2>2. provider' \in Provider
    BY <1>2, <1>3 DEF Provider, ProviderGoesOn
  <2> QED
    BY <1>1, <2>1, <2>2, ShutdownKeeps
<1>4. CASE ProviderDispose \/ ProviderFails
  <2>1. provider' \in Provider
    BY <1>2, <1>4 DEF Provider, ProviderDispose, ProviderFails, Tracked
  <2>2. launch' = launch /\ usedPorts' = usedPorts /\ portChain' = portChain
        /\ start' = start /\ session' = session
    BY <1>4 DEF ProviderDispose, ProviderFails, launcherVars
  <2>3. LaunchesTyped' /\ SessionsTyped'
    BY <1>1, <2>1, <2>2 DEF LaunchesTyped, SessionsTyped
  <2>4. LaunchInv'
    BY <1>1, <2>2 DEF LaunchInv, LaunchOK, PortsComeBack, PortsAreApart, GivenBack
  <2>5. \A j \in Launches : StageOK(j)'
    BY <1>1, <2>2 DEF StageOK
  <2>6. SessionInv'
    BY <1>1, <2>2 DEF SessionInv, OwnerOK, OneStart, SessionOK, InFlight
  <2> QED
    BY <2>3, <2>4, <2>5, <2>6 DEF IInv
<1> QED
  BY <1>3, <1>4
LEMMA NextKeeps ==
  ASSUME IInv, Next
  PROVE  IInv'
<1>1. ASSUME NEW s \in Sessions, CreateNotebook(s)
      PROVE  IInv'
  BY <1>1, BeginStep DEF CreateNotebook
<1>2. ASSUME NEW s \in Sessions, Restart(s)
      PROVE  IInv'
  BY <1>2, BeginStep DEF Restart
<1>3. ASSUME NEW s \in Sessions, CancelStart(s)
      PROVE  IInv'
  BY <1>3, ThrowsStep DEF CancelStart
<1>4. ASSUME NEW s \in Sessions, Dispose(s)
      PROVE  IInv'
  <2>1. {s} \in SUBSET Sessions /\ Shutdown({s}) /\ provider' \in Provider
    BY <1>4 DEF Dispose, IInv, SessionsTyped
  <2> QED
    BY <2>1, ShutdownKeeps DEF IInv
<1>5. ASSUME NEW k \in Launches, StartFails(k)
      PROVE  IInv'
  BY <1>5, ThrowsStep DEF StartFails, InFlight
<1>6. ASSUME NEW k \in Launches, StartStep(k)
      PROVE  IInv'
  BY <1>5, <1>6, FindStep, NoPortsStep, SpawnStep, LaunchedStep, ConnectedStep DEF StartStep
<1>7. ASSUME NEW k \in Launches, ProcessExits(k)
      PROVE  IInv'
  BY <1>7, ExitStep
<1>8. ASSUME ProviderDispose \/ ProviderGoesOn \/ ProviderFails
      PROVE  IInv'
  BY <1>8, ProviderStep
<1> QED
  BY <1>1, <1>2, <1>3, <1>4, <1>6, <1>7, <1>8 DEF Next

LEMMA StutterKeeps ==
  ASSUME IInv, UNCHANGED vars
  PROVE  IInv'
<1>1. /\ launch' = launch /\ usedPorts' = usedPorts /\ portChain' = portChain
      /\ start' = start /\ session' = session /\ provider' = provider
  BY DEF vars, launcherVars, sessionVars
<1>2. LaunchesTyped' /\ SessionsTyped'
  BY <1>1 DEF IInv, LaunchesTyped, SessionsTyped
<1>3. LaunchInv'
  BY <1>1 DEF IInv, LaunchInv, LaunchOK, PortsComeBack, PortsAreApart, GivenBack
<1>4. \A j \in Launches : StageOK(j)'
  BY <1>1 DEF IInv, StageOK
<1>5. SessionInv'
  BY <1>1 DEF IInv, SessionInv, OwnerOK, OneStart, SessionOK, InFlight
<1> QED
  BY <1>2, <1>3, <1>4, <1>5 DEF IInv

LEMMA InitHolds ==
  ASSUME Init
  PROVE  IInv
<1>1. 0 \in 0..MaxLaunches /\ 0 \in 0..MaxSessions /\ 1 \in Ports /\ FALSE \in BOOLEAN
  OBVIOUS
<1>2. Unlaunched \in Launch
  BY <1>1 DEF Unlaunched, Launch, Stages, Searches, Processes
<1>3. LaunchesTyped
  BY <1>1, <1>2 DEF Init, LauncherInit, LaunchesTyped
<1>4. [state |-> "new", current |-> 0, restarting |-> 0,
       isDisposed |-> FALSE, over |-> FALSE] \in Session
  BY <1>1 DEF Session
<1>5. SessionsTyped
  BY <1>1, <1>4 DEF Init, SessionsTyped, Starts, Provider
<1>6. \A k \in Launches : launch[k] = Unlaunched /\ start[k].pc = "unused"
  BY DEF Init, LauncherInit
<1>7. LaunchInv
  <2>1. \A k \in Launches : LaunchOK(k) /\ launch[k].ports = {}
    BY <1>6 DEF LaunchOK, Unlaunched
  <2>2. usedPorts = {}
    BY DEF Init, LauncherInit
  <2> QED
    BY <2>1, <2>2 DEF LaunchInv, PortsComeBack, PortsAreApart
<1>8. \A k \in Launches : StageOK(k)
  BY <1>6 DEF StageOK, Unlaunched
<1>9. SessionInv
  <2>1. \A s \in Sessions : SessionOK(s)
    BY DEF Init, SessionOK
  <2> QED
    BY <1>6, <2>1 DEF SessionInv, OwnerOK, OneStart, InFlight
<1> QED
  BY <1>3, <1>5, <1>7, <1>8, <1>9 DEF IInv

(* The launches and the sessions of the provider keep to IInv in every     *)
(* reachable state.                                                        *)
THEOREM Invariant == Spec => []IInv
<1>1. Init => IInv
  BY InitHolds
<1>2. IInv /\ [Next]_vars => IInv'
  BY NextKeeps, StutterKeeps
<1> QED
  BY <1>1, <1>2, PTL DEF Spec

-----------------------------------------------------------------------------
(* The variables keep their types in every behaviour.                      *)
THEOREM TypeCorrect == Spec => []TypeOK
<1>1. IInv => TypeOK
  BY TypedParts DEF IInv
<1> QED
  BY <1>1, Invariant, PTL

(* The ports of the used set are those of the launches that were not given *)
(* back, whatever was cancelled, failed, died or was restarted.            *)
THEOREM PortsReturn == Spec => []PortsComeBack
<1>1. IInv => PortsComeBack
  BY DEF IInv, LaunchInv
<1> QED
  BY <1>1, Invariant, PTL

(* Kernels that run, or that are about to be spawned, have no port in      *)
(* common: neither has been given back.                                    *)
THEOREM ExclusivePorts == Spec => []PortsAreExclusive
<1>1. ASSUME IInv
      PROVE  PortsAreExclusive
  <2>1. \A k \in Launches : Holds(k) => ~GivenBack(k)
    BY <1>1 DEF IInv, LaunchInv, LaunchOK, Holds, GivenBack
  <2> QED
    BY <1>1, <2>1 DEF IInv, LaunchInv, PortsAreApart, PortsAreExclusive
<1> QED
  BY <1>1, Invariant, PTL

LEMMA OwnersKnown ==
  ASSUME IInv
  PROVE  ProcessesAreOwned
<1> SUFFICES ASSUME NEW k \in Launches, Running(k), ~SpawnedTooLate(k), ~InFlight(k)
             PROVE  session[start[k].of].current = k
  BY DEF ProcessesAreOwned
<1>1. StageOK(k) /\ LaunchOK(k) /\ OwnerOK(k)
  BY DEF IInv, LaunchInv, SessionInv
<1>2. ~launch[k].disposed
  BY DEF SpawnedTooLate, Running
<1>3. start[k].pc \in {"unused", "launching", "connecting", "done", "failed"}
  BY DEF IInv, SessionsTyped, Starts
<1>4. start[k].pc = "done"
  BY <1>1, <1>2, <1>3 DEF StageOK, LaunchOK, InFlight, Running
<1> QED
  BY <1>1, <1>2, <1>4 DEF OwnerOK

(* A process that runs belongs to a start in flight or to a session, or it *)
(* was spawned after its launch had been disposed.                         *)
THEOREM OwnedProcesses == Spec => []ProcessesAreOwned
  BY Invariant, OwnersKnown, PTL

(* A session that was shut down with its kernel has no start in flight and *)
(* no current kernel, hence no process but one that was spawned too late.  *)
THEOREM FinalShutdown == Spec => []ShutdownIsFinal
<1>1. ASSUME IInv
      PROVE  ShutdownIsFinal
  <2> SUFFICES ASSUME NEW k \in Launches, start[k].of # 0, session[start[k].of].over
               PROVE  ~InFlight(k) /\ (Running(k) => SpawnedTooLate(k))
    BY DEF ShutdownIsFinal
  <2>1. start[k].of \in Sessions
    BY <1>1 DEF IInv, SessionsTyped, Starts
  <2>2. SessionOK(start[k].of) /\ OwnerOK(k)
    BY <1>1, <2>1 DEF IInv, SessionInv
  <2>3. ~InFlight(k)
    BY <2>2 DEF SessionOK, OwnerOK
  <2>4. session[start[k].of].current # k
    BY <2>2 DEF SessionOK
  <2> QED
    BY <1>1, <2>3, <2>4, OwnersKnown DEF ProcessesAreOwned
<1> QED
  BY <1>1, Invariant, PTL

-----------------------------------------------------------------------------
(***************************************************************************)
(* What the disposal of the provider leaves.  A launch that is not the     *)
(* first of its session is a restart; a session that was connected when it *)
(* was shut down gets no kernel but from a restart.                        *)
(***************************************************************************)
Follows(k) == \E j \in 1..k - 1 : start[j].of = start[k].of

(* Launches are taken in order.                                            *)
InOrder == /\ \A k \in Launches : start[k].pc = "unused" => start[k].of = 0
           /\ \A j, k \in Launches :
                  start[j].of # 0 /\ start[k].pc = "unused" => j < k

(* A session that was created has a launch, and what it restarts follows   *)
(* that one.                                                               *)
HasFirst(s) ==
    /\ session[s].state # "new" => \E j \in Launches : start[j].of = s
    /\ session[s].restarting # 0 => Follows(session[s].restarting)

(* The provider waits for sessions that were created; once it has gone on, *)
(* they are connected, and a kernel they have is not their first.          *)
ProviderOK ==
    \A s \in provider.awaits :
        /\ session[s].state # "new"
        /\ provider.state = "disposed" =>
              /\ session[s].state = "connected"
              /\ session[s].current # 0 => Follows(session[s].current)

DisposeInv == /\ InOrder
              /\ \A s \in Sessions : HasFirst(s)
              /\ ProviderOK

(* A step that begins no start: sessions only go on with what they have.   *)
GoesOn(s) ==
    /\ session'[s].state = "new" <=> session[s].state = "new"
    /\ session[s].state = "connected" => session'[s].state = "connected"
    /\ session'[s].restarting \in {0, session[s].restarting}
    /\ \/ session'[s].current \in {0, session[s].current}
       \/ session[s].state = "connected" => session'[s].current = session[s].restarting

StartsGoOn ==
    /\ \A k \in Launches : /\ start'[k].of = start[k].of
                           /\ start'[k].pc = "unused" => start[k].pc = "unused"
    /\ \A s \in Sessions : GoesOn(s)

LEMMA FollowsStays ==
  ASSUME NEW k \in Launches, Follows(k),
         \A j \in Launches : j <= k => start'[j].of = start[j].of
  PROVE  Follows(k)'
<1>1. PICK j \in 1..k - 1 : start[j].of = start[k].of
  BY DEF Follows
<1>2. j \in Launches /\ j <= k
  BY <1>1 DEF Launches
<1> QED
  BY <1>1, <1>2 DEF Follows

LEMMA GoingOnKeeps ==
  ASSUME IInv, DisposeInv, StartsGoOn
  PROVE  /\ InOrder'
         /\ \A s \in Sessions : HasFirst(s)'
         /\ provider' = provider => ProviderOK'
<1>1. InOrder'
  BY DEF DisposeInv, InOrder, StartsGoOn
<1>2. \A k \in Launches : Follows(k) => Follows(k)'
  BY FollowsStays DEF StartsGoOn
<1>3. \A s \in Sessions : /\ session[s].restarting \in Launches \cup {0}
                          /\ session[s].current \in Launches \cup {0}
  BY DEF IInv, SessionsTyped, Session, Launches
<1>4. ASSUME NEW s \in Sessions
      PROVE  HasFirst(s)'
  <2>1. HasFirst(s) /\ GoesOn(s)
    BY DEF DisposeInv, StartsGoOn
  <2>2. session'[s].state # "new" => \E j \in Launches : start'[j].of = s
    BY <2>1 DEF HasFirst, GoesOn, StartsGoOn
  <2>3. session'[s].restarting # 0 => Follows(session[s].restarting)'
    <3> SUFFICES ASSUME session'[s].restarting # 0
                 PROVE  Follows(session[s].restarting)'
      OBVIOUS
    <3>1. PICK k \in Launches : k = session[s].restarting /\ k = session'[s].restarting
      BY <1>3, <2>1 DEF GoesOn
    <3>2. Follows(k)
      BY <2>1, <3>1 DEF HasFirst
    <3>3. Follows(k)'
      BY <1>2, <3>2
    <3> QED
      BY <3>1, <3>3 DEF Follows
  <2> QED
    BY <2>2, <2>3 DEF HasFirst, Follows
<1>5. ASSUME provider' = provider
      PROVE  ProviderOK'
  <2> SUFFICES ASSUME NEW s \in provider.awaits
               PROVE  /\ session'[s].state # "new"
                      /\ provider.state = "disposed" =>
                            /\ session'[s].state = "connected"
                            /\ session'[s].current # 0 => Follows(session[s].current)'
    BY <1>5 DEF ProviderOK, Follows
  <2>1. s \in Sessions
    BY DEF IInv, SessionsTyped, Provider
  <2>2. GoesOn(s) /\ session[s].state # "new"
    BY <2>1 DEF StartsGoOn, DisposeInv, ProviderOK
  <2>3. ASSUME provider.state = "disposed"
        PROVE  session'[s].state = "connected"
    BY <2>2, <2>3 DEF DisposeInv, ProviderOK, GoesOn
  <2>4. ASSUME provider.state = "disposed", session'[s].current # 0
        PROVE  Follows(session[s].current)'
    <3>1. /\ session[s].state = "connected"
          /\ session[s].current # 0 => Follows(session[s].current)
          /\ session[s].restarting # 0 => Follows(session[s].restarting)
      BY <2>1, <2>4 DEF DisposeInv, ProviderOK, HasFirst
    <3>2. PICK k \in Launches : /\ k = session'[s].current
                                /\ k = session[s].current \/ k = session[s].restarting
      BY <1>3, <2>1, <2>2, <2>4, <3>1 DEF GoesOn
    <3>3. Follows(k)
      BY <3>1, <3>2, 0 \notin Launches DEF Launches
    <3>4. Follows(k)'
      BY <1>2, <3>3
    <3> QED
      BY <3>2, <3>4 DEF Follows
  <2> QED
    BY <2>2, <2>3, <2>4 DEF GoesOn
<1> QED
  BY <1>1, <1>4, <1>5

(* A new start comes after every other.                                    *)
LEMMA BeginDisposes ==
  ASSUME IInv, DisposeInv, NEW s \in Sessions, NEW k \in Launches, BeginStart(s, k),
         session[s].state \in {"new", "connected"}
  PROVE  DisposeInv'
<1>1. SessionsTyped /\ \A j \in Launches : StageOK(j)
  BY DEF IInv
<1>2. /\ SessionsTyped'
      /\ \A r \in Sessions \ {s} : session'[r] = session[r]
      /\ \A j \in Launches \ {k} : start'[j] = start[j]
      /\ start'[k].of = s
      /\ start'[k].pc \in {"failed", "launching"}
      /\ session'[s].current = session[s].current
      /\ session[s].state = "new" => /\ session'[s].state \in {"failed", "starting"}
                                     /\ session'[s].restarting = session[s].restarting
      /\ session[s].state # "new" => /\ session'[s].state = session[s].state
                                     /\ session'[s].restarting \in {0, k}
  BY <1>1, BeginStartFields
<1>3. provider' = provider
  BY DEF BeginStart
<1>4. k \in Unused /\ \A j \in Unused : k <= j
  BY DEF BeginStart, CallLaunch
<1>5. start[k].pc = "unused" /\ \A j \in Launches : start[j].pc = "unused" => k <= j
  BY <1>1, <1>4 DEF StageOK, Unused
<1>6. \A j \in Launches : start[j].of # 0 => j < k
  BY <1>5 DEF DisposeInv, InOrder
<1>7. InOrder'
  <2>1. ASSUME NEW j \in Launches, start'[j].pc = "unused"
        PROVE  /\ start'[j].of = 0
               /\ \A i \in Launches : start'[i].of # 0 => i < j
    <3>1. j # k /\ start[j].pc = "unused" /\ start'[j].of = start[j].of /\ k < j
      BY <1>2, <1>5, <2>1 DEF Launches
    <3>2. start[j].of = 0 /\ \A i \in Launches : start[i].of # 0 => i < j
      BY <3>1 DEF DisposeInv, InOrder
    <3> QED
      BY <1>2, <3>1, <3>2
  <2> QED
    BY <2>1 DEF InOrder
<1>8. \A j \in Launches : start[j].of # 0 /\ Follows(j) => j # k /\ Follows(j)'
  <2> SUFFICES ASSUME NEW j \in Launches, start[j].of # 0, Follows(j)
               PROVE  j # k /\ Follows(j)'
    OBVIOUS
  <2>1. PICK i \in 1..j - 1 : start[i].of = start[j].of
    BY DEF Follows
  <2>2. i \in Launches
    BY <2>1 DEF Launches
  <2>3. i # k /\ j # k
    BY <1>6, <2>1, <2>2 DEF Launches
  <2> QED
    BY <1>2, <2>1, <2>2, <2>3 DEF Follows
<1>9. \A j \in Launches : start[j].of = s => Follows(k)'
  <2> SUFFICES ASSUME NEW j \in Launches, start[j].of = s
               PROVE  Follows(k)'
    OBVIOUS
  <2>1. j < k /\ j # k /\ j \in 1..k - 1
    BY <1>6 DEF Sessions, Launches
  <2> QED
    BY <1>2, <2>1 DEF Follows
<1>10. \A r \in Sessions :
          /\ session[r].restarting \in Launches \cup {0}
          /\ session[r].current \in Launches \cup {0}
          /\ session[r].restarting # 0 => start[session[r].restarting].of = r
          /\ session[r].current # 0 => start[session[r].current].of = r
  BY DEF IInv, SessionsTyped, Session, Launches, SessionInv, SessionOK
<1>11. ASSUME NEW r \in Sessions
       PROVE  HasFirst(r)'
  <2>1. HasFirst(r)
    BY DEF DisposeInv
  <2>2. CASE r # s
    <3>1. session'[r] = session[r]
      BY <1>2, <2>2
    <3>2. session[r].state # "new" => \E j \in Launches : start'[j].of = r
      BY <1>2, <1>6, <2>1 DEF HasFirst, Sessions, Launches
    <3>3. ASSUME session[r].restarting # 0
          PROVE  (Follows(session[r].restarting))'
      <4>1. PICK j \in Launches : j = session[r].restarting
        BY <1>10, <3>3
      <4>2. start[j].of # 0 /\ Follows(j)
        BY <1>10, <2>1, <3>3, <4>1 DEF HasFirst, Sessions
      <4>3. Follows(j)'
        BY <1>8, <4>2
      <4> QED
        BY <3>1, <4>1, <4>3 DEF Follows
    <3> QED
      BY <3>1, <3>2, <3>3 DEF HasFirst
  <2>3. CASE r = s
    <3>1. \E j \in Launches : start'[j].of = r
      BY <1>2, <2>3
    <3>2. CASE session[s].state = "new"
      <4>1. session[s].restarting = 0
        BY <3>2 DEF IInv, SessionInv, SessionOK
      <4> QED
        BY <1>2, <2>3, <3>1, <3>2, <4>1 DEF HasFirst
    <3>3. CASE session[s].state # "new"
      <4>1. Follows(k)'
        BY <1>9, <2>1, <2>3, <3>3 DEF HasFirst
      <4>2. CASE session'[s].restarting = 0
        BY <2>3, <3>1, <4>2 DEF HasFirst
      <4>3. CASE session'[s].restarting = k
        <5>1. (Follows(session[s].restarting))'
          BY <4>1, <4>3 DEF Follows
        <5> QED
          BY <2>3, <3>1, <5>1 DEF HasFirst
      <4> QED
        BY <1>2, <3>3, <4>2, <4>3
    <3> QED
      BY <3>2, <3>3
  <2> QED
    BY <2>2, <2>3
<1>12. ASSUME NEW r \in provider.awaits
       PROVE  /\ session'[r].state # "new"
              /\ provider.state = "disposed" =>
                    /\ session'[r].state = "connected"
                    /\ session'[r].current # 0 => (Follows(session[r].current))'
  <2>1. r \in Sessions
    BY <1>1 DEF SessionsTyped, Provider
  <2>2. /\ session[r].state # "new"
        /\ provider.state = "disposed" =>
              /\ session[r].state = "connected"
              /\ session[r].current # 0 => Follows(session[r].current)
    BY DEF DisposeInv, ProviderOK
  <2>3. session'[r].state = session[r].state /\ session'[r].current = session[r].current
    <3>1. CASE r = s
      BY <1>2, <2>2, <3>1
    <3>2. CASE r # s
      BY <1>2, <2>1, <3>2
    <3> QED
      BY <3>1, <3>2
  <2>4. ASSUME provider.state = "disposed", session[r].current # 0
        PROVE  (Follows(session[r].current))'
    <3>1. PICK j \in Launches : j = session[r].current
      BY <1>10, <2>1, <2>4
    <3>2. start[j].of # 0 /\ Follows(j)
      BY <1>10, <2>1, <2>2, <2>4, <3>1 DEF Sessions
    <3>3. Follows(j)'
      BY <1>8, <3>2
    <3> QED
      BY <2>3, <3>1, <3>3 DEF Follows
  <2> QED
    BY <2>2, <2>3, <2>4
<1>13. ProviderOK'
  BY <1>3, <1>12 DEF ProviderOK
<1> QED
  BY <1>7, <1>11, <1>13 DEF DisposeInv

(* The steps that begin no start.                                          *)
LEMMA AsideGoesOn ==
  ASSUME UNCHANGED session,
         \A k \in Launches : /\ start'[k].of = start[k].of
                             /\ start'[k].pc = "unused" => start[k].pc = "unused"
  PROVE  StartsGoOn
  BY DEF StartsGoOn, GoesOn

LEMMA FailGoesOn ==
  ASSUME SessionsTyped, NEW K, StartsFail(K)
  PROVE  StartsGoOn /\ provider' = provider
<1>1. \A k \in Launches : /\ start'[k].of = start[k].of
                          /\ start'[k].pc = "unused" => start[k].pc = "unused"
  BY DEF SessionsTyped, StartsFail, Starts
<1>2. ASSUME NEW s \in Sessions
      PROVE  GoesOn(s)
  <2>1. session'[s] = session[s] \/ session'[s] = FailedSession(s, K)
    BY DEF StartsFail
  <2>2. CASE session'[s] = session[s]
    BY <2>2 DEF GoesOn
  <2>3. CASE session'[s] = FailedSession(s, K)
    <3>1. /\ session'[s].state = IF session[s].state = "starting" THEN "failed"
                                 ELSE session[s].state
          /\ session'[s].current = session[s].current
          /\ session'[s].restarting \in {0, session[s].restarting}
      BY <2>3, FailedSessionFields
    <3> QED
      BY <3>1 DEF GoesOn
  <2> QED
    BY <2>1, <2>2, <2>3
<1> QED
  BY <1>1, <1>2 DEF StartsGoOn, StartsFail

LEMMA SucceedGoesOn ==
  ASSUME IInv, NEW k \in Launches, Connected(k)
  PROVE  StartsGoOn /\ provider' = provider
<1>1. SessionsTyped /\ SessionInv /\ InFlight(k) /\ StartSucceeds(k)
  BY DEF IInv, Connected, InFlight
<1> DEFINE s == start[k].of
<1>2. /\ s \in Sessions
      /\ \/ session[s].state = "starting"
         \/ session[s].state = "connected" /\ session[s].restarting = k
  BY <1>1 DEF SessionInv, OwnerOK, InFlight
<1>3. /\ \A r \in Sessions \ {s} : session'[r] = session[r]
      /\ \A j \in Launches : start'[j].of = start[j].of
      /\ \A j \in Launches \ {k} : start'[j].pc = start[j].pc
      /\ start'[k].pc = "done"
      /\ session'[s].state = "connected"
      /\ session'[s].current = k
      /\ session'[s].restarting = 0
  BY <1>1, <1>2, SucceedFields
<1> HIDE DEF s
<1>4. ASSUME NEW r \in Sessions
      PROVE  GoesOn(r)
  <2>1. CASE r = s
    BY <1>2, <1>3, <2>1 DEF GoesOn
  <2>2. CASE r # s
    BY <1>3, <2>2 DEF GoesOn
  <2> QED
    BY <2>1, <2>2
<1>5. \A j \in Launches : start'[j].pc = "unused" => start[j].pc = "unused"
  BY <1>3
<1> QED
  BY <1>1, <1>3, <1>4, <1>5 DEF StartsGoOn, StartSucceeds

LEMMA ShutdownGoesOn ==
  ASSUME SessionsTyped, NEW S \in SUBSET Sessions, Shutdown(S), provider' \in Provider
  PROVE  /\ StartsGoOn
         /\ \A s \in S : session'[s].current = 0
<1>1. /\ \A j \in Launches : start'[j].of = start[j].of
      /\ \A s \in Sessions :
             /\ session'[s].state = session[s].state
             /\ IF s \in S /\ session[s].current # 0
                THEN session'[s].current = 0 /\ session'[s].restarting = 0
                ELSE /\ session'[s].current = session[s].current
                     /\ session'[s].restarting = session[s].restarting
  BY ShutdownFields
<1>2. \A j \in Launches : start'[j].pc = "unused" => start[j].pc = "unused"
  BY DEF Shutdown, SessionsTyped, Starts
<1> QED
  BY <1>1, <1>2 DEF StartsGoOn, GoesOn

LEMMA ExitGoesOn ==
  ASSUME SessionsTyped, NEW k \in Launches, ProcessExits(k)
  PROVE  StartsGoOn /\ provider' = provider
<1>1. CASE UNCHANGED sessionVars
  BY <1>1, AsideGoesOn DEF sessionVars
<1>2. CASE Throws(k)
  BY <1>2, FailGoesOn DEF Throws
<1>3. CASE /\ session' = [s \in Sessions |-> IF session[s].current = k
                                             THEN [session[s] EXCEPT !.current = 0]
                                             ELSE session[s]]
           /\ UNCHANGED <<start, provider>>
  <2>1. ASSUME NEW s \in Sessions
        PROVE  GoesOn(s)
    <3>1. session[s] \in Session
      BY DEF SessionsTyped
    <3>2. /\ session'[s].state = session[s].state
          /\ session'[s].restarting = session[s].restarting
          /\ session'[s].current \in {0, session[s].current}
      BY <1>3, <3>1 DEF Session
    <3> QED
      BY <3>2 DEF GoesOn
  <2> QED
    BY <1>3, <2>1 DEF StartsGoOn
<1> QED
  BY <1>1, <1>2, <1>3 DEF ProcessExits

LEMMA StepDisposes ==
  ASSUME IInv, DisposeInv, NEW k \in Launches, StartStep(k) \/ ProcessExits(k)
  PROVE  DisposeInv'
<1>1. SessionsTyped
  BY DEF IInv
<1>2. CASE PortsFound(k) \/ Spawned(k)
  <2>1. UNCHANGED sessionVars
    BY <1>2 DEF PortsFound, Spawned
  <2> QED
    BY <2>1, AsideGoesOn, GoingOnKeeps DEF sessionVars, DisposeInv
<1>3. CASE Launched(k)
  <2>1. /\ UNCHANGED <<session, provider>>
        /\ \A j \in Launches : /\ start'[j].of = start[j].of
                               /\ start'[j].pc = "unused" => start[j].pc = "unused"
    BY <1>1, <1>3 DEF Launched, SessionsTyped, Starts
  <2> QED
    BY <2>1, AsideGoesOn, GoingOnKeeps DEF DisposeInv
<1>4. CASE PortsExhausted(k) \/ StartFails(k)
  <2>1. \E K : StartsFail(K)
    BY <1>4 DEF PortsExhausted, StartFails, Throws
  <2> QED
    BY <1>1, <2>1, FailGoesOn, GoingOnKeeps DEF DisposeInv
<1>5. CASE Connected(k)
  BY <1>5, SucceedGoesOn, GoingOnKeeps DEF DisposeInv
<1>6. CASE ProcessExits(k)
  BY <1>1, <1>6, ExitGoesOn, GoingOnKeeps DEF DisposeInv
<1> QED
  BY <1>2, <1>3, <1>4, <1>5, <1>6 DEF StartStep

LEMMA ProviderDisposes ==
  ASSUME IInv, DisposeInv, ProviderDispose \/ ProviderGoesOn \/ ProviderFails
  PROVE  DisposeInv'
<1>1. SessionsTyped /\ provider \in Provider
  BY DEF IInv, SessionsTyped
<1>2. CASE ProviderDispose \/ ProviderFails
  <2>1. UNCHANGED <<start, session>>
    BY <1>2 DEF ProviderDispose, ProviderFails
  <2>2. InOrder' /\ \A s \in Sessions : HasFirst(s)'
    BY <2>1, AsideGoesOn, GoingOnKeeps
  <2>3. /\ provider'.state # "disposed"
        /\ provider'.awaits \in {Tracked, provider.awaits}
    BY <1>1, <1>2 DEF ProviderDispose, ProviderFails, Provider
  <2>4. \A s \in provider'.awaits : session[s].state # "new"
    BY <2>3 DEF Tracked, DisposeInv, ProviderOK
  <2> QED
    BY <2>1, <2>2, <2>3, <2>4 DEF DisposeInv, ProviderOK
<1>3. CASE ProviderGoesOn
  <2>1. /\ provider.awaits \in SUBSET Sessions
        /\ provider' \in Provider /\ provider'.awaits = provider.awaits
        /\ Shutdown(provider.awaits)
        /\ \A s \in provider.awaits : session[s].state = "connected"
    BY <1>1, <1>3 DEF ProviderGoesOn, Provider, AllStarted
  <2>2. StartsGoOn /\ \A s \in provider.awaits : session'[s].current = 0
    BY <1>1, <2>1, ShutdownGoesOn
  <2>3. \A s \in provider.awaits : session'[s].state = "connected"
    BY <2>1, <2>2 DEF StartsGoOn, GoesOn
  <2>4. ProviderOK'
    BY <2>1, <2>2, <2>3 DEF ProviderOK
  <2> QED
    BY <2>2, <2>4, GoingOnKeeps DEF DisposeInv
<1> QED
  BY <1>2, <1>3

LEMMA NextDisposes ==
  ASSUME IInv, DisposeInv, [Next]_vars
  PROVE  DisposeInv'
<1>1. SessionsTyped
  BY DEF IInv
<1>2. CASE UNCHANGED vars
  <2>1. UNCHANGED <<start, session, provider>>
    BY <1>2 DEF vars, sessionVars
  <2> QED
    BY <2>1, AsideGoesOn, GoingOnKeeps DEF DisposeInv
<1>3. ASSUME NEW s \in Sessions, CreateNotebook(s) \/ Restart(s)
      PROVE  DisposeInv'
  <2>1. /\ session[s].state \in {"new", "connected"}
        /\ \E k \in Launches : BeginStart(s, k)
    BY <1>3 DEF CreateNotebook, Restart
  <2> QED
    BY <2>1, BeginDisposes
<1>4. ASSUME NEW s \in Sessions, CancelStart(s)
      PROVE  DisposeInv'
  <2>1. \E K : StartsFail(K)
    BY <1>4 DEF CancelStart, Throws
  <2> QED
    BY <1>1, <2>1, FailGoesOn, GoingOnKeeps DEF DisposeInv
<1>5. ASSUME NEW s \in Sessions, Dispose(s)
      PROVE  DisposeInv'
  <2>1. {s} \in SUBSET Sessions /\ Shutdown({s}) /\ provider' \in Provider
        /\ provider' = provider
    BY <1>1, <1>5 DEF Dispose, SessionsTyped
  <2> QED
    BY <1>1, <2>1, ShutdownGoesOn, GoingOnKeeps DEF DisposeInv
<1> QED
  BY <1>2, <1>3, <1>4, <1>5, StepDisposes, ProviderDisposes DEF Next

LEMMA InitDisposes ==
  ASSUME Init
  PROVE  DisposeInv
  BY DEF Init, DisposeInv, InOrder, HasFirst, ProviderOK

LEMMA NothingIsLeft ==
  ASSUME IInv, DisposeInv
  PROVE  ProviderLeavesNothing
<1> SUFFICES ASSUME provider.state = "disposed", NEW k \in Launches,
                    start[k].of \in provider.awaits,
                    Running(k) \/ InFlight(k), ~SpawnedTooLate(k)
             PROVE  Follows(k)
  BY DEF ProviderLeavesNothing, Follows
<1> DEFINE s == start[k].of
<1>1. s \in Sessions
  BY DEF IInv, SessionsTyped, Provider
<1>2. /\ session[s].state = "connected"
      /\ session[s].current # 0 => Follows(session[s].current)
      /\ session[s].restarting # 0 => Follows(session[s].restarting)
  BY <1>1 DEF DisposeInv, ProviderOK, HasFirst
<1>3. k # 0
  BY DEF Launches
<1>4. CASE InFlight(k)
  <2>1. session[s].restarting = k
    BY <1>2, <1>4 DEF IInv, SessionInv, OwnerOK
  <2> QED
    BY <1>2, <1>3, <2>1
<1>5. CASE ~InFlight(k)
  <2>1. session[s].current = k
    BY <1>5, OwnersKnown DEF ProcessesAreOwned
  <2> QED
    BY <1>2, <1>3, <2>1
<1> QED
  BY <1>4, <1>5

(* Once the provider is disposed without an error, nothing of the sessions *)
(* it waited for runs or is being started, but what a restart brought up   *)
(* or was spawned after its launch had been disposed.                      *)
THEOREM ProviderCleansUp == Spec => []ProviderLeavesNothing
<1>1. Init => IInv /\ DisposeInv
  BY InitHolds, InitDisposes
<1>2. IInv /\ DisposeInv /\ [Next]_vars => (IInv /\ DisposeInv)'
  BY NextKeeps, StutterKeeps, NextDisposes
<1>3. IInv /\ DisposeInv => ProviderLeavesNothing
  BY NothingIsLeft
<1> QED
  BY <1>1, <1>2, <1>3, PTL DEF Spec
=============================================================================
