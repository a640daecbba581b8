------------------------ MODULE ServerSessions_proofs ------------------------
(***************************************************************************)
(* Proofs about ServerSessions, for every bound on sessions and kernels,   *)
(* for local and remote servers.                                           *)
(***************************************************************************)
EXTENDS ServerSessions, TLAPS

USE SessionBounds

(***************************************************************************)
(* The invariant.                                                          *)
(***************************************************************************)
Typed == /\ remote \in BOOLEAN
         /\ kernel \in [Kernels -> KernelStates]
         /\ start \in [Kernels -> Start]
         /\ session \in [Sessions -> Session]
         /\ server \in Server

(* Starts are made in order.                                               *)
Used(k) == start[k].pc # "unused"

InOrder == /\ \A k \in Kernels : Used(k) <=> start[k].of # 0
           /\ \A j, k \in Kernels : Used(j) /\ ~Used(k) => j < k

(* A first start in flight is what its session waits for; a restart is one *)
(* of a session that was handed out, which knows it while it is in flight. *)
StartOK(k) ==
    LET x == session[start[k].of]
    IN  Used(k) => /\ x.state # "new"
                   /\ InFlight(k) /\ ~IsRestart(k) => x.state = "starting"
                   /\ IsRestart(k) => x.state = "open"
                   /\ InFlight(k) /\ IsRestart(k) => x.restarting = k

(* A kernel appears with the request for it.  While one that is being shut *)
(* down is still a session's, the server was asked to end it or it was     *)
(* left, unless a restart installed it meanwhile.                          *)
KernelOK(k) ==
    /\ start[k].pc \in {"unused", "directory", "file", "usable"} => kernel[k] = "none"
    /\ kernel[k] = "requested" => start[k].pc = "request" \/ start[k].cancelled
    /\ start[k].pc \in {"idle", "done"} => kernel[k] \notin {"none", "requested"}
    /\ kernel[k] = "running" => Owned(k) \/ Leaked(k)
    /\ kernel[k] = "asked" => ~InUse(k)

SessionOK(s) ==
    LET x == session[s]
    IN  /\ x.state # "new" => \E j \in Kernels : start[j].of = s
        /\ x.restarting # 0 => /\ start[x.restarting].of = s
                               /\ InFlight(x.restarting) /\ IsRestart(x.restarting)
        /\ x.current # 0 => start[x.current].of = s /\ start[x.current].pc = "done"
        /\ x.closing # "no" => x.state = "open"
        /\ x.closing = "over" => x.current = 0 /\ x.restarting = 0
        /\ x.closing \in {"current", "restart"} /\ x.current # 0
              => kernel[x.current] # "running" \/ IsRestart(x.current)

PartsInv == /\ InOrder
            /\ \A k \in Kernels : StartOK(k) /\ KernelOK(k)
            /\ \A s \in Sessions : SessionOK(s)

(* What dispose() of the server does not wait for is over.                 *)
ServerOK ==
    /\ server.pc["dispose"] # "no" => server.disposed
    /\ server.disposed =>
          \A s \in Sessions : session[s].state \in {"starting", "open"}
              => s \in server.awaits["dispose"] \/ session[s].closing = "over"
    /\ server.pc["dispose"] = "done" =>
          \A s \in server.awaits["dispose"] : session[s].closing = "over"

IInv == Typed /\ PartsInv /\ ServerOK

-----------------------------------------------------------------------------
LEMMA Sound ==
  ASSUME IInv
  PROVE  SessionsAreSound /\ KernelsAreOwned
<1>1. TypeOK
  BY DEF IInv, Typed, TypeOK, PartsInv, SessionOK
<1>2. DisposedServerHasNoSessions
  BY DEF IInv, ServerOK, DisposedServerHasNoSessions
<1>3. KernelsAreOwned
  BY DEF IInv, PartsInv, KernelOK, KernelsAreOwned
<1> QED
  BY <1>1, <1>2, <1>3 DEF SessionsAreSound

LEMMA InitHolds ==
  ASSUME Init
  PROVE  IInv
<1>1. 0 \in 0..MaxKernels /\ 0 \in 0..MaxSessions /\ TRUE \in BOOLEAN /\ FALSE \in BOOLEAN
  OBVIOUS
<1>2. Typed
  <2>1. start \in [Kernels -> Start] /\ session \in [Sessions -> Session]
    BY <1>1 DEF Init, Start, Session
  <2>2. server \in Server
    BY <1>1 DEF Init, Server, Shutdowns
  <2> QED
    BY <2>1, <2>2 DEF Init, Typed, KernelStates
<1>3. PartsInv
  BY DEF Init, PartsInv, InOrder, Used, StartOK, KernelOK, SessionOK
<1>4. ServerOK
  BY DEF Init, ServerOK, Shutdowns
<1> QED
  BY <1>2, <1>3, <1>4 DEF IInv

(* Which starts are restarts does not change once they are made.           *)
LEMMA SameRestarts ==
  ASSUME \A j \in Kernels : start'[j].of = start[j].of, NEW k \in Kernels
  PROVE  IsRestart(k)' <=> IsRestart(k)
<1>1. \A j \in 1..k - 1 : j \in Kernels
  BY DEF Kernels
<1> QED
  BY <1>1 DEF IsRestart

(* No session has two first starts.                                        *)
LEMMA OneFirst ==
  ASSUME NEW j \in Kernels, NEW k \in Kernels, start[j].of = start[k].of,
         ~IsRestart(j), ~IsRestart(k)
  PROVE  j = k
<1>1. j < k => j \in 1..k - 1
  BY DEF Kernels
<1>2. k < j => k \in 1..j - 1
  BY DEF Kernels
<1> QED
  BY <1>1, <1>2 DEF IsRestart, Kernels

LEMMA UsedOf ==
  ASSUME Typed, InOrder, NEW k \in Kernels, Used(k)
  PROVE  start[k].of \in Sessions
  BY DEF Typed, InOrder, Start, Sessions

-----------------------------------------------------------------------------
(***************************************************************************)
(* Steps of one start in flight: the start becomes y, its session x.       *)
(***************************************************************************)
Flies(y) == y.pc \in {"directory", "file", "usable", "request", "idle"}

StartMoves(k, y, x) ==
    LET s == start[k].of
    IN  /\ InFlight(k) /\ y \in Start /\ x \in Session
        /\ start' = [start EXCEPT ![k] = y]
        /\ session' = [session EXCEPT ![s] = x]
        /\ y.of = s /\ y.pc # "unused" /\ (start[k].cancelled => y.cancelled)
        /\ IsRestart(k) => /\ x.state = session[s].state
                           /\ Flies(y) => x.restarting = k
                           /\ ~Flies(y) => x.restarting = 0
        /\ ~IsRestart(k) => /\ x.restarting = session[s].restarting
                            /\ Flies(y) => x.state = session[s].state
                            /\ ~Flies(y) => x.state \in {"open", "failed"}
                            /\ x.closing = session[s].closing
        /\ x.current \in {0, session[s].current} \/ (x.current = k /\ y.pc = "done")
        /\ x.closing # "no" => session[s].closing # "no"
        /\ session[s].closing = "over" => x.closing = "over"
        /\ x.closing = "over" => x.current = 0 /\ x.restarting = 0
        /\ x.closing # session[s].closing => x.closing \in {"restart", "over"}

(* What becomes of the kernels: that of another start is shut down, if its *)
(* session drops it, or stays as it is; one its session drops is being     *)
(* shut down, or is leaked.                                                *)
KernelsMove(k, y, x) ==
    LET s == start[k].of
        old == session[s].current
    IN  /\ kernel' \in [Kernels -> KernelStates]
        /\ \A j \in Kernels \ {k} :
              \/ kernel'[j] = kernel[j]
              \/ kernel[j] = "running" /\ kernel'[j] \in {"down", "left"}
              \/ kernel[j] = "running" /\ kernel'[j] = "asked" /\ j = old /\ x.current # old
        /\ old # 0 /\ x.current # old =>
              kernel'[old] # "running" \/ (IsRestart(old) /\ x.closing = "over")
        /\ y.pc \in {"directory", "file", "usable"} => kernel'[k] = "none"
        /\ kernel'[k] = "asked" => ~Flies(y) /\ x.current # k
        /\ kernel'[k] = "requested" => y.pc = "request" \/ y.cancelled
        /\ y.pc \in {"idle", "done"} => kernel'[k] \notin {"none", "requested"}
        /\ kernel'[k] = "running" =>
              \/ Flies(y) \/ (x.state = "open" /\ x.current = k) \/ y.cancelled
              \/ ~IsRestart(k) /\ server'.disposed
              \/ IsRestart(k) /\ x.closing = "over"

LEMMA MoveFields ==
  ASSUME Typed, PartsInv, NEW k \in Kernels, NEW y, NEW x, StartMoves(k, y, x)
  PROVE  LET s == start[k].of
         IN  /\ s \in Sessions
             /\ start' \in [Kernels -> Start] /\ session' \in [Sessions -> Session]
             /\ start'[k] = y /\ \A j \in Kernels \ {k} : start'[j] = start[j]
             /\ session'[s] = x /\ \A r \in Sessions \ {s} : session'[r] = session[r]
             /\ \A j \in Kernels : start'[j].of = start[j].of
             /\ \A j \in Kernels : IsRestart(j)' <=> IsRestart(j)
             /\ \A j \in Kernels : Used(j)' <=> Used(j)
             /\ \A j \in Kernels \ {k} : InFlight(j)' <=> InFlight(j)
             /\ InFlight(k)' <=> Flies(y)
             /\ ~IsRestart(k) => session[s].state = "starting"
             /\ IsRestart(k) => session[s].state = "open" /\ session[s].restarting = k
<1> DEFINE s == start[k].of
<1>1. Used(k) /\ InFlight(k)
  BY DEF StartMoves, InFlight, Used
<1>2. s \in Sessions
  BY <1>1, UsedOf DEF PartsInv
<1>3. /\ start' \in [Kernels -> Start] /\ session' \in [Sessions -> Session]
      /\ start'[k] = y /\ \A j \in Kernels \ {k} : start'[j] = start[j]
      /\ session'[s] = x /\ \A r \in Sessions \ {s} : session'[r] = session[r]
  <2>1. /\ start' = [start EXCEPT ![k] = y] /\ session' = [session EXCEPT ![s] = x]
        /\ y \in Start /\ x \in Session
    BY DEF StartMoves
  <2> HIDE DEF s
  <2> QED
    BY <1>2, <2>1 DEF Typed
<1>4. \A j \in Kernels : start'[j].of = start[j].of
  BY <1>3 DEF StartMoves
<1>5. \A j \in Kernels : IsRestart(j)' <=> IsRestart(j)
  BY <1>4, SameRestarts
<1>6. /\ \A j \in Kernels : Used(j)' <=> Used(j)
      /\ \A j \in Kernels \ {k} : InFlight(j)' <=> InFlight(j)
      /\ InFlight(k)' <=> Flies(y)
  BY <1>1, <1>3 DEF Used, InFlight, StartMoves, Flies
<1>7. /\ ~IsRestart(k) => session[s].state = "starting"
      /\ IsRestart(k) => session[s].state = "open" /\ session[s].restarting = k
  BY <1>1 DEF PartsInv, StartOK
<1> QED
  BY <1>2, <1>3, <1>4, <1>5, <1>6, <1>7

LEMMA MoveKeeps ==
  ASSUME Typed, PartsInv, NEW k \in Kernels, NEW y, NEW x,
         StartMoves(k, y, x), KernelsMove(k, y, x), server.disposed => server'.disposed
  PROVE  PartsInv'
<1> DEFINE s == start[k].of
<1>1. /\ s \in Sessions
      /\ start'[k] = y /\ \A j \in Kernels \ {k} : start'[j] = start[j]
      /\ session'[s] = x /\ \A r \in Sessions \ {s} : session'[r] = session[r]
      /\ \A j \in Kernels : start'[j].of = start[j].of
      /\ \A j \in Kernels : IsRestart(j)' <=> IsRestart(j)
      /\ \A j \in Kernels : Used(j)' <=> Used(j)
      /\ \A j \in Kernels \ {k} : InFlight(j)' <=> InFlight(j)
      /\ InFlight(k)' <=> Flies(y)
      /\ ~IsRestart(k) => session[s].state = "starting"
      /\ IsRestart(k) => session[s].state = "open" /\ session[s].restarting = k
      /\ Used(k)
  BY MoveFields DEF StartMoves, InFlight, Used
<1>2. InOrder'
  BY <1>1 DEF PartsInv, InOrder
<1>3. ASSUME NEW j \in Kernels, start[j].of = s, j # k
      PROVE  /\ Used(j) => (IsRestart(j) /\ InFlight(j) => FALSE)
             /\ Used(j) /\ ~IsRestart(j) => ~InFlight(j) /\ IsRestart(k)
  <2>1. StartOK(j) /\ StartOK(k) /\ SessionOK(s)
    BY <1>1 DEF PartsInv
  <2>2. ~IsRestart(j) => IsRestart(k)
    BY <1>3, OneFirst
  <2> QED
    BY <1>1, <1>3, <2>1, <2>2 DEF StartOK
<1>4. ASSUME NEW j \in Kernels
      PROVE  StartOK(j)'
  <2>1. StartOK(j)
    BY DEF PartsInv
  <2>2. CASE j = k
    <3>1. x.state # "new"
      BY <1>1 DEF StartMoves
    <3> QED
      BY <1>1, <2>2, <3>1 DEF StartOK, StartMoves
  <2>3. CASE j # k /\ start[j].of # s
    <3>1. CASE Used(j)
      <4>1. start[j].of \in Sessions
        BY <3>1, UsedOf DEF PartsInv
      <4> QED
        BY <1>1, <2>1, <2>3, <3>1, <4>1 DEF StartOK
    <3>2. CASE ~Used(j)
      BY <1>1, <3>2 DEF StartOK
    <3> QED
      BY <3>1, <3>2
  <2>4. CASE j # k /\ start[j].of = s
    <3>1. IsRestart(j) /\ Used(j) => IsRestart(k)
      BY <1>1, <2>1, <2>4 DEF StartOK
    <3> QED
      BY <1>1, <1>3, <2>1, <2>4, <3>1 DEF StartOK, StartMoves
  <2> QED
    BY <2>2, <2>3, <2>4
<1>5. ASSUME NEW j \in Kernels
      PROVE  KernelOK(j)'
  <2>1. KernelOK(j) /\ StartOK(j)
    BY DEF PartsInv
  <2>2. CASE j = k
    <3>1. /\ start'[k] = y /\ session'[s] = x /\ y.of = s
          /\ (InFlight(k)' <=> Flies(y)) /\ (IsRestart(k)' <=> IsRestart(k))
      BY <1>1 DEF StartMoves, InFlight, Flies
    <3>2. kernel'[k] = "asked" => ~InUse(k)'
      BY <3>1 DEF KernelsMove, InUse
    <3>3. kernel'[k] = "running" => Owned(k)' \/ Leaked(k)'
      BY <3>1 DEF KernelsMove, Owned, Leaked
    <3> QED
      BY <2>2, <3>1, <3>2, <3>3 DEF KernelOK, KernelsMove, StartMoves
  <2>3. CASE j # k
    <3>1. /\ start'[j] = start[j]
          /\ \/ kernel'[j] = kernel[j]
             \/ kernel[j] = "running" /\ kernel'[j] \in {"down", "left"}
             \/ /\ kernel[j] = "running" /\ kernel'[j] = "asked"
                /\ j = session[s].current /\ x.current # j
      BY <1>1, <2>3 DEF KernelsMove
    <3>2. ASSUME kernel'[j] = "running"
          PROVE  Owned(j)' \/ Leaked(j)'
      <4>1. kernel[j] = "running" /\ Used(j)
        BY <2>1, <3>1, <3>2 DEF KernelOK, Used
      <4>2. start[j].of \in Sessions
        BY <4>1, UsedOf DEF PartsInv
      <4>3. InFlight(j) \/ start[j].cancelled \/ (~IsRestart(j) /\ server.disposed)
               => Owned(j)' \/ Leaked(j)'
        BY <1>1, <2>3, <3>1 DEF Owned, Leaked
      <4>4. CASE start[j].of # s
        <5>1. session'[start[j].of] = session[start[j].of]
          BY <1>1, <4>2, <4>4
        <5> QED
          BY <1>1, <2>1, <3>1, <4>1, <4>3, <5>1 DEF KernelOK, Owned, Leaked
      <4>5. CASE start[j].of = s
        <5>1. CASE session[s].state = "open" /\ session[s].current = j
          <6>1. x.state = "open" /\ j # 0
            BY <1>1, <5>1 DEF StartMoves, Kernels
          <6>2. x.current = j \/ (IsRestart(j) /\ x.closing = "over")
            BY <3>2, <5>1, <6>1 DEF KernelsMove
          <6> QED
            BY <1>1, <3>1, <4>5, <6>1, <6>2 DEF Owned, Leaked
        <5>2. CASE IsRestart(j) /\ session[s].closing = "over"
          BY <1>1, <3>1, <4>5, <5>2 DEF Leaked, StartMoves
        <5> QED
          BY <2>1, <4>1, <4>3, <4>5, <5>1, <5>2 DEF KernelOK, Owned, Leaked
      <4> QED
        BY <4>4, <4>5
    <3>3. ASSUME kernel'[j] = "asked"
          PROVE  ~InUse(j)'
      <4>1. Used(j) /\ start[j].of \in Sessions
        <5>1. kernel[j] # "none"
          BY <3>1, <3>3
        <5>2. Used(j)
          BY <2>1, <5>1 DEF KernelOK, Used
        <5> QED
          BY <5>2, UsedOf DEF PartsInv
      <4>2. CASE kernel[j] = "asked"
        <5>1. ~InUse(j)
          BY <2>1, <4>2 DEF KernelOK
        <5>2. CASE start[j].of # s
          BY <1>1, <3>1, <4>1, <5>1, <5>2 DEF InUse, InFlight
        <5>3. CASE start[j].of = s
          <6>1. session[s].current = j => session[s].closing # "no"
            BY <5>1, <5>3 DEF InUse
          <6>2. x.current = j => session[s].current = j
            BY <2>3 DEF StartMoves, Kernels
          <6>3. session[s].closing # "no" => x.closing # "no"
            BY DEF StartMoves
          <6> QED
            BY <1>1, <3>1, <5>1, <5>3, <6>1, <6>2, <6>3 DEF InUse, InFlight
        <5> QED
          BY <5>2, <5>3
      <4>3. CASE j = session[s].current /\ x.current # j
        <5>1. start[j].of = s /\ start[j].pc = "done"
          BY <1>1, <4>3 DEF PartsInv, SessionOK, Kernels
        <5> QED
          BY <1>1, <3>1, <4>3, <5>1 DEF InUse, InFlight
      <4> QED
        BY <3>1, <3>3, <4>2, <4>3
    <3> QED
      BY <2>1, <3>1, <3>2, <3>3 DEF KernelOK
  <2> QED
    BY <2>2, <2>3
<1>6. ASSUME NEW r \in Sessions
      PROVE  SessionOK(r)'
  <2>1. /\ SessionOK(r)
        /\ session[r].restarting \in Kernels \cup {0}
        /\ session[r].current \in Kernels \cup {0}
    BY DEF PartsInv, Typed, Session, Kernels
  <2>2. \A j \in Kernels \ {k} : kernel'[j] = "running" => kernel[j] = "running"
    BY DEF KernelsMove
  <2>3. CASE r # s
    <3>1. session'[r] = session[r]
      BY <1>1, <2>3
    <3>2. \A j \in Kernels : start[j].of = r => j # k
      BY <2>3
    <3> QED
      BY <1>1, <2>1, <2>2, <3>1, <3>2 DEF SessionOK
  <2>4. CASE r = s
    <3>1. \E j \in Kernels : start'[j].of = s
      BY <1>1
    <3>2. x.restarting # 0 => /\ start'[x.restarting].of = s
                              /\ InFlight(x.restarting)' /\ IsRestart(x.restarting)'
      <4>1. CASE IsRestart(k)
        <5>1. x.restarting # 0 => x.restarting = k /\ Flies(y)
          BY <4>1 DEF StartMoves
        <5>2. start'[k].of = s /\ (Flies(y) => InFlight(k)') /\ IsRestart(k)'
          BY <1>1, <4>1
        <5> QED
          BY <5>1, <5>2 DEF InFlight, IsRestart
      <4>2. CASE ~IsRestart(k)
        <5>1. session[s].restarting = 0
          <6> SUFFICES ASSUME session[s].restarting # 0
                       PROVE  FALSE
            OBVIOUS
          <6>1. PICK m \in Kernels : m = session[s].restarting
            BY <2>1, <2>4
          <6>2. start[m].of = s /\ InFlight(m) /\ IsRestart(m)
            BY <2>1, <2>4, <6>1 DEF SessionOK
          <6>3. session[s].state = "open"
            BY <6>2 DEF PartsInv, StartOK, InFlight, Used
          <6> QED
            BY <1>1, <4>2, <6>3
        <5> QED
          BY <4>2, <5>1 DEF StartMoves
      <4> QED
        BY <4>1, <4>2
    <3>3. x.current # 0 => /\ start'[x.current].of = s /\ start'[x.current].pc = "done"
                           /\ x.current \in Kernels
      <4>1. CASE x.current = k /\ y.pc = "done"
        BY <1>1, <4>1
      <4>2. CASE x.current = session[s].current /\ x.current # 0
        <5>1. x.current # k /\ x.current \in Kernels
          BY <2>1, <2>4, <4>2 DEF SessionOK, StartMoves, InFlight
        <5> QED
          BY <1>1, <2>1, <2>4, <4>2, <5>1 DEF SessionOK
      <4> QED
        BY <4>1, <4>2 DEF StartMoves
    <3>4. x.closing # "no" => x.state = "open" /\ IsRestart(k) /\ session[s].closing # "no"
      BY <1>1, <2>1, <2>4 DEF SessionOK, StartMoves
    <3>5. ASSUME x.closing \in {"current", "restart"}, x.current # 0
          PROVE  kernel'[x.current] # "running" \/ IsRestart(x.current)
      <4>1. IsRestart(k) /\ session[s].closing \in {"current", "restart"}
        BY <3>4, <3>5, <2>1, <2>4 DEF StartMoves, Typed, Session
      <4>2. CASE x.current = k
        BY <4>1, <4>2
      <4>3. CASE x.current # k
        <5>1. x.current = session[s].current /\ x.current \in Kernels
          BY <3>3, <3>5, <4>3 DEF StartMoves
        <5>2. kernel[x.current] # "running" \/ IsRestart(x.current)
          BY <2>1, <2>4, <3>5, <4>1, <5>1 DEF SessionOK
        <5> QED
          BY <2>2, <4>3, <5>1, <5>2
      <4> QED
        BY <4>2, <4>3
    <3>6. x.current \in Kernels => (IsRestart(x.current) => (IsRestart(session[s].current))')
      BY <1>1 DEF IsRestart
    <3>7. x.closing = "over" => x.current = 0 /\ x.restarting = 0
      BY DEF StartMoves
    <3> QED
      BY <1>1, <2>4, <3>1, <3>2, <3>3, <3>4, <3>5, <3>6, <3>7 DEF SessionOK
  <2> QED
    BY <2>3, <2>4
<1> QED
  BY <1>2, <1>4, <1>5, <1>6 DEF PartsInv

(* The server takes no part in what its sessions do.                       *)
LEMMA ServerStays ==
  ASSUME Typed, ServerOK, server' = server,
         \A s \in Sessions :
            /\ session'[s].state \in {"starting", "open"} => session[s].state \in {"starting", "open"}
            /\ session[s].closing = "over" => session'[s].closing = "over"
  PROVE  ServerOK'
<1>1. server.awaits["dispose"] \subseteq Sessions
  BY DEF Typed, Server, Shutdowns
<1> QED
  BY <1>1 DEF ServerOK

LEMMA MoveStep ==
  ASSUME IInv, NEW k \in Kernels, NEW y, NEW x,
         StartMoves(k, y, x), KernelsMove(k, y, x), UNCHANGED <<remote, server>>
  PROVE  IInv'
<1> DEFINE s == start[k].of
<1>1. /\ s \in Sessions
      /\ start' \in [Kernels -> Start] /\ session' \in [Sessions -> Session]
      /\ session'[s] = x /\ \A r \in Sessions \ {s} : session'[r] = session[r]
      /\ ~IsRestart(k) => session[s].state = "starting"
  BY MoveFields DEF IInv
<1>2. Typed'
  BY <1>1 DEF IInv, Typed, KernelsMove
<1>3. PartsInv'
  BY MoveKeeps DEF IInv
<1>4. /\ x.state \in {"starting", "open"} => session[s].state \in {"starting", "open"}
      /\ session[s].closing = "over" => x.closing = "over"
  BY <1>1 DEF StartMoves
<1>5. ServerOK'
  <2> HIDE DEF s
  <2> QED
    BY <1>1, <1>4, ServerStays DEF IInv
<1> QED
  BY <1>2, <1>3, <1>5 DEF IInv

(* A start goes on and its session does not notice.                        *)
LEMMA OnlyStart ==
  ASSUME IInv, NEW k \in Kernels, InFlight(k), NEW y \in Start,
         start' = [start EXCEPT ![k] = y], session' = session,
         y.of = start[k].of, Flies(y), start[k].cancelled => y.cancelled
  PROVE  StartMoves(k, y, session[start[k].of])
<1> DEFINE s == start[k].of
<1>1. s \in Sessions /\ StartOK(k) /\ Used(k)
  BY UsedOf DEF IInv, PartsInv, InFlight, Used
<1>2. session[s] \in Session /\ session' = [session EXCEPT ![s] = session[s]]
  BY <1>1 DEF IInv, Typed
<1>3. SessionOK(s)
  BY <1>1 DEF IInv, PartsInv
<1> QED
  BY <1>1, <1>2, <1>3 DEF StartMoves, StartOK, SessionOK, Flies

LEMMA FailsStep ==
  ASSUME IInv, NEW k \in Kernels, InFlight(k), Fails(k),
         kernel' \in [Kernels -> KernelStates],
         kernel'[k] \notin {"running", "requested"},
         \A j \in Kernels \ {k} : kernel'[j] = kernel[j]
  PROVE  IInv'
<1> DEFINE s == start[k].of
           y == [start[k] EXCEPT !.pc = "failed"]
           x == IF IsRestart(k) THEN AfterRestart(session[s])
                ELSE [session[s] EXCEPT !.state = "failed"]
<1>1. /\ s \in Sessions /\ StartOK(k) /\ SessionOK(s) /\ Used(k)
      /\ start[k] \in Start /\ session[s] \in Session
  BY UsedOf DEF IInv, Typed, PartsInv, InFlight, Used
<1>2. start' = [start EXCEPT ![k] = y] /\ session' = [session EXCEPT ![s] = x]
  BY <1>1 DEF Fails, IInv, Typed
<1>3. /\ y \in Start /\ y.of = s /\ y.pc = "failed" /\ y.cancelled = start[k].cancelled
  BY <1>1 DEF Start
<1>4. /\ x \in Session
      /\ x.closing = IF IsRestart(k) /\ session[s].closing = "restart" THEN "over"
                     ELSE session[s].closing
      /\ x.current = IF IsRestart(k) /\ session[s].closing = "restart" THEN 0
                     ELSE session[s].current
      /\ x.state = IF IsRestart(k) THEN session[s].state ELSE "failed"
      /\ x.restarting = IF IsRestart(k) THEN 0 ELSE session[s].restarting
  <2> HIDE DEF s
  <2>1. 0 \in 0..MaxKernels
    OBVIOUS
  <2>2. CASE ~IsRestart(k)
    BY <1>1, <2>2 DEF Session
  <2>3. CASE IsRestart(k) /\ session[s].closing = "restart"
    BY <1>1, <2>1, <2>3 DEF AfterRestart, ClosedSession, Session
  <2>4. CASE IsRestart(k) /\ session[s].closing # "restart"
    BY <1>1, <2>1, <2>4 DEF AfterRestart, Session
  <2> QED
    BY <2>2, <2>3, <2>4
<1>5. IsRestart(k) => session[s].closing # "over"
  BY <1>1, 0 \notin Kernels DEF StartOK, SessionOK, Kernels
<1> HIDE DEF x, y
<1>6. StartMoves(k, y, x)
  <2>1. ~Flies(y)
    BY <1>3 DEF Flies
  <2>2. x.closing = "over" => x.current = 0 /\ x.restarting = 0
    BY <1>1, <1>4, <1>5 DEF SessionOK
  <2> QED
    BY <1>1, <1>2, <1>3, <1>4, <2>1, <2>2 DEF StartMoves
<1>7. KernelsMove(k, y, x)
  <2>1. ASSUME session[s].current # 0, x.current # session[s].current
        PROVE  kernel'[session[s].current] # "running"
                  \/ (IsRestart(session[s].current) /\ x.closing = "over")
    <3>1. session[s].closing = "restart" /\ x.closing = "over"
      BY <1>4, <2>1
    <3>2. session[s].current \in Kernels \ {k}
      BY <1>1, <2>1 DEF SessionOK, InFlight, Session, Kernels
    <3>3. kernel[session[s].current] # "running" \/ IsRestart(session[s].current)
      BY <1>1, <2>1, <3>1 DEF SessionOK
    <3> QED
      BY <3>1, <3>2, <3>3
  <2>2. ~Flies(y) /\ x.current # k
    BY <1>1, <1>3, <1>4, 0 \notin Kernels DEF Flies, SessionOK, InFlight, Kernels
  <2> QED
    BY <1>3, <2>1, <2>2 DEF KernelsMove
<1> QED
  BY <1>6, <1>7, MoveStep DEF Fails

LEMMA CancelStep ==
  ASSUME IInv, NEW s \in Sessions, CancelStart(s)
  PROVE  IInv'
<1>1. PICK k \in Kernels :
        /\ start[k].of = s /\ ~IsRestart(k) /\ InFlight(k) /\ ~start[k].cancelled
        /\ start' = [start EXCEPT ![k].cancelled = TRUE,
                                  ![k].pc = IF @ = "request" THEN "failed" ELSE @]
        /\ session' = IF start[k].pc = "request"
                      THEN [session EXCEPT ![s].state = "failed"] ELSE session
        /\ UNCHANGED <<remote, kernel, server>>
  BY DEF CancelStart
<1> DEFINE y == [start[k] EXCEPT !.cancelled = TRUE,
                                 !.pc = IF start[k].pc = "request" THEN "failed" ELSE start[k].pc]
           x == [session[s] EXCEPT !.state = "failed"]
<1>2. /\ StartOK(k) /\ SessionOK(s) /\ Used(k) /\ KernelOK(k) /\ Typed
      /\ start[k] \in Start /\ session[s] \in Session
  BY <1>1 DEF IInv, Typed, PartsInv, InFlight, Used
<1>3. /\ y \in Start /\ y.of = s /\ y.cancelled
      /\ y.pc = IF start[k].pc = "request" THEN "failed" ELSE start[k].pc
  <2>1. (IF start[k].pc = "request" THEN "failed" ELSE start[k].pc)
           \in {"unused", "directory", "file", "usable", "request", "idle", "done", "failed"}
    BY <1>2 DEF Start
  <2> QED
    BY <1>1, <1>2, <2>1, TRUE \in BOOLEAN DEF Start
<1>4. start' = [start EXCEPT ![k] = y]
  BY <1>1
<1>5. /\ x \in Session /\ x.state = "failed" /\ x.closing = session[s].closing
      /\ x.current = session[s].current /\ x.restarting = session[s].restarting
  BY <1>2 DEF Session
<1>6. session[s].closing = "no"
  BY <1>1, <1>2 DEF StartOK, SessionOK, Session
<1> HIDE DEF x, y
<1>7. CASE start[k].pc = "request"
  <2>1. session' = [session EXCEPT ![s] = x]
    BY <1>1, <1>7 DEF x
  <2>2. StartMoves(k, y, x)
    BY <1>1, <1>3, <1>4, <1>5, <1>6, <1>7, <2>1 DEF StartMoves, Flies
  <2>3. KernelsMove(k, y, x)
    BY <1>1, <1>2, <1>3, <1>5, <1>7 DEF KernelsMove, Typed, KernelOK, InUse
  <2> QED
    BY <1>1, <2>2, <2>3, MoveStep
<1>8. CASE start[k].pc # "request"
  <2>1. Flies(y) /\ y.pc = start[k].pc
    BY <1>1, <1>3, <1>8 DEF Flies, InFlight
  <2>2. StartMoves(k, y, session[s])
    BY <1>1, <1>3, <1>4, <1>8, <2>1, OnlyStart
  <2>3. KernelsMove(k, y, session[s])
    BY <1>1, <1>2, <1>3, <2>1 DEF KernelsMove, Typed, KernelOK, InUse
  <2> QED
    BY <1>1, <2>2, <2>3, MoveStep
<1> QED
  BY <1>7, <1>8

(* A start goes on to pc, and nobody notices but the server.               *)
LEMMA GoesOnStep ==
  ASSUME IInv, NEW k \in Kernels, InFlight(k),
         NEW pc \in {"directory", "file", "usable", "request", "idle"},
         start' = [start EXCEPT ![k].pc = pc],
         kernel' \in [Kernels -> KernelStates],
         \A j \in Kernels \ {k} : kernel'[j] = kernel[j],
         pc \in {"directory", "file", "usable"} => kernel'[k] = "none",
         kernel'[k] # "asked",
         kernel'[k] = "requested" => pc = "request",
         pc = "idle" => kernel'[k] \notin {"none", "requested"},
         UNCHANGED <<remote, session, server>>
  PROVE  IInv'
<1> DEFINE y == [start[k] EXCEPT !.pc = pc]
<1>1. start[k] \in Start
  BY DEF IInv, Typed
<1>2. y \in Start /\ y.of = start[k].of /\ y.pc = pc /\ y.cancelled = start[k].cancelled
  BY <1>1 DEF Start
<1>3. start' = [start EXCEPT ![k] = y]
  OBVIOUS
<1> HIDE DEF y
<1>4. Flies(y)
  BY <1>2 DEF Flies
<1>5. StartMoves(k, y, session[start[k].of])
  BY <1>2, <1>3, <1>4, OnlyStart
<1>6. KernelsMove(k, y, session[start[k].of])
  BY <1>2, <1>4 DEF KernelsMove
<1> QED
  BY <1>5, <1>6, MoveStep

LEMMA PrepareSteps ==
  ASSUME IInv, NEW k \in Kernels, DirectoryKnown(k) \/ FileCreated(k) \/ MadeUsable(k)
  PROVE  IInv'
<1>1. InFlight(k) /\ kernel[k] = "none" /\ kernel \in [Kernels -> KernelStates]
  BY DEF IInv, PartsInv, KernelOK, DirectoryKnown, FileCreated, MadeUsable,
         InFlight, Typed
<1>2. CASE Fails(k) /\ UNCHANGED kernel
  BY <1>1, <1>2, FailsStep
<1>3. ASSUME NEW pc \in {"file", "usable"}, start' = [start EXCEPT ![k].pc = pc],
             UNCHANGED <<remote, session, server, kernel>>
      PROVE  IInv'
  BY <1>1, <1>3, GoesOnStep
<1>4. CASE /\ start' = [start EXCEPT ![k].pc = "request"]
           /\ kernel' = [kernel EXCEPT ![k] = "requested"]
           /\ UNCHANGED <<remote, session, server>>
  <2>1. /\ kernel' \in [Kernels -> KernelStates]
        /\ \A j \in Kernels \ {k} : kernel'[j] = kernel[j]
    BY <1>1, <1>4 DEF KernelStates
  <2> QED
    BY <1>1, <1>4, <2>1, GoesOnStep
<1> QED
  BY <1>2, <1>3, <1>4 DEF DirectoryKnown, FileCreated, MadeUsable

LEMMA RefusalSteps ==
  ASSUME IInv, NEW k \in Kernels, RequestFails(k) \/ NotIdle(k)
  PROVE  IInv'
<1>1. InFlight(k) /\ Fails(k) /\ Typed /\ KernelOK(k)
  BY DEF IInv, PartsInv, RequestFails, NotIdle, InFlight
<1>2. CASE RequestFails(k)
  <2>1. kernel' = [kernel EXCEPT ![k] = "down"]
    BY <1>2 DEF RequestFails
  <2>2. /\ kernel' \in [Kernels -> KernelStates] /\ kernel'[k] = "down"
        /\ \A j \in Kernels \ {k} : kernel'[j] = kernel[j]
    BY <1>1, <2>1 DEF Typed, KernelStates
  <2> QED
    BY <1>1, <2>2, FailsStep
<1>3. CASE NotIdle(k)
  <2>1. kernel' = ShutDown({k}, FALSE) /\ kernel[k] # "requested"
    BY <1>1, <1>3 DEF NotIdle, KernelOK
  <2>2. /\ kernel' \in [Kernels -> KernelStates]
        /\ kernel'[k] \notin {"running", "requested"}
        /\ \A j \in Kernels \ {k} : kernel'[j] = kernel[j]
    BY <1>1, <2>1 DEF ShutDown, Typed, KernelStates, KernelOK
  <2> QED
    BY <1>1, <2>2, FailsStep
<1> QED
  BY <1>2, <1>3

(* The kernel is idle: the session is handed out, or a restart installs it *)
(* and shuts the one it replaces down.                                     *)
LEMMA IdleStep ==
  ASSUME IInv, NEW k \in Kernels, Idle(k)
  PROVE  IInv'
<1> DEFINE s == start[k].of
           y == [start[k] EXCEPT !.pc = "done"]
           late == Refused \/ start[k].cancelled
           a == AfterRestart([session[s] EXCEPT !.current = k])
           b == [session[s] EXCEPT !.current = k,
                                   !.state = IF late THEN "failed" ELSE "open"]
           x == IF IsRestart(k) THEN a ELSE b
<1>1. /\ InFlight(k) /\ start[k].pc = "idle" /\ Typed /\ PartsInv
      /\ s \in Sessions /\ StartOK(k) /\ SessionOK(s) /\ Used(k) /\ KernelOK(k)
      /\ start[k] \in Start /\ session[s] \in Session
      /\ UNCHANGED <<remote, server>>
  BY UsedOf DEF IInv, Typed, PartsInv, InFlight, Used, Idle
<1>2. start' = [start EXCEPT ![k] = y]
  BY DEF Idle
<1>3. session' = [session EXCEPT ![s] = x]
  BY <1>1 DEF Idle, Typed
<1>4. kernel' = IF IsRestart(k) THEN ShutDown(Replaced(s), FALSE) ELSE kernel
  BY DEF Idle
<1>5. /\ y \in Start /\ y.of = s /\ y.pc = "done" /\ y.cancelled = start[k].cancelled
  BY <1>1 DEF Start
<1> HIDE DEF y
<1>6. /\ s \in Sessions /\ k \in 0..MaxKernels /\ 0 \in 0..MaxKernels /\ k # 0
  BY <1>1 DEF Kernels
<1>7. /\ k # session[s].current /\ session[s].current \in Kernels \cup {0}
  BY <1>1, <1>6 DEF SessionOK, Session, Kernels
<1>8. CASE IsRestart(k)
  <2>1. /\ x \in Session /\ x.state = session[s].state /\ x.restarting = 0
        /\ \/ /\ session[s].closing = "restart" /\ x.closing = "over" /\ x.current = 0
           \/ /\ session[s].closing # "restart" /\ x.closing = session[s].closing
              /\ x.current = k
    <3> HIDE DEF s
    <3>1. CASE session[s].closing = "restart"
      BY <1>1, <1>6, <1>8, <3>1 DEF AfterRestart, ClosedSession, Session
    <3>2. CASE session[s].closing # "restart"
      BY <1>1, <1>6, <1>8, <3>2 DEF AfterRestart, Session
    <3> QED
      BY <3>1, <3>2
  <2>2. session[s].closing # "over"
    BY <1>1, <1>6, <1>8 DEF StartOK, SessionOK
  <2> HIDE DEF x
  <2>3. StartMoves(k, y, x)
    BY <1>1, <1>2, <1>3, <1>5, <1>8, <2>1, <2>2 DEF StartMoves, Flies
  <2>4. /\ kernel' \in [Kernels -> KernelStates]
        /\ \A j \in Kernels : \/ kernel'[j] = kernel[j]
                              \/ kernel[j] = "running" /\ kernel'[j] \in {"down", "left"}
                              \/ /\ kernel[j] = "running" /\ kernel'[j] = "asked"
                                 /\ j = session[s].current
        /\ session[s].current # 0 => kernel'[session[s].current] # "running"
        /\ kernel'[k] = kernel[k]
    BY <1>1, <1>4, <1>6, <1>7, <1>8 DEF ShutDown, Replaced, Typed, KernelStates
  <2>5. kernel[k] \notin {"none", "requested", "asked"} /\ session[s].state = "open"
    BY <1>1, <1>8 DEF KernelOK, StartOK, InUse
  <2>6. KernelsMove(k, y, x)
    <3>1. \A j \in Kernels : j = session[s].current => x.current # j
      BY <1>6, <1>7, <2>1 DEF Kernels
    <3> QED
      BY <1>5, <1>8, <2>1, <2>4, <2>5, <3>1 DEF KernelsMove
  <2> QED
    BY <1>1, <2>3, <2>6, MoveStep
<1>9. CASE ~IsRestart(k)
  <2>1. /\ x \in Session /\ x.state = IF late THEN "failed" ELSE "open"
        /\ x.restarting = session[s].restarting /\ x.closing = session[s].closing
        /\ x.current = k
    <3> HIDE DEF s, late
    <3> QED
      BY <1>1, <1>6, <1>9 DEF Session
  <2> HIDE DEF x
  <2>2. session[s].state = "starting" /\ session[s].closing = "no"
    BY <1>1, <1>9 DEF StartOK, SessionOK, Session
  <2>3. session[s].current = 0
    <3> SUFFICES ASSUME session[s].current # 0
                 PROVE  FALSE
      OBVIOUS
    <3>1. PICK j \in Kernels : j = session[s].current
      BY <1>7
    <3>2. start[j].of = s /\ start[j].pc = "done" /\ j # k
      BY <1>1, <1>7, <3>1 DEF SessionOK
    <3>3. IsRestart(j)
      BY <1>9, <3>2, OneFirst
    <3>4. StartOK(j) /\ Used(j)
      BY <1>1, <3>2 DEF PartsInv, Used
    <3> QED
      BY <2>2, <3>2, <3>3, <3>4 DEF StartOK
  <2>4. StartMoves(k, y, x)
    BY <1>1, <1>2, <1>3, <1>5, <1>9, <2>1, <2>2 DEF StartMoves, Flies
  <2>5. kernel' = kernel /\ kernel[k] \notin {"none", "requested", "asked"}
    BY <1>1, <1>4, <1>9 DEF KernelOK, InUse
  <2>6. late => y.cancelled \/ server'.disposed
    BY <1>1, <1>5 DEF Refused
  <2>7. KernelsMove(k, y, x)
    <3> HIDE DEF late, s
    <3> QED
      BY <1>1, <1>5, <1>9, <2>1, <2>3, <2>5, <2>6 DEF KernelsMove, Typed, s
  <2> QED
    BY <1>1, <2>4, <2>7, MoveStep
<1> QED
  BY <1>8, <1>9

-----------------------------------------------------------------------------
(***************************************************************************)
(* Steps that leave all starts as they are: a session begins to be closed  *)
(* or is over, kernels end with their server, the answer to a start that   *)
(* was cancelled comes late.                                               *)
(***************************************************************************)
SessionStays(s) == /\ session'[s].closing = session[s].closing
                   /\ session'[s].current = session[s].current

BeginsClosing(s) == /\ session[s].closing = "no" /\ session'[s].closing = "current"
                    /\ session[s].state = "open" /\ session[s].current # 0
                    /\ session'[s].current = session[s].current
                    /\ kernel'[session[s].current] # "running"

IsOver(s) == /\ session[s].closing = "current" /\ session[s].restarting = 0
             /\ session'[s].closing = "over" /\ session'[s].current = 0

LEMMA StartsStay ==
  ASSUME Typed, PartsInv, start' = start,
         \A s \in Sessions : /\ session'[s].state = session[s].state
                             /\ session'[s].restarting = session[s].restarting
                             /\ SessionStays(s) \/ BeginsClosing(s) \/ IsOver(s),
         \A k \in Kernels :
            \/ kernel'[k] = kernel[k]
            \/ kernel[k] # "none" /\ kernel'[k] \in {"down", "left"}
            \/ /\ kernel[k] = "running" /\ kernel'[k] = "asked"
               /\ start[k].pc = "done" /\ session'[start[k].of].closing # "no"
            \/ /\ kernel[k] = "requested" /\ start[k].pc # "request"
               /\ kernel'[k] # "asked",
         server.disposed => server'.disposed
  PROVE  PartsInv'
<1>1. InOrder'
  BY DEF PartsInv, InOrder, Used
<1>2. \A k \in Kernels : IsRestart(k)' <=> IsRestart(k)
  BY SameRestarts
<1>3. ASSUME NEW k \in Kernels
      PROVE  StartOK(k)'
  <2>1. CASE Used(k)
    <3>1. start[k].of \in Sessions /\ StartOK(k)
      BY <2>1, UsedOf DEF PartsInv
    <3> QED
      BY <1>2, <2>1, <3>1 DEF StartOK, Used, InFlight
  <2>2. CASE ~Used(k)
    BY <2>2 DEF StartOK, Used
  <2> QED
    BY <2>1, <2>2
<1>4. ASSUME NEW k \in Kernels
      PROVE  KernelOK(k)'
  <2>1. KernelOK(k)
    BY DEF PartsInv
  <2>2. ASSUME kernel'[k] = "running"
        PROVE  Owned(k)' \/ Leaked(k)'
    <3>1. CASE kernel[k] = "requested" /\ start[k].pc # "request"
      BY <2>1, <3>1 DEF KernelOK, Leaked
    <3>2. CASE kernel[k] = "running"
      <4> DEFINE s == start[k].of
      <4>1. s \in Sessions /\ (Owned(k) \/ Leaked(k))
        BY <2>1, <3>2, UsedOf DEF KernelOK, PartsInv, Used
      <4>2. SessionOK(s)
        BY <4>1 DEF PartsInv
      <4>3. CASE InFlight(k) \/ start[k].cancelled \/ (~IsRestart(k) /\ server.disposed)
        BY <1>2, <4>3 DEF Owned, Leaked, InFlight
      <4>4. CASE session[s].state = "open" /\ session[s].current = k
        <5>1. CASE SessionStays(s) \/ BeginsClosing(s)
          BY <4>1, <4>4, <5>1 DEF Owned, SessionStays, BeginsClosing
        <5>2. CASE IsOver(s)
          <6>1. IsRestart(k)
            BY <3>2, <4>2, <4>4, <5>2 DEF SessionOK, IsOver, Kernels
          <6> QED
            BY <1>2, <5>2, <6>1 DEF Leaked, IsOver
        <5> QED
          BY <4>1, <5>1, <5>2
      <4>5. CASE IsRestart(k) /\ session[s].closing = "over"
        BY <1>2, <4>1, <4>5 DEF Leaked, SessionStays, BeginsClosing, IsOver
      <4> QED
        BY <4>1, <4>3, <4>4, <4>5 DEF Owned, Leaked
    <3> QED
      BY <2>2, <3>1, <3>2
  <2>3. /\ kernel[k] = "none" => kernel'[k] = "none"
        /\ kernel'[k] = "requested" => kernel[k] = "requested"
        /\ start[k].pc \in {"idle", "done"} => kernel'[k] \notin {"none", "requested"}
    BY <2>1, <2>2 DEF KernelOK
  <2>4. ASSUME kernel'[k] = "asked"
        PROVE  ~InUse(k)'
    <3>1. CASE start[k].pc = "done" /\ session'[start[k].of].closing # "no"
      BY <3>1 DEF InUse, InFlight
    <3>2. CASE kernel[k] = "asked"
      <4> DEFINE s == start[k].of
      <4>1. s \in Sessions /\ ~InUse(k)
        BY <2>1, <3>2, UsedOf DEF KernelOK, PartsInv, Used
      <4> QED
        BY <4>1 DEF InUse, InFlight, SessionStays, BeginsClosing, IsOver, Kernels
    <3> QED
      BY <2>4, <3>1, <3>2
  <2> QED
    BY <2>1, <2>2, <2>3, <2>4 DEF KernelOK
<1>5. ASSUME NEW s \in Sessions
      PROVE  SessionOK(s)'
  <2>1. /\ SessionOK(s)
        /\ session[s].current \in Kernels \cup {0}
        /\ session[s].restarting \in Kernels \cup {0}
    BY DEF PartsInv, Typed, Session, Kernels
  <2>2. \A k \in Kernels : start[k].pc = "done" /\ kernel'[k] = "running"
                              => kernel[k] = "running"
    BY DEF PartsInv, KernelOK
  <2>3. CASE SessionStays(s)
    BY <1>2, <2>1, <2>2, <2>3 DEF SessionOK, SessionStays, InFlight
  <2>4. CASE BeginsClosing(s)
    BY <1>2, <2>1, <2>4 DEF SessionOK, BeginsClosing, InFlight
  <2>5. CASE IsOver(s)
    BY <2>1, <2>5 DEF SessionOK, IsOver
  <2> QED
    BY <2>3, <2>4, <2>5
<1> QED
  BY <1>1, <1>3, <1>4, <1>5 DEF PartsInv

LEMMA EndsStep ==
  ASSUME IInv, NEW k \in Kernels, KernelEnds(k)
  PROVE  IInv'
<1>1. /\ Typed /\ kernel[k] = "asked" /\ kernel' = [kernel EXCEPT ![k] = "down"]
      /\ UNCHANGED <<remote, start, session, server>>
  BY DEF KernelEnds, IInv
<1>2. /\ kernel' \in [Kernels -> KernelStates] /\ kernel'[k] = "down"
      /\ \A j \in Kernels \ {k} : kernel'[j] = kernel[j]
  BY <1>1 DEF Typed, KernelStates
<1>3. Typed'
  BY <1>1, <1>2 DEF Typed
<1>4. PartsInv'
  BY <1>1, <1>2, StartsStay DEF IInv, SessionStays
<1>5. ServerOK'
  BY <1>1, ServerStays DEF IInv
<1> QED
  BY <1>3, <1>4, <1>5 DEF IInv

LEMMA StartedStep ==
  ASSUME IInv, NEW k \in Kernels, KernelStarted(k)
  PROVE  IInv'
<1>1. /\ Typed /\ kernel[k] = "requested" /\ KernelOK(k) /\ start[k] \in Start
      /\ kernel' = [kernel EXCEPT ![k] = "running"]
      /\ UNCHANGED <<remote, session, server>>
  BY DEF KernelStarted, IInv, PartsInv, Typed
<1>2. /\ kernel' \in [Kernels -> KernelStates] /\ kernel'[k] = "running"
      /\ \A j \in Kernels \ {k} : kernel'[j] = kernel[j]
  BY <1>1 DEF Typed, KernelStates
<1>3. CASE start[k].pc = "request"
  <2>1. start' = [start EXCEPT ![k].pc = "idle"] /\ InFlight(k)
    BY <1>3 DEF KernelStarted, InFlight
  <2> QED
    BY <1>1, <1>2, <2>1, GoesOnStep
<1>4. CASE start[k].pc # "request"
  <2>1. start' = start
    <3>1. start' = [start EXCEPT ![k] = [start[k] EXCEPT !.pc = start[k].pc]]
      BY <1>4 DEF KernelStarted
    <3>2. [start[k] EXCEPT !.pc = start[k].pc] = start[k]
      BY <1>1 DEF Start
    <3> QED
      BY <1>1, <3>1, <3>2 DEF Typed
  <2>2. Typed'
    BY <1>1, <1>2, <2>1 DEF Typed
  <2>3. PartsInv'
    BY <1>1, <1>2, <1>4, <2>1, StartsStay DEF IInv, SessionStays
  <2>4. ServerOK'
    BY <1>1, ServerStays DEF IInv
  <2> QED
    BY <2>2, <2>3, <2>4 DEF IInv
<1> QED
  BY <1>3, <1>4

(* Sessions that were handed out begin to be closed.                       *)
LEMMA BeginCloseFields ==
  ASSUME IInv, NEW S \in SUBSET Sessions, NEW e \in BOOLEAN, BeginClose(S, e),
         \A s \in S : session[s].state = "open",
         start' = start, server.disposed => server'.disposed
  PROVE  /\ PartsInv'
         /\ kernel' \in [Kernels -> KernelStates]
         /\ session' \in [Sessions -> Session]
         /\ \A s \in Sessions : /\ session'[s].state = session[s].state
                                /\ session[s].closing = "over" => session'[s].closing = "over"
<1> DEFINE alive == {s \in S : session[s].current # 0}
           a(s) == [session[s] EXCEPT !.closing = "current"]
           K == {session[s].current : s \in alive}
<1>1. /\ Typed /\ kernel' = ShutDown(K, e)
      /\ session' = [s \in Sessions |-> IF s \in alive /\ session[s].closing = "no"
                                        THEN a(s) ELSE session[s]]
  BY DEF IInv, BeginClose
<1>2. ASSUME NEW s \in Sessions
      PROVE  /\ session[s] \in Session /\ a(s) \in Session /\ a(s).closing = "current"
             /\ a(s).state = session[s].state /\ a(s).current = session[s].current
             /\ a(s).restarting = session[s].restarting
  <2>1. session[s] \in Session
    BY <1>1 DEF Typed
  <2> QED
    BY <2>1 DEF Session
<1>3. /\ kernel' \in [Kernels -> KernelStates]
      /\ \A j \in Kernels : \/ kernel'[j] = kernel[j]
                            \/ kernel[j] = "running" /\ kernel'[j] \in {"down", "left"}
                            \/ kernel[j] = "running" /\ kernel'[j] = "asked" /\ j \in K
      /\ \A j \in K \cap Kernels : kernel'[j] # "running"
  BY <1>1 DEF ShutDown, Typed, KernelStates
<1>4. ASSUME NEW s \in Sessions
      PROVE  /\ session'[s] \in Session
             /\ session'[s].state = session[s].state
             /\ session'[s].restarting = session[s].restarting
             /\ SessionStays(s) \/ BeginsClosing(s)
  <2>1. CASE s \in alive /\ session[s].closing = "no"
    <3>1. session'[s] = a(s)
      BY <1>1, <2>1
    <3>2. session[s].current \in K \cap Kernels /\ session[s].current # 0
      <4>1. s \in alive /\ session[s].current # 0
        BY <2>1
      <4>2. session[s].current \in K
        BY <4>1
      <4>3. session[s].current \in Kernels
        <5>1. session[s] \in Session
          BY <1>1 DEF Typed
        <5> HIDE DEF alive, K, a
        <5> QED
          BY <4>1, <5>1 DEF Session, Kernels
      <4> QED
        BY <4>1, <4>2, <4>3
    <3>3. session[s].state = "open"
      BY <2>1
    <3> QED
      BY <1>2, <1>3, <2>1, <3>1, <3>2, <3>3 DEF BeginsClosing
  <2>2. CASE ~(s \in alive /\ session[s].closing = "no")
    <3>1. session'[s] = session[s]
      BY <1>1, <2>2
    <3> QED
      BY <1>2, <3>1 DEF SessionStays
  <2> QED
    BY <2>1, <2>2
<1>8. \A j \in K \cap Kernels : start[j].pc = "done" /\ session'[start[j].of].closing # "no"
  <2> SUFFICES ASSUME NEW j \in K \cap Kernels
               PROVE  start[j].pc = "done" /\ session'[start[j].of].closing # "no"
    OBVIOUS
  <2>1. PICK s \in alive : j = session[s].current
    OBVIOUS
  <2>2. s \in Sessions /\ s \in alive /\ session[s].current # 0
    BY <2>1
  <2>3. SessionOK(s)
    BY <2>2 DEF IInv, PartsInv
  <2>4. start[j].of = s /\ start[j].pc = "done"
    BY <2>1, <2>2, <2>3 DEF SessionOK
  <2>5. session'[s].closing # "no"
    <3>1. session'[s] = IF session[s].closing = "no" THEN a(s) ELSE session[s]
      BY <1>1, <2>2
    <3> QED
      BY <1>2, <2>2, <3>1
  <2> QED
    BY <2>4, <2>5
<1> HIDE DEF alive, a, K
<1>5. PartsInv'
  <2>1. \A s \in Sessions : /\ session'[s].state = session[s].state
                            /\ session'[s].restarting = session[s].restarting
                            /\ SessionStays(s) \/ BeginsClosing(s) \/ IsOver(s)
    BY <1>4
  <2>2. \A k \in Kernels :
            \/ kernel'[k] = kernel[k]
            \/ kernel[k] # "none" /\ kernel'[k] \in {"down", "left"}
            \/ /\ kernel[k] = "running" /\ kernel'[k] = "asked"
               /\ start[k].pc = "done" /\ session'[start[k].of].closing # "no"
            \/ /\ kernel[k] = "requested" /\ start[k].pc # "request"
               /\ kernel'[k] # "asked"
    BY <1>3, <1>8
  <2> QED
    BY <1>1, <2>1, <2>2, StartsStay DEF IInv
<1>6. session' \in [Sessions -> Session]
  BY <1>1, <1>4
<1>7. \A s \in Sessions : session[s].closing = "over" => session'[s].closing = "over"
  BY <1>4 DEF SessionStays, BeginsClosing
<1> QED
  BY <1>3, <1>4, <1>5, <1>6, <1>7

LEMMA CloseSteps ==
  ASSUME IInv, NEW s \in Sessions, Dispose(s) \/ Shutdown(s)
  PROVE  IInv'
<1>1. PICK e \in BOOLEAN : Close(s, e)
  BY TRUE \in BOOLEAN, FALSE \in BOOLEAN DEF Dispose, Shutdown
<1>2. /\ {s} \in SUBSET Sessions /\ BeginClose({s}, e) /\ \A r \in {s} : session[r].state = "open"
      /\ UNCHANGED <<remote, start, server>>
  BY <1>1 DEF Close
<1>3. /\ PartsInv'
      /\ kernel' \in [Kernels -> KernelStates]
      /\ session' \in [Sessions -> Session]
      /\ \A r \in Sessions : /\ session'[r].state = session[r].state
                             /\ session[r].closing = "over" => session'[r].closing = "over"
  BY <1>2, BeginCloseFields
<1>4. Typed'
  BY <1>2, <1>3 DEF IInv, Typed
<1>5. ServerOK'
  BY <1>2, <1>3, ServerStays DEF IInv
<1> QED
  BY <1>3, <1>4, <1>5 DEF IInv

(* The current kernel is seen to; a restart is cancelled and awaited.      *)
LEMMA CurrentClosedStep ==
  ASSUME IInv, NEW s \in Sessions, CurrentClosed(s)
  PROVE  IInv'
<1> DEFINE k == session[s].restarting
           over == ClosedSession(session[s])
           waits == [session[s] EXCEPT !.closing = "restart"]
<1>1. /\ Typed /\ PartsInv /\ session[s] \in Session /\ SessionOK(s)
      /\ session[s].closing = "current" /\ session[s].state = "open"
      /\ UNCHANGED <<remote, kernel, server>>
  BY DEF IInv, Typed, PartsInv, CurrentClosed, SessionOK
<1>2. /\ over \in Session /\ over.state = "open" /\ over.closing = "over"
      /\ over.current = 0 /\ over.restarting = 0
  BY <1>1, 0 \in 0..MaxKernels DEF ClosedSession, Session
<1>3. /\ waits \in Session /\ waits.state = "open" /\ waits.closing = "restart"
      /\ waits.current = session[s].current /\ waits.restarting = session[s].restarting
  BY <1>1 DEF Session
<1> HIDE DEF over, waits
<1>4. CASE k = 0
  <2>1. start' = start /\ session' = [session EXCEPT ![s] = over]
    BY <1>4 DEF CurrentClosed, over
  <2>2. /\ session' \in [Sessions -> Session] /\ session'[s] = over
        /\ \A r \in Sessions \ {s} : session'[r] = session[r]
    BY <1>1, <1>2, <2>1 DEF Typed
  <2>3. \A r \in Sessions : /\ session'[r].state = session[r].state
                            /\ session'[r].restarting = session[r].restarting
                            /\ SessionStays(r) \/ BeginsClosing(r) \/ IsOver(r)
    BY <1>1, <1>2, <1>4, <2>2 DEF SessionStays, IsOver
  <2>4. PartsInv'
    BY <1>1, <2>1, <2>3, StartsStay
  <2>5. ServerOK'
    BY <1>1, <1>2, <2>2, <2>3, ServerStays DEF IInv
  <2> QED
    BY <1>1, <2>1, <2>2, <2>4, <2>5 DEF IInv, Typed
<1>5. CASE k # 0
  <2> DEFINE pc == IF start[k].pc = "request" THEN "failed" ELSE start[k].pc
             y == [start[k] EXCEPT !.cancelled = TRUE, !.pc = pc]
             x == IF pc # "failed" THEN waits ELSE over
  <2>1. /\ k \in Kernels /\ start[k].of = s /\ InFlight(k) /\ IsRestart(k)
        /\ start[k] \in Start
    BY <1>1, <1>5 DEF SessionOK, Session, Kernels, Typed
  <2>2. y = Cancelled(k)
    BY DEF Cancelled
  <2>3. /\ y \in Start /\ y.of = s /\ y.cancelled /\ y.pc = pc
        /\ pc \in {"directory", "file", "usable", "idle", "failed"}
    <3>1. pc \in {"directory", "file", "usable", "idle", "failed"}
      BY <2>1 DEF InFlight
    <3> HIDE DEF pc
    <3> QED
      BY <2>1, <3>1, TRUE \in BOOLEAN DEF Start
  <2>4. start' = [start EXCEPT ![k] = y]
    BY <1>5, <2>2 DEF CurrentClosed
  <2> HIDE DEF y
  <2>5. start'[k] = y
    BY <1>1, <2>1, <2>4 DEF Typed
  <2>6. session' = [session EXCEPT ![s] = x]
    <3>1. session' = [session EXCEPT ![s] = IF k # 0 /\ start'[k].pc # "failed"
                                            THEN waits ELSE over]
      BY DEF CurrentClosed, waits, over
    <3> QED
      BY <1>5, <2>3, <2>5, <3>1
  <2>7. /\ x \in Session /\ x.state = "open"
        /\ pc # "failed" => /\ x.closing = "restart" /\ x.restarting = k
                            /\ x.current = session[s].current
        /\ pc = "failed" => x.closing = "over" /\ x.restarting = 0 /\ x.current = 0
    BY <1>2, <1>3
  <2> HIDE DEF x, pc
  <2>8. StartMoves(k, y, x)
    BY <1>1, <2>1, <2>3, <2>4, <2>6, <2>7 DEF StartMoves, Flies
  <2>9. KernelsMove(k, y, x)
    <3>1. KernelOK(k)
      BY <1>1, <2>1 DEF PartsInv
    <3>2. pc # "failed" => pc = start[k].pc
      BY DEF pc
    <3>3. session[s].current # 0 => kernel[session[s].current] # "running"
                                       \/ IsRestart(session[s].current)
      BY <1>1 DEF SessionOK
    <3> QED
      BY <1>1, <2>1, <2>3, <2>7, <3>1, <3>2, <3>3 DEF KernelsMove, Typed, KernelOK, InUse
  <2> QED
    BY <1>1, <2>1, <2>8, <2>9, MoveStep
<1> QED
  BY <1>4, <1>5

-----------------------------------------------------------------------------
(***************************************************************************)
(* Steps of the server.                                                    *)
(***************************************************************************)
LEMMA ServerFields ==
  ASSUME server \in Server, NEW r \in Shutdowns, NEW up \in BOOLEAN, NEW d \in BOOLEAN,
         NEW pc \in {"no", "starts", "closes", "done", "failed"},
         NEW waits \in SUBSET Sessions,
         server' = [server EXCEPT !.up = up, !.disposed = d,
                                  !.pc = [server.pc EXCEPT ![r] = pc],
                                  !.awaits = [server.awaits EXCEPT ![r] = waits]]
  PROVE  /\ server' \in Server /\ server'.disposed = d
         /\ server'.pc[r] = pc /\ server'.awaits[r] = waits
         /\ \A q \in Shutdowns \ {r} : /\ server'.pc[q] = server.pc[q]
                                       /\ server'.awaits[q] = server.awaits[q]
<1> DEFINE p == [server.pc EXCEPT ![r] = pc]
           a == [server.awaits EXCEPT ![r] = waits]
<1>1. /\ p \in [Shutdowns -> {"no", "starts", "closes", "done", "failed"}]
      /\ p[r] = pc /\ \A q \in Shutdowns \ {r} : p[q] = server.pc[q]
  BY DEF Server
<1>2. /\ a \in [Shutdowns -> SUBSET Sessions]
      /\ a[r] = waits /\ \A q \in Shutdowns \ {r} : a[q] = server.awaits[q]
  BY DEF Server
<1>3. server' = [server EXCEPT !.up = up, !.disposed = d, !.pc = p, !.awaits = a]
  OBVIOUS
<1> HIDE DEF p, a
<1>4. server' \in Server /\ server'.disposed = d /\ server'.pc = p /\ server'.awaits = a
  BY <1>1, <1>2, <1>3 DEF Server
<1> QED
  BY <1>1, <1>2, <1>4

(* Kernels that go with their server.                                      *)
LEMMA AllDownFields ==
  ASSUME Typed
  PROVE  /\ AllDown \in [Kernels -> KernelStates]
         /\ \A k \in Kernels : \/ AllDown[k] = kernel[k]
                               \/ kernel[k] # "none" /\ AllDown[k] \in {"down", "left"}
  BY DEF AllDown, Typed, KernelStates

LEMMA SessionsAside ==
  ASSUME Typed, PartsInv, start' = start, session' = session,
         kernel' = kernel \/ kernel' = AllDown, server.disposed => server'.disposed
  PROVE  PartsInv'
<1>1. \A k \in Kernels : \/ kernel'[k] = kernel[k]
                         \/ kernel[k] # "none" /\ kernel'[k] \in {"down", "left"}
  BY AllDownFields
<1>2. \A s \in Sessions : SessionStays(s)
  BY DEF SessionStays
<1> QED
  BY <1>1, <1>2, StartsStay

LEMMA DisposeServerStep ==
  ASSUME IInv, DisposeServer
  PROVE  IInv'
<1>1. Typed /\ PartsInv /\ server \in Server /\ "dispose" \in Shutdowns
      /\ UNCHANGED <<remote, kernel, start, session>>
  BY DEF IInv, Typed, DisposeServer, Shutdowns
<1>2. Tracked \in SUBSET Sessions /\ server.up \in BOOLEAN
  BY <1>1 DEF Tracked, Server
<1>3. server' = [[server EXCEPT !.pc["dispose"] = "starts", !.awaits["dispose"] = Tracked]
                    EXCEPT !.disposed = TRUE]
  BY DEF DisposeServer, BeginShutdown
<1>4. server' = [server EXCEPT !.up = server.up, !.disposed = TRUE,
                               !.pc = [server.pc EXCEPT !["dispose"] = "starts"],
                               !.awaits = [server.awaits EXCEPT !["dispose"] = Tracked]]
  BY <1>1, <1>3 DEF Server
<1>5. /\ server' \in Server /\ server'.disposed
      /\ server'.pc["dispose"] = "starts" /\ server'.awaits["dispose"] = Tracked
  BY <1>1, <1>2, <1>4, ServerFields, TRUE \in BOOLEAN
<1>6. ServerOK'
  <2>1. \A s \in Sessions : session[s].state \in {"starting", "open"}
              => s \in Tracked \/ session[s].closing = "over"
    BY DEF Tracked
  <2> QED
    BY <1>1, <1>5, <2>1 DEF ServerOK
<1>7. PartsInv'
  BY <1>1, <1>5, SessionsAside
<1> QED
  BY <1>1, <1>5, <1>6, <1>7 DEF IInv, Typed

LEMMA CrashStep ==
  ASSUME IInv, Crash
  PROVE  IInv'
<1>1. Typed /\ PartsInv /\ server \in Server /\ "crash" \in Shutdowns /\ "dispose" \in Shutdowns
      /\ kernel' = AllDown /\ UNCHANGED <<remote, start, session>>
  BY DEF IInv, Typed, Crash, Shutdowns
<1>2. Tracked \in SUBSET Sessions /\ server.disposed \in BOOLEAN
  BY <1>1 DEF Tracked, Server
<1>3. /\ server' \in Server /\ server'.disposed = server.disposed
      /\ server'.pc["dispose"] = server.pc["dispose"]
      /\ server'.awaits["dispose"] = server.awaits["dispose"]
  <2>1. CASE server.disposed
    <3>1. server' = [server EXCEPT !.up = FALSE]
      BY <2>1 DEF Crash
    <3> QED
      BY <1>1, <3>1 DEF Server
  <2>2. CASE ~server.disposed
    <3>1. server' = [[server EXCEPT !.pc["crash"] = "starts", !.awaits["crash"] = Tracked]
                        EXCEPT !.up = FALSE]
      BY <2>2 DEF Crash, BeginShutdown
    <3>2. PICK up \in BOOLEAN, d \in BOOLEAN : up = FALSE /\ d = server.disposed
      BY <1>2, FALSE \in BOOLEAN
    <3>3. server' = [server EXCEPT !.up = up, !.disposed = d,
                               !.pc = [server.pc EXCEPT !["crash"] = "starts"],
                               !.awaits = [server.awaits EXCEPT !["crash"] = Tracked]]
      BY <1>1, <3>1, <3>2 DEF Server
    <3>4. /\ server' \in Server /\ server'.disposed = d
          /\ \A q \in Shutdowns \ {"crash"} : /\ server'.pc[q] = server.pc[q]
                                            /\ server'.awaits[q] = server.awaits[q]
      BY <1>1, <1>2, <3>3, ServerFields
    <3> QED
      BY <1>1, <3>2, <3>4
  <2> QED
    BY <2>1, <2>2
<1>4. ServerOK'
  BY <1>1, <1>3 DEF IInv, ServerOK
<1>5. PartsInv'
  BY <1>1, <1>3, SessionsAside
<1> QED
  BY <1>1, <1>3, <1>4, <1>5, AllDownFields DEF IInv, Typed

LEMMA ServerSteps ==
  ASSUME IInv, NEW r \in Shutdowns, CloseSessions(r) \/ ShutdownFails(r) \/ SessionsClosed(r)
  PROVE  IInv'
<1>1. /\ Typed /\ PartsInv /\ server \in Server /\ "dispose" \in Shutdowns
      /\ server.awaits[r] \in SUBSET Sessions
      /\ server.disposed \in BOOLEAN /\ server.up \in BOOLEAN /\ remote \in BOOLEAN
      /\ UNCHANGED <<remote, start>>
      /\ server.pc[r] \in {"starts", "closes"}
  BY DEF IInv, Typed, Server, Shutdowns, CloseSessions, ShutdownFails, SessionsClosed
<1>2. ASSUME NEW pc \in {"closes", "done", "failed"}, NEW up \in BOOLEAN,
             server' = [server EXCEPT !.pc[r] = pc, !.up = up]
      PROVE  /\ server' \in Server /\ server'.disposed = server.disposed
             /\ server'.pc[r] = pc /\ \A q \in Shutdowns : server'.awaits[q] = server.awaits[q]
             /\ \A q \in Shutdowns \ {r} : server'.pc[q] = server.pc[q]
  <2> DEFINE p == [server.pc EXCEPT ![r] = pc]
  <2>1. /\ p \in [Shutdowns -> {"no", "starts", "closes", "done", "failed"}]
        /\ p[r] = pc /\ \A q \in Shutdowns \ {r} : p[q] = server.pc[q]
    BY <1>1, <1>2 DEF Server
  <2>2. server' = [server EXCEPT !.pc = p, !.up = up] /\ up \in BOOLEAN
    BY <1>2
  <2> HIDE DEF p
  <2>3. /\ server' \in Server /\ server'.disposed = server.disposed
        /\ server'.pc = p /\ server'.awaits = server.awaits
    BY <1>1, <2>1, <2>2 DEF Server
  <2> QED
    BY <2>1, <2>3
<1>3. ASSUME NEW pc \in {"closes", "done", "failed"}, server' = [server EXCEPT !.pc[r] = pc]
      PROVE  server' = [server EXCEPT !.pc[r] = pc, !.up = server.up]
  BY <1>1, <1>3 DEF Server
<1>4. CASE CloseSessions(r)
  <2>1. /\ server' = [server EXCEPT !.pc[r] = "closes"]
        /\ BeginClose(server.awaits[r], FALSE)
        /\ \A s \in server.awaits[r] : session[s].state = "open"
    BY <1>4 DEF CloseSessions, AllStarted
  <2>2. /\ server' \in Server /\ server'.disposed = server.disposed
        /\ server'.pc[r] = "closes" /\ \A q \in Shutdowns : server'.awaits[q] = server.awaits[q]
        /\ \A q \in Shutdowns \ {r} : server'.pc[q] = server.pc[q]
    BY <1>1, <1>2, <1>3, <2>1
  <2>3. PICK e \in BOOLEAN : BeginClose(server.awaits[r], e)
    BY <2>1, FALSE \in BOOLEAN
  <2>4. /\ PartsInv'
        /\ kernel' \in [Kernels -> KernelStates]
        /\ session' \in [Sessions -> Session]
        /\ \A s \in Sessions : /\ session'[s].state = session[s].state
                               /\ session[s].closing = "over" => session'[s].closing = "over"
    BY <1>1, <2>1, <2>2, <2>3, BeginCloseFields
  <2>5. ServerOK'
    <3>1. server.pc[r] # "no" /\ server.awaits["dispose"] \subseteq Sessions
      BY <1>1 DEF Server
    <3> QED
      BY <1>1, <2>2, <2>4, <3>1 DEF IInv, ServerOK
  <2> QED
    BY <1>1, <2>2, <2>4, <2>5 DEF IInv, Typed
<1>5. CASE ShutdownFails(r)
  <2>1. server' = [server EXCEPT !.pc[r] = "failed"] /\ UNCHANGED <<kernel, session>>
    BY <1>5 DEF ShutdownFails
  <2>2. /\ server' \in Server /\ server'.disposed = server.disposed
        /\ server'.pc[r] = "failed" /\ \A q \in Shutdowns : server'.awaits[q] = server.awaits[q]
        /\ \A q \in Shutdowns \ {r} : server'.pc[q] = server.pc[q]
    BY <1>1, <1>2, <1>3, <2>1
  <2>3. ServerOK'
    BY <1>1, <2>1, <2>2 DEF IInv, ServerOK
  <2>4. PartsInv'
    BY <1>1, <2>1, <2>2, SessionsAside
  <2> QED
    BY <1>1, <2>1, <2>2, <2>3, <2>4 DEF IInv, Typed
<1>6. CASE SessionsClosed(r)
  <2>1. /\ server' = [server EXCEPT !.pc[r] = "done", !.up = remote]
        /\ \A s \in server.awaits[r] : session[s].closing = "over"
        /\ session' = session /\ (kernel' = kernel \/ kernel' = AllDown)
    BY <1>6 DEF SessionsClosed
  <2>2. /\ server' \in Server /\ server'.disposed = server.disposed
        /\ server'.pc[r] = "done" /\ \A q \in Shutdowns : server'.awaits[q] = server.awaits[q]
        /\ \A q \in Shutdowns \ {r} : server'.pc[q] = server.pc[q]
    BY <1>1, <1>2, <2>1
  <2>3. ServerOK'
    BY <1>1, <2>1, <2>2 DEF IInv, ServerOK
  <2>4. PartsInv'
    BY <1>1, <2>1, <2>2, SessionsAside
  <2> QED
    BY <1>1, <2>1, <2>2, <2>3, <2>4, AllDownFields DEF IInv, Typed
<1> QED
  BY <1>4, <1>5, <1>6

-----------------------------------------------------------------------------
(***************************************************************************)
(* A start begins.                                                         *)
(***************************************************************************)
LEMMA BeginFields ==
  ASSUME Typed, PartsInv, NEW s \in Sessions, NEW k \in Kernels,
         NEW pc \in {"directory", "file"}, BeginStart(s, k, pc)
  PROVE  /\ start' \in [Kernels -> Start] /\ start'[k].of = s
         /\ start'[k].pc = pc
         /\ \A j \in Kernels \ {k} : start'[j] = start[j]
         /\ ~Used(k) /\ kernel[k] = "none"
         /\ \A j \in Kernels : Used(j) => j < k /\ (IsRestart(j)' <=> IsRestart(j))
         /\ IsRestart(k)' <=> \E j \in Kernels : start[j].of = s
         /\ InOrder'
<1> DEFINE y == [of |-> s, pc |-> pc, cancelled |-> FALSE]
<1>1. ~Used(k) /\ \A j \in 1..k - 1 : Used(j)
  BY DEF BeginStart, Used
<1>2. y \in Start /\ y.of = s /\ y.pc = pc
  BY FALSE \in BOOLEAN DEF Start, Sessions
<1>3. start' = [start EXCEPT ![k] = y]
  BY DEF BeginStart
<1> HIDE DEF y
<1>4. start' \in [Kernels -> Start] /\ start'[k] = y /\ \A j \in Kernels \ {k} : start'[j] = start[j]
  BY <1>2, <1>3 DEF Typed
<1>5. \A j \in Kernels : Used(j) => j < k
  BY <1>1 DEF PartsInv, InOrder
<1>6. \A j \in Kernels : Used(j)' <=> Used(j) \/ j = k
  BY <1>2, <1>4 DEF Used
<1>7. InOrder'
  <2>1. \A j \in Kernels : j < k => Used(j)
    BY <1>1 DEF Kernels
  <2>2. \A j \in Kernels : Used(j)' <=> start'[j].of # 0
    BY <1>2, <1>4, <1>6 DEF PartsInv, InOrder, Sessions
  <2>3. ASSUME NEW i \in Kernels, NEW j \in Kernels, Used(i)', ~Used(j)'
        PROVE  i < j
    BY <1>5, <1>6, <2>1, <2>3 DEF Kernels
  <2> QED
    BY <2>2, <2>3 DEF InOrder
<1>8. ASSUME NEW j \in Kernels, Used(j)
      PROVE  IsRestart(j)' <=> IsRestart(j)
  <2>1. j < k /\ \A i \in 1..j - 1 : i \in Kernels \ {k}
    BY <1>5, <1>8 DEF Kernels
  <2>2. start'[j] = start[j] /\ \A i \in 1..j - 1 : start'[i] = start[i]
    BY <1>4, <1>8, <2>1 DEF Kernels
  <2> QED
    BY <2>2 DEF IsRestart
<1>9. IsRestart(k)' <=> \E j \in Kernels : start[j].of = s
  <2>1. \A j \in 1..k - 1 : j \in Kernels \ {k}
    BY DEF Kernels
  <2>2. \A j \in 1..k - 1 : start'[j] = start[j]
    BY <1>4, <2>1
  <2>3. IsRestart(k)' <=> \E j \in 1..k - 1 : start[j].of = s
    BY <1>2, <1>4, <2>2 DEF IsRestart
  <2>4. \A j \in Kernels : start[j].of = s => j \in 1..k - 1
    BY <1>5 DEF PartsInv, InOrder, Kernels, Sessions
  <2> QED
    BY <2>1, <2>3, <2>4
<1>10. kernel[k] = "none"
  BY <1>1 DEF PartsInv, KernelOK, Used
<1> QED
  BY <1>1, <1>2, <1>4, <1>5, <1>7, <1>8, <1>9, <1>10

LEMMA BeginKeeps ==
  ASSUME IInv, NEW s \in Sessions, NEW k \in Kernels,
         NEW pc \in {"directory", "file"}, BeginStart(s, k, pc),
         NEW x \in Session, session' = [session EXCEPT ![s] = x],
         x.current = session[s].current, x.closing = session[s].closing,
         \/ /\ session[s].state = "new" /\ x.state = "starting"
            /\ x.restarting = session[s].restarting
            /\ ~server.disposed
         \/ /\ session[s].state = "open" /\ session[s].current # 0
            /\ session[s].restarting = 0
            /\ x.state = "open" /\ x.restarting = k,
         UNCHANGED <<remote, kernel, server>>
  PROVE  IInv'
<1>1. Typed /\ PartsInv /\ SessionOK(s)
  BY DEF IInv, PartsInv
<1>2. /\ start' \in [Kernels -> Start] /\ start'[k].of = s
      /\ start'[k].pc = pc
      /\ \A j \in Kernels \ {k} : start'[j] = start[j]
      /\ ~Used(k) /\ kernel[k] = "none"
      /\ \A j \in Kernels : Used(j) => j < k /\ (IsRestart(j)' <=> IsRestart(j))
      /\ IsRestart(k)' <=> \E j \in Kernels : start[j].of = s
      /\ InOrder'
  BY <1>1, BeginFields
<1>3. /\ session' \in [Sessions -> Session] /\ session'[s] = x
      /\ \A r \in Sessions \ {s} : session'[r] = session[r]
  BY <1>1 DEF Typed
<1>4. Typed'
  BY <1>1, <1>2, <1>3 DEF Typed
<1>5. ASSUME NEW j \in Kernels, Used(j)
      PROVE  /\ j \in Kernels \ {k} /\ start'[j] = start[j] /\ start[j].of \in Sessions
             /\ (IsRestart(j)' <=> IsRestart(j)) /\ (InFlight(j)' <=> InFlight(j))
             /\ start[j].of = s => session[s].state = "open"
  <2>1. j \in Kernels \ {k} /\ start[j].of \in Sessions
    BY <1>1, <1>2, <1>5, UsedOf DEF PartsInv
  <2>2. start[j].of = s => session[s].state # "new"
    BY <1>1, <1>5 DEF PartsInv, StartOK
  <2> QED
    BY <1>2, <1>5, <2>1, <2>2 DEF InFlight
<1>6. ASSUME NEW j \in Kernels
      PROVE  StartOK(j)'
  <2>1. CASE Used(j)
    <3>1. StartOK(j)
      BY <1>1 DEF PartsInv
    <3>2. CASE start[j].of # s
      <4>1. session'[start[j].of] = session[start[j].of]
        BY <1>3, <1>5, <2>1, <3>2
      <4> QED
        BY <1>5, <2>1, <3>1, <4>1 DEF StartOK
    <3>3. CASE start[j].of = s
      <4>1. session[s].state = "open" /\ x.state = "open" /\ session[s].restarting = 0
        BY <1>5, <2>1, <3>3
      <4>2. ~InFlight(j)
        BY <2>1, <3>1, <3>3, <4>1 DEF StartOK, Kernels
      <4> QED
        BY <1>3, <1>5, <2>1, <3>1, <3>3, <4>1, <4>2 DEF StartOK
    <3> QED
      BY <3>2, <3>3
  <2>2. CASE j = k
    <3>1. IsRestart(k)' => session[s].state # "new"
      BY <1>1, <1>2 DEF PartsInv, StartOK, InOrder, Sessions
    <3>2. session[s].state = "open" => IsRestart(k)'
      BY <1>1, <1>2 DEF SessionOK
    <3> QED
      BY <1>2, <1>3, <2>2, <3>1, <3>2 DEF StartOK
  <2>3. CASE ~Used(j) /\ j # k
    BY <1>2, <2>3 DEF StartOK, Used
  <2> QED
    BY <2>1, <2>2, <2>3
<1>7. ASSUME NEW j \in Kernels
      PROVE  KernelOK(j)'
  <2>1. KernelOK(j)
    BY <1>1 DEF PartsInv
  <2>2. CASE Used(j)
    <3>1. /\ session'[start[j].of].state = session[start[j].of].state
                \/ session[start[j].of].state = "new"
          /\ session'[start[j].of].current = session[start[j].of].current
          /\ session'[start[j].of].closing = session[start[j].of].closing
      BY <1>3, <1>5, <2>2
    <3> QED
      BY <1>5, <2>1, <2>2, <3>1 DEF KernelOK, Owned, Leaked, InUse
  <2>3. CASE j = k
    BY <1>2, <2>3 DEF KernelOK
  <2>4. CASE ~Used(j) /\ j # k
    <3>1. kernel[j] = "none" /\ start'[j] = start[j] /\ start[j].pc = "unused"
      BY <1>2, <2>1, <2>4 DEF KernelOK, Used
    <3> QED
      BY <3>1 DEF KernelOK
  <2> QED
    BY <2>2, <2>3, <2>4
<1>8. ASSUME NEW r \in Sessions
      PROVE  SessionOK(r)'
  <2>1. /\ SessionOK(r)
        /\ session[r].current \in Kernels \cup {0}
        /\ session[r].restarting \in Kernels \cup {0}
    BY <1>1 DEF PartsInv, Typed, Session, Kernels
  <2>2. \A j \in Kernels : start[j].of = r => Used(j)
    BY <1>1 DEF PartsInv, InOrder, Sessions
  <2>3. session'[r].state # "new" => \E j \in Kernels : start'[j].of = r
    <3>1. CASE r = s
      BY <1>2, <3>1
    <3>2. CASE r # s
      BY <1>3, <1>5, <2>1, <2>2, <3>2 DEF SessionOK
    <3> QED
      BY <3>1, <3>2
  <2>4. /\ session'[r].current = session[r].current
        /\ session'[r].closing = session[r].closing
        /\ session'[r].closing # "no" => session'[r].state = "open"
        /\ session'[r].restarting = session[r].restarting
              \/ (r = s /\ session'[r].restarting = k /\ session[s].current # 0
                   /\ session[s].state = "open")
    BY <1>3, <2>1 DEF SessionOK
  <2>5. ASSUME NEW j \in Kernels, start[j].of = r
        PROVE  /\ start'[j] = start[j]
               /\ (InFlight(j)' <=> InFlight(j)) /\ (IsRestart(j)' <=> IsRestart(j))
    BY <1>5, <2>2, <2>5
  <2>6. PICK c \in Kernels \cup {0}, m \in Kernels \cup {0} :
           c = session[r].current /\ m = session[r].restarting
    BY <2>1
  <2>7. c # 0 => /\ start'[c].of = r /\ start'[c].pc = "done"
                 /\ (IsRestart(c)' <=> IsRestart(c))
    BY <2>1, <2>5, <2>6 DEF SessionOK
  <2>8. m # 0 => start'[m].of = r /\ InFlight(m)' /\ IsRestart(m)'
    BY <2>1, <2>5, <2>6 DEF SessionOK
  <2>9. CASE session'[r].restarting = m
    BY <2>1, <2>3, <2>4, <2>6, <2>7, <2>8, <2>9, <1>2 DEF SessionOK, InFlight, IsRestart
  <2>10. CASE /\ r = s /\ session'[r].restarting = k /\ session[s].current # 0
              /\ session[s].state = "open"
    <3>1. IsRestart(k)' /\ start'[k].of = s /\ InFlight(k)'
      BY <1>1, <1>2, <2>10 DEF SessionOK, InFlight
    <3> QED
      BY <2>1, <2>3, <2>4, <2>6, <2>7, <2>10, <3>1, <1>2 DEF SessionOK, InFlight, IsRestart
  <2> QED
    BY <2>4, <2>6, <2>9, <2>10
<1>9. ServerOK'
  <2>1. server.awaits["dispose"] \subseteq Sessions
    BY <1>1 DEF Typed, Server, Shutdowns
  <2> QED
    BY <1>3, <2>1 DEF IInv, ServerOK
<1> QED
  BY <1>2, <1>4, <1>6, <1>7, <1>8, <1>9 DEF IInv, PartsInv

LEMMA CreateStep ==
  ASSUME IInv, NEW s \in Sessions, CreateNotebook(s)
  PROVE  IInv'
<1> DEFINE x == [session[s] EXCEPT !.state = "starting"]
<1>1. session[s] \in Session
  BY DEF IInv, Typed
<1>2. /\ x \in Session /\ x.state = "starting" /\ x.current = session[s].current
      /\ x.closing = session[s].closing /\ x.restarting = session[s].restarting
  BY <1>1 DEF Session
<1>3. /\ session' = [session EXCEPT ![s] = x] /\ session[s].state = "new" /\ ~server.disposed
      /\ UNCHANGED <<remote, kernel, server>>
  BY DEF CreateNotebook, Refused
<1>4. PICK k \in Kernels, pc \in {"directory", "file"} : BeginStart(s, k, pc)
  BY DEF CreateNotebook
<1> HIDE DEF x
<1>5. \/ /\ session[s].state = "new" /\ x.state = "starting"
         /\ x.restarting = session[s].restarting
         /\ ~server.disposed
      \/ /\ session[s].state = "open" /\ session[s].current # 0
         /\ session[s].restarting = 0
         /\ x.state = "open" /\ x.restarting = k
  BY <1>2, <1>3
<1>6. x \in Session /\ x.current = session[s].current /\ x.closing = session[s].closing
  BY <1>2
<1> QED
  BY <1>3, <1>4, <1>5, <1>6, BeginKeeps, Zenon

LEMMA RestartStep ==
  ASSUME IInv, NEW s \in Sessions, Restart(s)
  PROVE  IInv'
<1>1. PICK k \in Kernels : /\ BeginStart(s, k, "file")
                           /\ session' = [session EXCEPT ![s].restarting = k]
  BY DEF Restart
<1> DEFINE x == [session[s] EXCEPT !.restarting = k]
<1>2. session[s] \in Session /\ k \in 0..MaxKernels
  BY DEF IInv, Typed, Kernels
<1>3. /\ x \in Session /\ x.restarting = k /\ x.current = session[s].current
      /\ x.closing = session[s].closing /\ x.state = session[s].state
  BY <1>2 DEF Session
<1>4. /\ session' = [session EXCEPT ![s] = x] /\ session[s].state = "open"
      /\ session[s].current # 0 /\ session[s].restarting = 0
      /\ UNCHANGED <<remote, kernel, server>>
  BY <1>1 DEF Restart
<1>5. PICK pc \in {"directory", "file"} : pc = "file"
  OBVIOUS
<1>6. BeginStart(s, k, pc)
  BY <1>1, <1>5
<1> HIDE DEF x
<1>7. \/ /\ session[s].state = "new" /\ x.state = "starting"
         /\ x.restarting = session[s].restarting
         /\ ~server.disposed
      \/ /\ session[s].state = "open" /\ session[s].current # 0
         /\ session[s].restarting = 0
         /\ x.state = "open" /\ x.restarting = k
  BY <1>3, <1>4
<1>8. x \in Session /\ x.current = session[s].current /\ x.closing = session[s].closing
  BY <1>3
<1> QED
  BY <1>4, <1>5, <1>6, <1>7, <1>8, BeginKeeps, Zenon

LEMMA StutterKeeps ==
  ASSUME IInv, UNCHANGED vars
  PROVE  IInv'
<1>1. /\ remote' = remote /\ kernel' = kernel /\ start' = start
      /\ session' = session /\ server' = server
  BY DEF vars
<1>2. Typed'
  BY <1>1 DEF IInv, Typed
<1>3. PartsInv'
  BY <1>1, SessionsAside DEF IInv
<1>4. ServerOK'
  BY <1>1 DEF IInv, ServerOK
<1> QED
  BY <1>2, <1>3, <1>4 DEF IInv

LEMMA NextKeeps ==
  ASSUME IInv, Next
  PROVE  IInv'
<1>1. ASSUME NEW s \in Sessions,
             \/ CreateNotebook(s) \/ Restart(s) \/ CancelStart(s)
             \/ Dispose(s) \/ Shutdown(s)
      PROVE  IInv'
  BY <1>1, CreateStep, RestartStep, CancelStep, CloseSteps
<1>2. CASE Progress
  BY <1>2, PrepareSteps, IdleStep, RefusalSteps, CurrentClosedStep DEF Progress
<1>3. ASSUME NEW k \in Kernels,
             FileCreated(k) \/ KernelStarted(k) \/ RequestFails(k) \/ KernelEnds(k)
      PROVE  IInv'
  BY <1>3, PrepareSteps, StartedStep, RefusalSteps, EndsStep
<1>4. CASE DisposeServer \/ Crash \/ ServerStep
  BY <1>4, DisposeServerStep, CrashStep, ServerSteps DEF ServerStep
<1> QED
  BY <1>1, <1>2, <1>3, <1>4 DEF Next

(* The starts, the sessions and the server keep to IInv in every reachable *)
(* state, whatever the order of starts, restarts and shutdowns.            *)
THEOREM Invariant == Spec => []IInv
<1>1. Init => IInv
  BY InitHolds
<1>2. IInv /\ [Next]_vars => IInv'
  BY NextKeeps, StutterKeeps
<1> QED
  BY <1>1, <1>2, PTL DEF Spec

-----------------------------------------------------------------------------
(* The variables keep their types, what a session restarts is a start of   *)
(* its own in flight, and when dispose() of the server has come to its end *)
(* every session that was ever handed out is over, those that were still   *)
(* starting when it was called included.                                   *)
THEOREM SoundSessions == Spec => []SessionsAreSound
  BY Invariant, Sound, PTL

(* A kernel that runs belongs to a start in flight or to a session that    *)
(* was handed out, or the server was asked to end it, or it is one of the  *)
(* three that the code leaves behind; and the server is never asked to end *)
(* a kernel whose session is still to use it.                              *)
THEOREM OwnedKernels == Spec => []KernelsAreOwned
  BY Invariant, Sound, PTL
=============================================================================
