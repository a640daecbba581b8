----------------------- MODULE KernelConnections_proofs -----------------------
(***************************************************************************)
(* Proofs about KernelConnections, for every number of calls, connections  *)
(* and kernels.                                                            *)
(***************************************************************************)
EXTENDS KernelConnections, TLAPS

USE ConnectionBounds

(***************************************************************************)
(* The invariant.                                                          *)
(***************************************************************************)
Made(k) == kernel[k].life # "none"

(* The notebook is mapped to the only kernel that is not being disposed,   *)
(* and never to one that was.                                              *)
KernelOK(k) == /\ kernel[k].disposed => kernel[k].disposing
               /\ kernel[k].disposing => Made(k)
               /\ Made(k) /\ ~kernel[k].disposing => mapped = k

KernelsOK == /\ kernel \in [Kernels -> Kernel]
             /\ mapped \in 0..MaxKernels
             /\ \A k \in Kernels : KernelOK(k)
             /\ mapped # 0 => Made(mapped) /\ ~kernel[mapped].disposed

(* A connection has a kernel, and the cache holds none that failed.        *)
Used(e) == connection[e].pc # "unused"

ConnectionsOK ==
    /\ connection \in [Connections -> Connection]
    /\ \A e \in Connections :
          Used(e) => connection[e].kernel \in Kernels /\ Made(connection[e].kernel)
    /\ cached \in 0..MaxConnections
    /\ cached # 0 => connection[cached].pc \notin {"unused", "failed"}

(* A call waits for a connection that is under way and that asks the user  *)
(* if the call does.  Neither that connection nor one under way that it    *)
(* may join later has a kernel that it must not return.                    *)
CallOK(c) ==
    LET r == call[c]
    IN  /\ r.pc \in {"waiting", "again"} =>
              /\ r.on \in Connections /\ Used(r.on)
              /\ r.ui /\ cached # 0 /\ connection[cached].pc # "done" =>
                    connection[cached].kernel \notin r.gone
        /\ r.pc = "waiting" =>
              /\ connection[r.on].pc \notin {"done", "failed"}
              /\ r.ui => connection[r.on].ui /\ connection[r.on].kernel \notin r.gone
        /\ \A k \in r.gone : kernel[k].disposed
        /\ r.ui => r.kernel \notin r.gone

CallsOK == /\ call \in [Calls -> Call]
           /\ \A c \in Calls : CallOK(c)

IInv == KernelsOK /\ ConnectionsOK /\ CallsOK

LEMMA Sound ==
  ASSUME IInv
  PROVE  NotebookIsSound /\ CallsGetKernelsThatAreThere
<1>1. TypeOK
  BY DEF IInv, KernelsOK, ConnectionsOK, CallsOK, CallOK, Used, TypeOK
<1>2. OneKernelPerNotebook
  BY DEF IInv, KernelsOK, KernelOK, Made, OneKernelPerNotebook
<1>3. FailuresAreNotCached
  BY DEF IInv, ConnectionsOK, FailuresAreNotCached
<1>4. CallsGetKernelsThatAreThere
  BY DEF IInv, CallsOK, CallOK, CallsGetKernelsThatAreThere
<1> QED
  BY <1>1, <1>2, <1>3, <1>4 DEF NotebookIsSound

LEMMA InitHolds ==
  ASSUME Init
  PROVE  IInv
<1>1. KernelsOK
  BY DEF Init, KernelsOK, KernelOK, Made, Kernel, Controllers
<1>2. ConnectionsOK
  BY DEF Init, ConnectionsOK, Used, Connection, Contexts, Controllers
<1>3. CallsOK
  BY DEF Init, CallsOK, CallOK, Call
<1> QED
  BY <1>1, <1>2, <1>3 DEF IInv

-----------------------------------------------------------------------------
(* What every step does to the kernels: those made stay made, those        *)
(* disposed stay disposed.                                                 *)
KernelsGo == /\ KernelsOK'
             /\ \A k \in Kernels : /\ Made(k) => Made(k)'
                                   /\ kernel[k].disposed => kernel'[k].disposed

(* To the connections: one that is used has a kernel, and takes another    *)
(* only when that is not disposed.                                         *)
ConnectionsGo ==
    /\ connection' \in [Connections -> Connection]
    /\ \A e \in Connections :
          /\ connection'[e].pc # "unused" =>
                connection'[e].kernel \in Kernels /\ kernel'[connection'[e].kernel].life # "none"
          /\ Used(e) => /\ connection'[e].pc # "unused"
                        /\ connection[e].ui => connection'[e].ui
          /\ connection[e].pc = "done" => connection'[e].pc = "done"
          /\ \/ connection'[e].kernel = connection[e].kernel
             \/ /\ connection'[e].kernel \in Kernels
                /\ ~kernel[connection'[e].kernel].disposed
    /\ \/ cached' = 0
       \/ cached' = cached
       \/ /\ cached' \in Connections /\ connection'[cached'].kernel \in Kernels
          /\ ~kernel[connection'[cached'].kernel].disposed
    /\ cached' # 0 => connection'[cached'].pc \notin {"unused", "failed"}

(* To the calls: one that waits goes on waiting for what is under way, or  *)
(* it returns, fails after the user was asked, or connects anew.           *)
Asked(c) == connection[call[c].on].pc \in {"handling", "choosing", "prompt"}

CallEnds(c) ==
    /\ call[c].pc = "waiting" /\ call'[c].pc \in {"done", "failed", "again"}
    /\ call'[c].pc = "failed" /\ call[c].ui => Asked(c)
    /\ call'[c].ui = call[c].ui /\ call'[c].on = call[c].on /\ call'[c].gone = call[c].gone
    /\ call'[c].kernel \in {call[c].kernel, connection[call[c].on].kernel}

CallStays(c) == /\ call'[c] = call[c]
                /\ call[c].pc = "waiting" =>
                      connection'[call[c].on].pc \notin {"done", "failed"}

CallsGo ==
    /\ call' \in [Calls -> Call]
    /\ \A c \in Calls : CallStays(c) \/ CallEnds(c) \/ (call[c].pc # "waiting" /\ CallOK(c)')

ShownStep == \A c \in Calls : call[c].ui /\ call[c].pc = "waiting" /\ call'[c].pc = "failed"
                              => Asked(c)

LEMMA Goes ==
  ASSUME IInv, KernelsGo, ConnectionsGo, CallsGo
  PROVE  IInv' /\ ShownStep
<1>1. KernelsOK'
  BY DEF KernelsGo
<1>2. cached \in 0..MaxConnections /\ cached' \in 0..MaxConnections
  <2>1. cached \in 0..MaxConnections
    BY DEF IInv, ConnectionsOK
  <2>2. cached' = 0 \/ cached' = cached \/ cached' \in 1..MaxConnections
    BY DEF ConnectionsGo, Connections
  <2> QED
    BY <2>1, <2>2
<1>3. ConnectionsOK'
  BY <1>2 DEF ConnectionsGo, ConnectionsOK, Used, Made
<1>4. ASSUME NEW c \in Calls
      PROVE  CallOK(c)'
  <2>1. /\ CallOK(c) /\ call[c] \in Call
    BY DEF IInv, CallsOK
  <2>2. call[c].gone \subseteq Kernels
    BY <2>1 DEF Call
  <2>3. ASSUME call'[c].gone = call[c].gone
        PROVE  \A k \in call'[c].gone : kernel'[k].disposed
    BY <2>1, <2>2, <2>3 DEF CallOK, KernelsGo
  <2>4. ASSUME call[c].pc \in {"waiting", "again"}, call[c].ui,
               cached' # 0, connection'[cached'].pc # "done"
        PROVE  connection'[cached'].kernel \notin call[c].gone
    <3>1. ASSUME connection'[cached'].kernel \in Kernels,
                 ~kernel[connection'[cached'].kernel].disposed
          PROVE  connection'[cached'].kernel \notin call[c].gone
      BY <3>1, <2>1 DEF CallOK
    <3>2. CASE cached' = cached
      <4>1. cached \in Connections /\ connection[cached].pc # "done"
        BY <2>4, <3>2, <1>2 DEF ConnectionsGo, Connections
      <4> QED
        BY <2>1, <2>4, <3>1, <3>2, <4>1 DEF CallOK, ConnectionsGo
    <3> QED
      BY <2>4, <3>1, <3>2 DEF ConnectionsGo
  <2>5. CASE CallStays(c)
    <3>1. ASSUME call[c].pc \in {"waiting", "again"}
          PROVE  call[c].on \in Connections /\ connection'[call[c].on].pc # "unused"
      BY <3>1, <2>1 DEF CallOK, ConnectionsGo
    <3>2. ASSUME call[c].pc = "waiting", call[c].ui
          PROVE  /\ connection'[call[c].on].ui
                 /\ connection'[call[c].on].kernel \notin call[c].gone
      BY <3>2, <2>1, <3>1 DEF CallOK, ConnectionsGo
    <3>3. call'[c] = call[c]
      BY <2>5 DEF CallStays
    <3>4. call[c].pc = "waiting" => connection'[call[c].on].pc \notin {"done", "failed"}
      BY <2>5 DEF CallStays
    <3>5. call[c].ui => call[c].kernel \notin call[c].gone
      BY <2>1 DEF CallOK
    <3> QED
      BY <2>3, <2>4, <3>1, <3>2, <3>3, <3>4, <3>5 DEF CallOK, Used
  <2>6. CASE CallEnds(c)
    <3>1. call[c].on \in Connections /\ connection'[call[c].on].pc # "unused"
      BY <2>1, <2>6 DEF CallOK, ConnectionsGo, CallEnds
    <3>2. call'[c].ui => call'[c].kernel \notin call'[c].gone
      BY <2>1, <2>6 DEF CallOK, CallEnds
    <3> QED
      BY <2>3, <2>4, <2>6, <3>1, <3>2 DEF CallOK, CallEnds, Used
  <2> QED
    BY <2>5, <2>6 DEF CallsGo
<1>5. ShownStep
  BY DEF ShownStep, CallsGo, CallStays, CallEnds
<1> QED
  BY <1>1, <1>3, <1>4, <1>5 DEF IInv, CallsOK, CallsGo

-----------------------------------------------------------------------------
(* Kernels.                                                                *)
LEMMA KernelsAside ==
  ASSUME IInv, UNCHANGED <<kernel, mapped>>
  PROVE  KernelsGo
  BY DEF IInv, KernelsGo, KernelsOK, KernelOK, Made

(* One kernel goes on to x, and may leave the notebook once it is disposed.*)
LEMMA KernelMoves ==
  ASSUME IInv, NEW k \in Kernels, Made(k), NEW x \in Kernel,
         kernel' = [kernel EXCEPT ![k] = x], x.life # "none",
         kernel[k].disposed => x.disposed,
         kernel[k].disposing => x.disposing,
         x.disposed => x.disposing,
         \/ mapped' = mapped /\ ~(mapped = k /\ x.disposed)
         \/ mapped' = 0 /\ mapped = k /\ x.disposing
  PROVE  KernelsGo
<1>1. KernelsOK
  BY DEF IInv
<1>2. /\ kernel' \in [Kernels -> Kernel] /\ kernel'[k] = x
      /\ \A j \in Kernels \ {k} : kernel'[j] = kernel[j]
  BY <1>1 DEF KernelsOK
<1>3. mapped \in 0..MaxKernels /\ mapped' \in 0..MaxKernels
  BY <1>1 DEF KernelsOK
<1>4. \A j \in Kernels : KernelOK(j)'
  BY <1>1, <1>2 DEF KernelsOK, KernelOK, Made
<1>5. mapped' # 0 => Made(mapped)' /\ ~kernel'[mapped'].disposed
  <2> SUFFICES ASSUME mapped' # 0
               PROVE  kernel'[mapped'].life # "none" /\ ~kernel'[mapped'].disposed
    BY DEF Made
  <2>1. mapped' = mapped /\ mapped \in Kernels /\ Made(mapped) /\ ~kernel[mapped].disposed
    BY <1>1, <1>3 DEF KernelsOK, Kernels
  <2> QED
    BY <2>1, <1>2 DEF Made
<1> QED
  BY <1>2, <1>3, <1>4, <1>5 DEF KernelsGo, KernelsOK, Made

LEMMA DisposedIs ==
  ASSUME NEW r \in Kernel
  PROVE  /\ DisposedKernel(r) \in Kernel /\ DisposedKernel(r).life = r.life
         /\ DisposedKernel(r).disposing
         /\ r.disposed => DisposedKernel(r).disposed
<1>1. CASE r.life = "starting"
  BY <1>1 DEF DisposedKernel, Kernel
<1>2. CASE r.life # "starting"
  BY <1>2 DEF DisposedKernel, Kernel
<1> QED
  BY <1>1, <1>2

(* The notebook gets a kernel for a controller, its old or a new one.      *)
LEMMA KernelGot ==
  ASSUME IInv, NEW controller \in Controllers, NEW k \in Kernels, NEW starts \in BOOLEAN,
         GetOrCreate(controller, k), mapped' = k,
         kernel' = KernelsAfter(controller, k, starts)
  PROVE  KernelsGo /\ ~kernel[k].disposed /\ kernel'[k].life # "none"
<1>1. KernelsOK /\ kernel[k] \in Kernel
  BY DEF IInv, KernelsOK
<1>2. \/ k = mapped
      \/ ~Made(k) /\ k # mapped
  BY <1>1 DEF GetOrCreate, Made, KernelsOK
<1>3. ~kernel[k].disposed /\ ~(kernel[k].disposing /\ k # mapped)
  BY <1>1, <1>2 DEF KernelsOK, KernelOK, Kernels
<1>4. /\ kernel'[k] \in Kernel /\ kernel'[k].life # "none"
      /\ kernel'[k].disposed <=> kernel[k].disposed
      /\ kernel'[k].disposing <=> kernel[k].disposing
  <2> DEFINE r == IF kernel[k].life = "none"
                  THEN [kernel[k] EXCEPT !.life = "fresh", !.controller = controller]
                  ELSE kernel[k]
             x == IF starts /\ r.life \in {"fresh", "dead"}
                  THEN [r EXCEPT !.life = "starting"] ELSE r
  <2>1. kernel'[k] = x
    BY DEF KernelsAfter, OldKernel
  <2>2. /\ r \in Kernel /\ r.life # "none"
        /\ r.disposed <=> kernel[k].disposed
        /\ r.disposing <=> kernel[k].disposing
    BY <1>1 DEF Kernel
  <2> HIDE DEF r
  <2>3. /\ x \in Kernel /\ x.life # "none"
        /\ x.disposed <=> r.disposed
        /\ x.disposing <=> r.disposing
    BY <2>2 DEF Kernel
  <2> QED
    BY <2>1, <2>2, <2>3
<1>5. \A j \in Kernels \ {k} :
        kernel'[j] = IF j = mapped THEN DisposedKernel(kernel[j]) ELSE kernel[j]
  BY DEF KernelsAfter, OldKernel, Kernels
<1>6. \A j \in Kernels \ {k} :
        /\ kernel'[j] \in Kernel /\ kernel'[j].life = kernel[j].life
        /\ kernel[j].disposed => kernel'[j].disposed
        /\ kernel'[j].disposed => kernel'[j].disposing
        /\ kernel'[j].disposing => Made(j)
        /\ j = mapped => kernel'[j].disposing
        /\ kernel[j].disposing => kernel'[j].disposing
  <2> SUFFICES ASSUME NEW j \in Kernels \ {k}
               PROVE  /\ kernel'[j] \in Kernel /\ kernel'[j].life = kernel[j].life
                      /\ kernel[j].disposed => kernel'[j].disposed
                      /\ kernel'[j].disposed => kernel'[j].disposing
                      /\ kernel'[j].disposing => Made(j)
                      /\ j = mapped => kernel'[j].disposing
                      /\ kernel[j].disposing => kernel'[j].disposing
    OBVIOUS
  <2>1. kernel[j] \in Kernel /\ KernelOK(j) /\ (j = mapped => Made(j))
    BY <1>1 DEF KernelsOK, Kernels
  <2> QED
    BY <2>1, <1>5, DisposedIs DEF KernelOK
<1>7. kernel' \in [Kernels -> Kernel]
  BY <1>4, <1>6 DEF KernelsAfter
<1>8. \A j \in Kernels : KernelOK(j)'
  <2>1. KernelOK(k)'
    BY <1>1, <1>4 DEF KernelsOK, KernelOK, Made
  <2>2. ASSUME NEW j \in Kernels \ {k}
        PROVE  KernelOK(j)'
    <3>1. KernelOK(j)
      BY <2>2, <1>1 DEF KernelsOK
    <3> QED
      BY <2>2, <3>1, <1>6 DEF KernelOK, Made
  <2> QED
    BY <2>1, <2>2
<1>9. \A j \in Kernels : /\ Made(j) => Made(j)'
                         /\ kernel[j].disposed => kernel'[j].disposed
  BY <1>4, <1>6 DEF Made
<1>10. Made(mapped)' /\ ~kernel'[mapped'].disposed /\ mapped' \in 0..MaxKernels
  BY <1>3, <1>4 DEF Made, Kernels
<1> QED
  BY <1>3, <1>4, <1>7, <1>8, <1>9, <1>10 DEF KernelsGo, KernelsOK

-----------------------------------------------------------------------------
(* Connections that resolve or throw.                                      *)
UnderWay(e) == connection[e].pc \notin {"unused", "done", "failed"}

LEMMA ForgottenIs ==
  ASSUME NEW D
  PROVE  ForgottenWith(D) \in {0, cached}
  BY DEF ForgottenWith

LEMMA ResolvedKeeps ==
  ASSUME IInv, KernelsGo, NEW E \in SUBSET Connections, NEW k \in Kernels,
         NEW d \in {"notAsked", "restarted", "notRestarted"}, NEW with,
         \A e \in E : UnderWay(e) /\ connection[e].kernel = k,
         d = "notRestarted" => \A e \in E : connection[e].pc = "prompt",
         Resolved(E, k, d, with)
  PROVE  IInv' /\ ShownStep
<1> DEFINE done(e) == [connection[e] EXCEPT !.pc = "done", !.deadKernel = d]
           dead == kernel'[k].life = "dead"
<1>1. /\ connection' = [e \in Connections |-> IF e \in E THEN done(e) ELSE connection[e]]
      /\ call' = [c \in Calls |->
              IF call[c].pc = "waiting" /\ call[c].on \in E
              THEN Verified(call[c], done(call[c].on), k, dead) ELSE call[c]]
      /\ cached' \in {0, cached}
  BY ForgottenIs DEF Resolved
<1>2. ConnectionsOK /\ CallsOK /\ cached \in {0} \cup Connections
  BY DEF IInv, ConnectionsOK, Connections
<1>3. /\ \A e \in E : /\ connection'[e] \in Connection /\ connection'[e].pc = "done"
                      /\ connection'[e].kernel = k
                      /\ connection'[e].ui <=> connection[e].ui
                      /\ done(e).deadKernel = d
      /\ \A e \in Connections \ E : connection'[e] = connection[e]
      /\ connection' \in [Connections -> Connection]
  <2>1. ASSUME NEW e \in E
        PROVE  /\ connection'[e] = done(e) /\ done(e) \in Connection /\ done(e).pc = "done"
               /\ done(e).kernel = k /\ (done(e).ui <=> connection[e].ui)
               /\ done(e).deadKernel = d
    <3>1. e \in Connections /\ connection[e] \in Connection /\ connection[e].kernel = k
      BY <2>1, <1>2 DEF ConnectionsOK
    <3> QED
      BY <3>1, <2>1, <1>1 DEF Connection
  <2>2. \A e \in Connections \ E : connection'[e] = connection[e]
    BY <1>1
  <2>3. connection' \in [Connections -> Connection]
    BY <1>1, <1>2, <2>1, <2>2 DEF ConnectionsOK
  <2> QED
    BY <2>1, <2>2, <2>3
<1>4. ConnectionsGo
  <2>1. \A e \in Connections :
          /\ connection'[e].pc # "unused" =>
                connection'[e].kernel \in Kernels /\ kernel'[connection'[e].kernel].life # "none"
          /\ Used(e) => connection'[e].pc # "unused" /\ (connection[e].ui => connection'[e].ui)
          /\ connection[e].pc = "done" => connection'[e].pc = "done"
          /\ connection'[e].kernel = connection[e].kernel
    BY <1>2, <1>3 DEF ConnectionsOK, KernelsGo, Used, Made, UnderWay
  <2>2. cached' # 0 => connection'[cached'].pc \notin {"unused", "failed"}
    <3> SUFFICES ASSUME cached' # 0
                 PROVE  connection'[cached].pc \notin {"unused", "failed"}
      BY <1>1
    <3>1. cached \in Connections /\ connection[cached].pc \notin {"unused", "failed"}
      BY <1>1, <1>2 DEF ConnectionsOK
    <3> QED
      BY <3>1, <1>3
  <2> QED
    BY <2>1, <2>2, <1>1, <1>3 DEF ConnectionsGo
<1>5. CallsGo
  <2>1. ASSUME NEW c \in Calls, ~(call[c].pc = "waiting" /\ call[c].on \in E)
        PROVE  CallStays(c) /\ call'[c] \in Call
    <3>1. call'[c] = call[c] /\ call[c] \in Call
      BY <2>1, <1>1, <1>2 DEF CallsOK
    <3>2. call[c].pc = "waiting" => /\ call[c].on \in Connections \ E
                                    /\ connection[call[c].on].pc \notin {"done", "failed"}
      BY <2>1, <1>2 DEF CallsOK, CallOK
    <3> QED
      BY <3>1, <3>2, <1>3 DEF CallStays
  <2>2. ASSUME NEW c \in Calls, call[c].pc = "waiting", call[c].on \in E
        PROVE  CallEnds(c) /\ call'[c] \in Call
    <3>1. call'[c] = Verified(call[c], done(call[c].on), k, dead) /\ call[c] \in Call
      BY <2>2, <1>1, <1>2 DEF CallsOK
    <3> HIDE DEF done, dead
    <3>2. /\ call'[c] \in Call /\ call'[c].pc \in {"done", "failed", "again"}
          /\ call'[c].ui = call[c].ui /\ call'[c].on = call[c].on
          /\ call'[c].gone = call[c].gone /\ call'[c].kernel \in {call[c].kernel, k}
          /\ call'[c].pc = "failed" => done(call[c].on).deadKernel = "notRestarted"
      <4>1. \/ call'[c] = [call[c] EXCEPT !.pc = "done", !.kernel = k]
            \/ /\ call'[c] = [call[c] EXCEPT !.pc = "failed"]
               /\ done(call[c].on).deadKernel = "notRestarted"
            \/ call'[c] = [call[c] EXCEPT !.pc = "again"]
        BY <3>1 DEF Verified
      <4>2. k \in 0..MaxKernels
        BY DEF Kernels
      <4>3. CASE call'[c] = [call[c] EXCEPT !.pc = "done", !.kernel = k]
        BY <3>1, <4>2, <4>3 DEF Call
      <4>4. CASE /\ call'[c] = [call[c] EXCEPT !.pc = "failed"]
                 /\ done(call[c].on).deadKernel = "notRestarted"
        BY <3>1, <4>4 DEF Call
      <4>5. CASE call'[c] = [call[c] EXCEPT !.pc = "again"]
        BY <3>1, <4>5 DEF Call
      <4> QED
        BY <4>1, <4>3, <4>4, <4>5
    <3>3. connection[call[c].on].kernel = k
      BY <2>2
    <3>4. call'[c].pc = "failed" => Asked(c)
      BY <2>2, <3>2, <1>3 DEF Asked
    <3> QED
      BY <2>2, <3>2, <3>3, <3>4 DEF CallEnds
  <2>3. call' \in [Calls -> Call]
    BY <2>1, <2>2, <1>1
  <2> QED
    BY <2>1, <2>2, <2>3 DEF CallsGo
<1> QED
  BY <1>4, <1>5, Goes

(* Connections go on, and those in F fail, with the calls that wait for    *)
(* them.                                                                   *)
LEMMA FailsKeep ==
  ASSUME IInv, KernelsGo, NEW F \in SUBSET Connections,
         connection' \in [Connections -> Connection],
         \A e \in Connections :
            /\ connection'[e].kernel = connection[e].kernel
            /\ connection'[e].ui <=> connection[e].ui
            /\ UnderWay(e) => /\ connection'[e].pc \notin {"unused", "done"}
                              /\ connection'[e].pc = "failed" <=> e \in F
            /\ ~UnderWay(e) => connection'[e].pc = connection[e].pc,
         \A e \in F : /\ UnderWay(e)
                      /\ ~connection[e].ui \/ connection[e].pc \in {"handling", "choosing", "prompt"},
         call' = CallsFail(F), cached' \in {0, cached}, cached' \notin F
  PROVE  IInv' /\ ShownStep
<1>1. ConnectionsOK /\ CallsOK /\ cached \in {0} \cup Connections
  BY DEF IInv, ConnectionsOK, Connections
<1>2. ConnectionsGo
  <2>1. ASSUME NEW e \in Connections
        PROVE  /\ connection'[e].pc # "unused" =>
                     /\ connection'[e].kernel \in Kernels
                     /\ kernel'[connection'[e].kernel].life # "none"
               /\ Used(e) => connection'[e].pc # "unused" /\ (connection[e].ui => connection'[e].ui)
               /\ connection[e].pc = "done" => connection'[e].pc = "done"
    <3>1. connection'[e].pc # "unused" <=> Used(e)
      BY <2>1 DEF UnderWay, Used
    <3>2. Used(e) => connection[e].kernel \in Kernels /\ Made(connection[e].kernel)
      BY <1>1 DEF ConnectionsOK
    <3> QED
      BY <2>1, <3>1, <3>2 DEF KernelsGo, Made, UnderWay
  <2>2. cached' # 0 => connection'[cached'].pc \notin {"unused", "failed"}
    <3> SUFFICES ASSUME cached' # 0
                 PROVE  connection'[cached].pc \notin {"unused", "failed"}
      OBVIOUS
    <3>1. cached \in Connections \ F /\ connection[cached].pc \notin {"unused", "failed"}
      BY <1>1 DEF ConnectionsOK
    <3> QED
      BY <3>1 DEF UnderWay
  <2> QED
    BY <2>1, <2>2 DEF ConnectionsGo
<1>3. CallsGo
  <2>1. ASSUME NEW c \in Calls, ~(call[c].pc = "waiting" /\ call[c].on \in F)
        PROVE  CallStays(c) /\ call'[c] \in Call
    <3>1. call'[c] = call[c] /\ call[c] \in Call
      BY <2>1, <1>1 DEF CallsOK, CallsFail
    <3>2. call[c].pc = "waiting" => /\ call[c].on \in Connections \ F
                                    /\ UnderWay(call[c].on)
      BY <2>1, <1>1 DEF CallsOK, CallOK, UnderWay, Used
    <3> QED
      BY <3>1, <3>2 DEF CallStays
  <2>2. ASSUME NEW c \in Calls, call[c].pc = "waiting", call[c].on \in F
        PROVE  CallEnds(c) /\ call'[c] \in Call
    <3>1. call'[c] = [call[c] EXCEPT !.pc = "failed"] /\ call[c] \in Call
      BY <2>2, <1>1 DEF CallsOK, CallsFail
    <3>2. call[c].ui => connection[call[c].on].ui
      BY <2>2, <1>1 DEF CallsOK, CallOK
    <3>3. call[c].ui => Asked(c)
      BY <2>2, <3>2 DEF Asked
    <3>4. /\ call'[c] \in Call /\ call'[c].pc = "failed"
          /\ call'[c].ui = call[c].ui /\ call'[c].on = call[c].on
          /\ call'[c].gone = call[c].gone /\ call'[c].kernel = call[c].kernel
      BY <3>1 DEF Call
    <3> QED
      BY <2>2, <3>3, <3>4 DEF CallEnds
  <2>3. call' \in [Calls -> Call]
    BY <2>1, <2>2 DEF CallsFail
  <2> QED
    BY <2>1, <2>2, <2>3 DEF CallsGo
<1> QED
  BY <1>2, <1>3, Goes

LEMMA NothingFails ==
  ASSUME IInv
  PROVE  CallsFail({}) = call
  BY DEF IInv, CallsOK, CallsFail

(* Only the kernels change, and the cache may be emptied.                  *)
LEMMA KernelsOnly ==
  ASSUME IInv, KernelsGo, connection' = connection, call' = call, cached' \in {0, cached}
  PROVE  IInv' /\ ShownStep
<1>1. connection' \in [Connections -> Connection]
  BY DEF IInv, ConnectionsOK
<1>2. \A e \in Connections : UnderWay(e) => connection[e].pc \notin {"unused", "done", "failed"}
  BY DEF UnderWay
<1>3. call' = CallsFail({})
  BY NothingFails
<1> QED
  BY <1>1, <1>2, <1>3, FailsKeep

(* One connection goes on to x.                                            *)
LEMMA ConnectionMoves ==
  ASSUME IInv, KernelsGo, NEW e \in Connections, UnderWay(e), NEW x \in Connection,
         connection' = [connection EXCEPT ![e] = x],
         x.kernel = connection[e].kernel, x.ui <=> connection[e].ui,
         x.pc \notin {"unused", "done"}, cached' \in {0, cached},
         \/ x.pc # "failed" /\ call' = call
         \/ /\ x.pc = "failed" /\ call' = CallsFail({e}) /\ cached' # e
            /\ connection[e].pc \in {"handling", "choosing", "prompt"}
  PROVE  IInv' /\ ShownStep
<1>1. PICK F \in SUBSET Connections : F = IF x.pc = "failed" THEN {e} ELSE {}
  OBVIOUS
<1>2. /\ connection' \in [Connections -> Connection] /\ connection'[e] = x
      /\ \A d \in Connections \ {e} : connection'[d] = connection[d]
  BY DEF IInv, ConnectionsOK
<1>3. \A d \in Connections :
         /\ connection'[d].kernel = connection[d].kernel
         /\ connection'[d].ui <=> connection[d].ui
         /\ UnderWay(d) => /\ connection'[d].pc \notin {"unused", "done"}
                           /\ connection'[d].pc = "failed" <=> d \in F
         /\ ~UnderWay(d) => connection'[d].pc = connection[d].pc
  BY <1>1, <1>2 DEF UnderWay
<1>4. /\ \A d \in F : /\ UnderWay(d)
                      /\ ~connection[d].ui \/ connection[d].pc \in {"handling", "choosing", "prompt"}
      /\ call' = CallsFail(F) /\ cached' \notin F
  BY <1>1, NothingFails
<1> QED
  BY <1>2, <1>3, <1>4, FailsKeep

LEMMA ThrewKeeps ==
  ASSUME IInv, KernelsGo, NEW E \in SUBSET Connections, \A e \in E : UnderWay(e), Threw(E)
  PROVE  IInv' /\ ShownStep
<1> DEFINE F == {e \in E : ~connection[e].ui}
<1>1. /\ connection' = [e \in Connections |->
              IF e \in F THEN [connection[e] EXCEPT !.pc = "failed"]
              ELSE IF e \in E THEN [connection[e] EXCEPT !.pc = "handling"]
              ELSE connection[e]]
      /\ call' = CallsFail(F) /\ cached' \in {0, cached} /\ cached' \notin F
  <2>1. 0 \notin Connections
    BY DEF Connections
  <2> QED
    BY <2>1 DEF Threw, Failed
<1>2. \A e \in Connections : connection[e] \in Connection
  BY DEF IInv, ConnectionsOK
<1>3. \A e \in Connections :
         /\ connection'[e] \in Connection
         /\ connection'[e].kernel = connection[e].kernel
         /\ connection'[e].ui <=> connection[e].ui
         /\ e \in F => connection'[e].pc = "failed"
         /\ e \in E \ F => connection'[e].pc = "handling"
         /\ e \notin E => connection'[e].pc = connection[e].pc
  BY <1>1, <1>2 DEF Connection
<1>4. connection' \in [Connections -> Connection]
  BY <1>1, <1>3
<1>5. \A e \in Connections :
         /\ UnderWay(e) => /\ connection'[e].pc \notin {"unused", "done"}
                           /\ connection'[e].pc = "failed" <=> e \in F
         /\ ~UnderWay(e) => connection'[e].pc = connection[e].pc
  BY <1>3 DEF UnderWay
<1>6. F \in SUBSET Connections /\ \A e \in F : UnderWay(e) /\ ~connection[e].ui
  OBVIOUS
<1> HIDE DEF F
<1> QED
  BY <1>1, <1>3, <1>4, <1>5, <1>6, FailsKeep

-----------------------------------------------------------------------------
(* Steps of the kernels.                                                   *)
LEMMA KernelIs ==
  ASSUME IInv, NEW k \in Kernels
  PROVE  /\ kernel[k] \in Kernel /\ KernelOK(k)
         /\ mapped = k => Made(k) /\ ~kernel[k].disposed
  BY DEF IInv, KernelsOK, Kernels

LEMMA ConnectionIs ==
  ASSUME IInv, NEW e \in Connections, UnderWay(e)
  PROVE  /\ connection[e] \in Connection /\ connection[e].kernel \in Kernels
         /\ Made(connection[e].kernel)
  BY DEF IInv, ConnectionsOK, Used, UnderWay

LEMMA StartReturnsStep ==
  ASSUME IInv, NEW k \in Kernels, StartReturns(k)
  PROVE  IInv' /\ ShownStep
<1> DEFINE x == [kernel[k] EXCEPT !.life = "live", !.disposed = kernel[k].disposing]
<1>1. /\ kernel[k].life = "starting" /\ kernel' = [kernel EXCEPT ![k] = x]
      /\ mapped' = IF kernel[k].disposing /\ mapped = k THEN 0 ELSE mapped
      /\ Resolved(Starting(k), k, "notAsked", IF kernel[k].disposing THEN {k} ELSE {})
  BY DEF StartReturns
<1>2. /\ x \in Kernel /\ x.life = "live"
      /\ x.disposed <=> kernel[k].disposing
      /\ x.disposing <=> kernel[k].disposing
  BY KernelIs DEF Kernel
<1> HIDE DEF x
<1>3. KernelsGo
  BY <1>1, <1>2, KernelIs, KernelMoves DEF KernelOK, Made
<1>4. /\ Starting(k) \in SUBSET Connections
      /\ \A e \in Starting(k) : UnderWay(e) /\ connection[e].kernel = k
  BY DEF Starting, UnderWay
<1>5. PICK d \in {"notAsked", "restarted", "notRestarted"} : d = "notAsked"
  OBVIOUS
<1> QED
  BY <1>1, <1>3, <1>4, <1>5, ResolvedKeeps

LEMMA StartThrowsStep ==
  ASSUME IInv, NEW k \in Kernels, StartThrows(k)
  PROVE  IInv' /\ ShownStep
<1> DEFINE x == [kernel[k] EXCEPT !.life = "fresh"]
<1>1. /\ kernel[k].life = "starting" /\ kernel' = [kernel EXCEPT ![k] = x]
      /\ mapped' = mapped /\ Threw(Starting(k))
  BY DEF StartThrows
<1>2. /\ x \in Kernel /\ x.life = "fresh"
      /\ x.disposed <=> kernel[k].disposed
      /\ x.disposing <=> kernel[k].disposing
  BY KernelIs DEF Kernel
<1> HIDE DEF x
<1>3. KernelsGo
  BY <1>1, <1>2, KernelIs, KernelMoves DEF KernelOK, Made
<1>4. /\ Starting(k) \in SUBSET Connections
      /\ \A e \in Starting(k) : UnderWay(e)
  BY DEF Starting, UnderWay
<1> QED
  BY <1>1, <1>3, <1>4, ThrewKeeps

(* A kernel that was made changes its life only.                           *)
LEMMA LifeGoesOn ==
  ASSUME IInv, NEW k \in Kernels, Made(k), NEW life \in {"fresh", "starting", "live", "dead"},
         kernel' = [kernel EXCEPT ![k].life = life], mapped' = mapped
  PROVE  KernelsGo
<1> DEFINE x == [kernel[k] EXCEPT !.life = life]
<1>1. kernel' = [kernel EXCEPT ![k] = x]
  OBVIOUS
<1>2. /\ x \in Kernel /\ x.life # "none"
      /\ x.disposed <=> kernel[k].disposed
      /\ x.disposing <=> kernel[k].disposing
  BY KernelIs DEF Kernel
<1> HIDE DEF x
<1> QED
  BY <1>1, <1>2, KernelIs, KernelMoves DEF KernelOK

LEMMA DiesStep ==
  ASSUME IInv, NEW k \in Kernels, Dies(k)
  PROVE  IInv' /\ ShownStep
<1>1. /\ Made(k) /\ mapped' = mapped /\ connection' = connection /\ call' = call
      /\ cached' = cached /\ kernel' = [kernel EXCEPT ![k].life = "dead"]
  BY DEF Dies, Made
<1>2. KernelsGo
  BY <1>1, LifeGoesOn
<1> QED
  BY <1>1, <1>2, KernelsOnly

-----------------------------------------------------------------------------
(* Steps of the loop of a connection.                                      *)
LEMMA MoveKeeps ==
  ASSUME IInv, NEW e \in Connections, UnderWay(e),
         NEW pc \in {"method", "prompt", "restart", "lastPrompt", "lastRestart"},
         Move(e, pc)
  PROVE  IInv' /\ ShownStep
<1> DEFINE x == [connection[e] EXCEPT !.pc = pc]
<1>1. /\ connection' = [connection EXCEPT ![e] = x] /\ call' = call /\ cached' = cached
      /\ UNCHANGED <<kernel, mapped>>
  BY DEF Move
<1>2. /\ x \in Connection /\ x.pc = pc /\ x.kernel = connection[e].kernel
      /\ x.ui <=> connection[e].ui
  BY ConnectionIs DEF Connection
<1> HIDE DEF x
<1>3. KernelsGo
  BY <1>1, KernelsAside
<1> QED
  BY <1>1, <1>2, <1>3, ConnectionMoves

LEMMA ResolvesAlone ==
  ASSUME IInv, KernelsGo, NEW e \in Connections, UnderWay(e),
         NEW d \in {"notAsked", "restarted", "notRestarted"},
         d = "notRestarted" => connection[e].pc = "prompt",
         Resolved({e}, connection[e].kernel, d, {})
  PROVE  IInv' /\ ShownStep
<1>1. PICK k \in Kernels : k = connection[e].kernel
  BY ConnectionIs
<1>2. PICK E \in SUBSET Connections : E = {e}
  OBVIOUS
<1>3. Resolved(E, k, d, {})
  BY <1>1, <1>2
<1> QED
  BY <1>1, <1>2, <1>3, ResolvedKeeps

LEMMA MethodReturnsStep ==
  ASSUME IInv, NEW e \in Connections, MethodReturns(e)
  PROVE  IInv' /\ ShownStep
<1>1. UnderWay(e)
  BY DEF MethodReturns, At, UnderWay
<1>2. PICK k \in Kernels : k = connection[e].kernel /\ Made(k)
  BY <1>1, ConnectionIs
<1> DEFINE life == IF connection[e].method = "restart" /\ ~kernel[k].disposed THEN "live"
                   ELSE kernel[k].life
<1>3. life \in {"fresh", "starting", "live", "dead"}
  BY <1>2, KernelIs DEF Kernel, Made
<1>4. \/ Move(e, "lastPrompt")
      \/ /\ kernel' = [kernel EXCEPT ![k].life = life] /\ mapped' = mapped
         /\ Resolved({e}, connection[e].kernel, "notAsked", {})
  BY <1>2 DEF MethodReturns
<1> HIDE DEF life
<1>5. CASE Move(e, "lastPrompt")
  BY <1>1, <1>5, MoveKeeps
<1>6. CASE /\ kernel' = [kernel EXCEPT ![k].life = life] /\ mapped' = mapped
           /\ Resolved({e}, connection[e].kernel, "notAsked", {})
  <2>1. KernelsGo
    BY <1>2, <1>3, <1>6, LifeGoesOn
  <2> QED
    BY <1>1, <1>6, <2>1, ResolvesAlone
<1> QED
  BY <1>4, <1>5, <1>6

LEMMA MethodThrowsStep ==
  ASSUME IInv, NEW e \in Connections, MethodThrows(e)
  PROVE  IInv' /\ ShownStep
<1>1. UnderWay(e)
  BY DEF MethodThrows, At, UnderWay
<1>2. PICK k \in Kernels : k = connection[e].kernel /\ Made(k)
  BY <1>1, ConnectionIs
<1>3. /\ kernel' = kernel \/ kernel' = [kernel EXCEPT ![k].life = "dead"]
      /\ mapped' = mapped /\ Threw({e})
  BY <1>2 DEF MethodThrows
<1>4. KernelsGo
  BY <1>2, <1>3, LifeGoesOn, KernelsAside
<1>5. PICK E \in SUBSET Connections : E = {e}
  OBVIOUS
<1> QED
  BY <1>1, <1>3, <1>4, <1>5, ThrewKeeps

LEMMA RestartSteps ==
  ASSUME IInv, NEW e \in Connections,
         \/ RestartChosen(e) \/ RestartDeclined(e)
         \/ RestartReturns(e) \/ RestartThrows(e)
  PROVE  IInv' /\ ShownStep
<1>1. UnderWay(e)
  BY DEF RestartChosen, RestartDeclined, RestartReturns, RestartThrows, At, UnderWay
<1>2. PICK k \in Kernels : k = connection[e].kernel /\ Made(k)
  BY <1>1, ConnectionIs
<1>3. CASE RestartChosen(e)
  BY <1>1, <1>3, MoveKeeps DEF RestartChosen
<1>4. CASE RestartDeclined(e)
  <2>1. KernelsGo
    BY <1>4, KernelsAside DEF RestartDeclined
  <2>2. PICK d \in {"notAsked", "restarted", "notRestarted"} :
           d = IF At(e, "prompt") THEN "notRestarted" ELSE "notAsked"
    OBVIOUS
  <2>3. Resolved({e}, connection[e].kernel, d, {})
    BY <1>4, <2>2 DEF RestartDeclined
  <2> QED
    BY <1>1, <2>1, <2>2, <2>3, ResolvesAlone DEF At
<1>5. CASE RestartReturns(e)
  <2>1. KernelsGo
    BY <1>2, <1>5, LifeGoesOn, KernelsAside DEF RestartReturns
  <2>2. PICK d \in {"notAsked", "restarted", "notRestarted"} :
           d = IF At(e, "restart") THEN "restarted" ELSE "notAsked"
    OBVIOUS
  <2>3. Resolved({e}, connection[e].kernel, d, {})
    BY <1>5, <2>2 DEF RestartReturns
  <2> QED
    BY <1>1, <2>1, <2>2, <2>3, ResolvesAlone
<1>6. CASE RestartThrows(e)
  <2>1. KernelsGo
    BY <1>6, KernelsAside DEF RestartThrows
  <2>2. PICK E \in SUBSET Connections : E = {e}
    OBVIOUS
  <2> QED
    BY <1>1, <1>6, <2>1, <2>2, ThrewKeeps DEF RestartThrows
<1> QED
  BY <1>3, <1>4, <1>5, <1>6

LEMMA HandledStep ==
  ASSUME IInv, NEW e \in Connections, NEW next \in {"failed", "choosing", "retry"},
         Handled(e, next)
  PROVE  IInv' /\ ShownStep
<1>1. UnderWay(e) /\ connection[e].pc = "handling"
  BY DEF Handled, At, UnderWay
<1>2. PICK k \in Kernels : k = connection[e].kernel /\ Made(k)
  BY <1>1, ConnectionIs
<1> DEFINE x == DisposedKernel(kernel[k])
           y == [connection[e] EXCEPT !.pc = next, !.method = "start"]
           left == IF kernel'[k].disposed THEN ForgottenWith({k}) ELSE cached
<1>3. /\ kernel' = [kernel EXCEPT ![k] = x]
      /\ mapped' = IF kernel'[k].disposed /\ mapped = k THEN 0 ELSE mapped
      /\ connection' = [connection EXCEPT ![e] = y]
      /\ IF next = "failed"
         THEN call' = CallsFail({e}) /\ cached' = IF left = e THEN 0 ELSE left
         ELSE cached' = left /\ call' = call
  BY <1>2 DEF Handled
<1>4. kernel'[k] = x /\ left \in {0, cached} /\ 0 \notin Connections
  BY <1>3, ForgottenIs DEF IInv, KernelsOK, Connections
<1>5. /\ x \in Kernel /\ x.life = kernel[k].life /\ x.disposing
      /\ kernel[k].disposed => x.disposed
  BY KernelIs, DisposedIs
<1>6. /\ y \in Connection /\ y.pc = next /\ y.kernel = connection[e].kernel
      /\ y.ui <=> connection[e].ui
  BY <1>1, ConnectionIs DEF Connection, Contexts
<1> HIDE DEF x, y, left
<1>7. KernelsGo
  BY <1>2, <1>3, <1>4, <1>5, KernelMoves DEF Made
<1> QED
  BY <1>1, <1>3, <1>4, <1>6, <1>7, ConnectionMoves

LEMMA ChoiceSteps ==
  ASSUME IInv, NEW e \in Connections,
         NoneChosen(e) \/ \E controller \in Controllers : ControllerChosen(e, controller)
  PROVE  IInv' /\ ShownStep
<1>1. UnderWay(e) /\ connection[e].pc = "choosing" /\ UNCHANGED <<kernel, mapped>>
  BY DEF NoneChosen, ControllerChosen, At, UnderWay
<1>2. KernelsGo
  BY <1>1, KernelsAside
<1>3. ASSUME NEW controller \in Controllers, ControllerChosen(e, controller)
      PROVE  IInv' /\ ShownStep
  <2> DEFINE y == [connection[e] EXCEPT !.controller = controller, !.pc = "retry"]
  <2>1. connection' = [connection EXCEPT ![e] = y] /\ call' = call /\ cached' = cached
    BY <1>3 DEF ControllerChosen
  <2>2. /\ y \in Connection /\ y.pc = "retry" /\ y.kernel = connection[e].kernel
        /\ y.ui <=> connection[e].ui
    BY <1>1, <1>3, ConnectionIs DEF Connection
  <2> HIDE DEF y
  <2> QED
    BY <1>1, <1>2, <2>1, <2>2, ConnectionMoves
<1>4. CASE NoneChosen(e)
  <2> DEFINE y == [connection[e] EXCEPT !.pc = "failed"]
  <2>1. /\ connection' = [connection EXCEPT ![e] = y] /\ call' = CallsFail({e})
        /\ cached' \in {0, cached} /\ cached' # e
    BY <1>4 DEF NoneChosen, Failed, Connections
  <2>2. /\ y \in Connection /\ y.pc = "failed" /\ y.kernel = connection[e].kernel
        /\ y.ui <=> connection[e].ui
    BY <1>1, ConnectionIs DEF Connection
  <2> HIDE DEF y
  <2> QED
    BY <1>1, <1>2, <2>1, <2>2, ConnectionMoves
<1> QED
  BY <1>3, <1>4

LEMMA RetryStep ==
  ASSUME IInv, NEW e \in Connections, Retry(e)
  PROVE  IInv' /\ ShownStep
<1>1. UnderWay(e) /\ connection[e].pc = "retry"
  BY DEF Retry, At, UnderWay
<1>2. /\ connection[e] \in Connection /\ connection[e].controller \in Controllers
      /\ ConnectionsOK /\ CallsOK
  BY <1>1, ConnectionIs DEF Connection, IInv
<1>3. PICK k \in Kernels, starts \in BOOLEAN, pc \in {"prompt", "method"} :
        /\ GetOrCreate(connection[e].controller, k)
        /\ kernel' = KernelsAfter(connection[e].controller, k, starts)
        /\ mapped' = k
        /\ connection' = [connection EXCEPT ![e] =
              [connection[e] EXCEPT !.kernel = k, !.pc = pc]]
  BY DEF Retry, Turn
<1> DEFINE y == [connection[e] EXCEPT !.kernel = k, !.pc = pc]
<1>4. /\ connection' = [connection EXCEPT ![e] = y]
      /\ call' = call /\ cached' \in {0, cached}
  BY <1>3, ForgottenIs DEF Retry
<1>5. KernelsGo /\ ~kernel[k].disposed /\ kernel'[k].life # "none"
  BY <1>2, <1>3, KernelGot
<1>6. /\ y \in Connection /\ y.pc = pc /\ y.kernel = k /\ (y.ui <=> connection[e].ui)
  <2>1. k \in 0..MaxKernels
    BY DEF Kernels
  <2> QED
    BY <1>2, <1>3, <2>1 DEF Connection
<1> HIDE DEF y
<1>7. /\ connection' \in [Connections -> Connection] /\ connection'[e] = y
      /\ \A d \in Connections \ {e} : connection'[d] = connection[d]
  BY <1>2, <1>4, <1>6 DEF ConnectionsOK
<1>8. ConnectionsGo
  <2>1. ASSUME NEW d \in Connections
        PROVE  /\ connection'[d].pc # "unused" =>
                     /\ connection'[d].kernel \in Kernels
                     /\ kernel'[connection'[d].kernel].life # "none"
               /\ Used(d) => connection'[d].pc # "unused" /\ (connection[d].ui => connection'[d].ui)
               /\ connection[d].pc = "done" => connection'[d].pc = "done"
               /\ \/ connection'[d].kernel = connection[d].kernel
                  \/ /\ connection'[d].kernel \in Kernels
                     /\ ~kernel[connection'[d].kernel].disposed
    <3>1. CASE d = e
      BY <3>1, <1>1, <1>3, <1>5, <1>6, <1>7
    <3>2. CASE d # e
      BY <2>1, <3>2, <1>2, <1>5, <1>7 DEF ConnectionsOK, KernelsGo, Used, Made
    <3> QED
      BY <3>1, <3>2
  <2>2. cached' # 0 => connection'[cached'].pc \notin {"unused", "failed"}
    <3>1. cached \in {0} \cup Connections
      BY <1>2 DEF ConnectionsOK, Connections
    <3> QED
      BY <3>1, <1>2, <1>3, <1>4, <1>6, <1>7 DEF ConnectionsOK
  <2> QED
    BY <2>1, <2>2, <1>4, <1>7 DEF ConnectionsGo
<1>9. CallsGo
  <2>1. \A c \in Calls : CallStays(c)
    BY <1>2, <1>3, <1>4, <1>6, <1>7 DEF CallStays, CallsOK, CallOK
  <2> QED
    BY <2>1, <1>2, <1>4 DEF CallsGo, CallsOK
<1> QED
  BY <1>5, <1>8, <1>9, Goes

LEMMA ControllerSelectedStep ==
  ASSUME IInv, NEW controller \in Controllers, ControllerSelected(controller)
  PROVE  IInv' /\ ShownStep
<1>1. PICK k \in Kernels :
        /\ GetOrCreate(controller, k)
        /\ kernel' = KernelsAfter(controller, k, FALSE) /\ mapped' = k
  BY DEF ControllerSelected
<1>2. PICK starts \in BOOLEAN : starts = FALSE
  OBVIOUS
<1>3. kernel' = KernelsAfter(controller, k, starts)
  BY <1>1, <1>2
<1>4. KernelsGo
  BY <1>1, <1>3, KernelGot
<1>5. connection' = connection /\ call' = call /\ cached' \in {0, cached}
  BY ForgottenIs DEF ControllerSelected
<1> QED
  BY <1>4, <1>5, KernelsOnly

-----------------------------------------------------------------------------
(* Calls.                                                                  *)
ShownIs(ui) ==
    /\ Shown(ui) \in [Connections -> Connection]
    /\ \A e \in Connections :
          /\ Shown(ui)[e].pc = connection[e].pc /\ Shown(ui)[e].kernel = connection[e].kernel
          /\ connection[e].ui => Shown(ui)[e].ui
    /\ ui /\ cached # 0 => Shown(ui)[cached].ui

LEMMA ShownKeeps ==
  ASSUME IInv, NEW ui \in BOOLEAN
  PROVE  ShownIs(ui)
<1>1. connection \in [Connections -> Connection] /\ cached \in {0} \cup Connections
  BY DEF IInv, ConnectionsOK, Connections
<1>2. CASE ui /\ cached # 0
  <2> DEFINE y == [connection[cached] EXCEPT !.ui = TRUE]
  <2>1. Shown(ui) = [connection EXCEPT ![cached] = y] /\ cached \in Connections
    BY <1>1, <1>2 DEF Shown
  <2>2. /\ y \in Connection /\ y.pc = connection[cached].pc
        /\ y.kernel = connection[cached].kernel /\ y.ui
    BY <1>1, <2>1 DEF Connection
  <2> HIDE DEF y
  <2> QED
    BY <1>1, <2>1, <2>2 DEF ShownIs
<1>3. CASE ~(ui /\ cached # 0)
  <2>1. Shown(ui) = connection
    BY <1>3 DEF Shown
  <2> QED
    BY <1>1, <1>3, <2>1 DEF ShownIs
<1> QED
  BY <1>2, <1>3

(* A call joins the connection that is cached.                             *)
LEMMA JoinKeeps ==
  ASSUME IInv, NEW c \in Calls, call[c].pc # "waiting", NEW ui \in BOOLEAN,
         NEW gone \in SUBSET Kernels, \A k \in gone : kernel[k].disposed,
         ui /\ connection[cached].pc # "done" => connection[cached].kernel \notin gone,
         cached # 0, ~Gone(ui), UNCHANGED <<kernel, mapped>>, connection' = Shown(ui),
         NEW r, r = [pc |-> "waiting", ui |-> ui, on |-> cached, kernel |-> 0, gone |-> gone],
         NEW x, call' = [call EXCEPT ![c] = x],
         \/ connection[cached].pc # "done" /\ x = r /\ cached' = cached
         \/ /\ connection[cached].pc = "done" /\ cached' \in {0, cached}
            /\ x = Verified(r, connection[cached], connection[cached].kernel,
                            kernel[connection[cached].kernel].life = "dead")
  PROVE  IInv' /\ ShownStep
<1>1. /\ ConnectionsOK /\ CallsOK /\ KernelsOK
      /\ cached \in Connections /\ connection[cached] \in Connection
      /\ connection[cached].pc \notin {"unused", "failed"}
  BY DEF IInv, ConnectionsOK, Connections
<1>2. PICK k \in Kernels : k = connection[cached].kernel
  BY <1>1 DEF ConnectionsOK, Used
<1>3. /\ connection' \in [Connections -> Connection]
      /\ \A e \in Connections :
            /\ connection'[e].pc = connection[e].pc
            /\ connection'[e].kernel = connection[e].kernel
            /\ connection[e].ui => connection'[e].ui
      /\ ui => connection'[cached].ui
  BY ShownKeeps DEF ShownIs
<1>4. KernelsGo
  BY KernelsAside
<1>5. ConnectionsGo
  <2>1. \A e \in Connections :
          /\ connection'[e].pc # "unused" =>
                connection'[e].kernel \in Kernels /\ kernel'[connection'[e].kernel].life # "none"
          /\ Used(e) => connection'[e].pc # "unused" /\ (connection[e].ui => connection'[e].ui)
          /\ connection[e].pc = "done" => connection'[e].pc = "done"
          /\ connection'[e].kernel = connection[e].kernel
    BY <1>1, <1>3 DEF ConnectionsOK, Used, Made
  <2> QED
    BY <2>1, <1>1, <1>3 DEF ConnectionsGo
<1>6. /\ r \in Call /\ r.pc = "waiting" /\ (r.ui <=> ui) /\ r.on = cached
      /\ r.kernel = 0 /\ r.gone = gone
  BY <1>1 DEF Call, ConnectionsOK
<1>7. /\ x \in Call /\ (x.ui <=> ui) /\ x.on = cached /\ x.gone = gone
      /\ x.pc = "waiting" => connection[cached].pc # "done"
      /\ x.kernel = 0 \/ (connection[cached].pc = "done" /\ x.kernel = k)
  <2>1. \/ x = r /\ connection[cached].pc # "done"
        \/ x = [r EXCEPT !.pc = "done", !.kernel = k] /\ connection[cached].pc = "done"
        \/ x = [r EXCEPT !.pc = "failed"]
        \/ x = [r EXCEPT !.pc = "again"]
    BY <1>2 DEF Verified
  <2>2. CASE x = r /\ connection[cached].pc # "done"
    BY <1>6, <2>2
  <2>3. CASE x = [r EXCEPT !.pc = "done", !.kernel = k] /\ connection[cached].pc = "done"
    <3>1. k \in 0..MaxKernels
      BY DEF Kernels
    <3> QED
      BY <1>6, <2>3, <3>1 DEF Call
  <2>4. CASE x = [r EXCEPT !.pc = "failed"]
    BY <1>6, <2>4 DEF Call
  <2>5. CASE x = [r EXCEPT !.pc = "again"]
    BY <1>6, <2>5 DEF Call
  <2> QED
    BY <2>1, <2>2, <2>3, <2>4, <2>5
<1>8. /\ call' \in [Calls -> Call] /\ call'[c] = x
      /\ \A d \in Calls \ {c} : call'[d] = call[d]
  BY <1>1, <1>7 DEF CallsOK
<1>9. CallOK(c)'
  <2>1. x.ui => x.kernel \notin gone
    <3>1. 0 \notin gone
      BY DEF Kernels
    <3>2. ui /\ connection[cached].pc = "done" => ~kernel[k].disposed
      BY <1>2 DEF Gone
    <3> QED
      BY <1>7, <3>1, <3>2
  <2>2. ASSUME ui, cached' # 0, connection'[cached'].pc # "done"
        PROVE  connection'[cached'].kernel \notin gone
    BY <2>2, <1>1, <1>3
  <2>3. ASSUME x.pc = "waiting"
        PROVE  /\ connection'[cached].pc \notin {"done", "failed"}
               /\ ui => connection'[cached].ui /\ connection'[cached].kernel \notin gone
    BY <2>3, <1>1, <1>3, <1>7
  <2>4. connection'[cached].pc # "unused"
    BY <1>1, <1>3
  <2>5. \A j \in gone : kernel'[j].disposed
    OBVIOUS
  <2> QED
    BY <1>1, <1>7, <1>8, <2>1, <2>2, <2>3, <2>4, <2>5 DEF CallOK, Used
<1>10. CallsGo
  <2>1. ASSUME NEW d \in Calls \ {c}
        PROVE  CallStays(d)
    BY <1>1, <1>3, <1>8 DEF CallStays, CallsOK, CallOK
  <2> QED
    BY <1>8, <1>9, <2>1 DEF CallsGo
<1> QED
  BY <1>4, <1>5, <1>10, Goes

(* A call begins a connection, which is cached from then on.               *)
LEMMA BeginKeeps ==
  ASSUME IInv, NEW c \in Calls, call[c].pc # "waiting", NEW ui \in BOOLEAN,
         NEW controller \in Controllers,
         NEW gone \in SUBSET Kernels, \A j \in gone : kernel[j].disposed,
         NEW e \in Connections, ~Used(e), NEW k \in Kernels, NEW starts \in BOOLEAN,
         GetOrCreate(controller, k), mapped' = k,
         kernel' = KernelsAfter(controller, k, starts),
         NEW y \in Connection, y.pc \in {"prompt", "method"}, y.ui <=> ui, y.kernel = k,
         connection' = [Shown(ui) EXCEPT ![e] = y], cached' = e,
         NEW x \in Call, x.pc = "waiting", x.ui <=> ui, x.on = e, x.kernel = 0,
         x.gone = gone, call' = [call EXCEPT ![c] = x]
  PROVE  IInv' /\ ShownStep
<1>1. ConnectionsOK /\ CallsOK
  BY DEF IInv
<1>2. KernelsGo /\ ~kernel[k].disposed /\ kernel'[k].life # "none"
  BY KernelGot
<1>4. /\ connection' \in [Connections -> Connection] /\ connection'[e] = y
      /\ \A d \in Connections \ {e} :
            /\ connection'[d].pc = connection[d].pc
            /\ connection'[d].kernel = connection[d].kernel
            /\ connection[d].ui => connection'[d].ui
  BY ShownKeeps DEF ShownIs
<1>5. ConnectionsGo
  <2>1. ASSUME NEW d \in Connections
        PROVE  /\ connection'[d].pc # "unused" =>
                     /\ connection'[d].kernel \in Kernels
                     /\ kernel'[connection'[d].kernel].life # "none"
               /\ Used(d) => connection'[d].pc # "unused" /\ (connection[d].ui => connection'[d].ui)
               /\ connection[d].pc = "done" => connection'[d].pc = "done"
               /\ \/ connection'[d].kernel = connection[d].kernel
                  \/ /\ connection'[d].kernel \in Kernels
                     /\ ~kernel[connection'[d].kernel].disposed
    <3>1. CASE d = e
      BY <3>1, <1>2, <1>4 DEF Used
    <3>2. CASE d # e
      BY <2>1, <3>2, <1>1, <1>2, <1>4 DEF ConnectionsOK, KernelsGo, Used, Made
    <3> QED
      BY <3>1, <3>2
  <2> QED
    BY <2>1, <1>2, <1>4 DEF ConnectionsGo
<1>7. /\ call' \in [Calls -> Call] /\ call'[c] = x
      /\ \A d \in Calls \ {c} : call'[d] = call[d]
  BY <1>1 DEF CallsOK
<1>8. CallOK(c)'
  <2>1. k \notin gone /\ 0 \notin gone
    BY <1>2 DEF Kernels
  <2>2. \A j \in gone : kernel'[j].disposed
    BY <1>2 DEF KernelsGo
  <2> QED
    BY <1>4, <1>7, <2>1, <2>2 DEF CallOK, Used
<1>9. CallsGo
  <2>1. ASSUME NEW d \in Calls \ {c}
        PROVE  CallStays(d)
    <3>1. call[d].pc = "waiting" => /\ call[d].on \in Connections \ {e}
                                    /\ connection[call[d].on].pc \notin {"done", "failed"}
      BY <2>1, <1>1 DEF CallsOK, CallOK
    <3> QED
      BY <2>1, <3>1, <1>4, <1>7 DEF CallStays
  <2> QED
    BY <1>7, <1>8, <2>1 DEF CallsGo
<1> QED
  BY <1>2, <1>5, <1>9, Goes

LEMMA WrapKeeps ==
  ASSUME IInv, NEW c \in Calls, call[c].pc # "waiting", NEW ui \in BOOLEAN,
         NEW context \in Contexts, NEW controller \in Controllers,
         NEW gone \in SUBSET Kernels, \A j \in gone : kernel[j].disposed,
         ui /\ cached # 0 /\ connection[cached].pc # "done" =>
            connection[cached].kernel \notin gone,
         Wrap(c, context, ui, controller, gone)
  PROVE  IInv' /\ ShownStep
<1> DEFINE r == [pc |-> "waiting", ui |-> ui, on |-> cached, kernel |-> 0, gone |-> gone]
           joins == context = "start" /\ cached # 0 /\ ~Gone(ui)
           dead == kernel[connection[cached].kernel].life = "dead"
           resolved == connection[cached].pc = "done"
<1>1. CASE /\ joins
           /\ connection' = Shown(ui)
           /\ call' = [call EXCEPT ![c] = IF resolved
                       THEN Verified(r, connection[cached], connection[cached].kernel, dead) ELSE r]
           /\ cached' = IF resolved /\ dead THEN 0 ELSE cached
           /\ UNCHANGED <<kernel, mapped>>
  <2>1. PICK q : q = r
    OBVIOUS
  <2> HIDE DEF r, dead, resolved
  <2>2. PICK x : x = IF resolved
                     THEN Verified(q, connection[cached], connection[cached].kernel, dead) ELSE q
    OBVIOUS
  <2>3. call' = [call EXCEPT ![c] = x]
    BY <1>1, <2>1, <2>2
  <2>4. \/ connection[cached].pc # "done" /\ x = q /\ cached' = cached
        \/ /\ connection[cached].pc = "done" /\ cached' \in {0, cached}
           /\ x = Verified(q, connection[cached], connection[cached].kernel,
                           kernel[connection[cached].kernel].life = "dead")
    BY <1>1, <2>2 DEF dead, resolved
  <2>5. /\ cached # 0 /\ ~Gone(ui) /\ connection' = Shown(ui)
        /\ UNCHANGED <<kernel, mapped>>
    BY <1>1
  <2>6. q = [pc |-> "waiting", ui |-> ui, on |-> cached, kernel |-> 0, gone |-> gone]
    BY <2>1 DEF r
  <2>7. ui /\ connection[cached].pc # "done" => connection[cached].kernel \notin gone
    BY <2>5
  <2> QED
    BY <2>3, <2>4, <2>5, <2>6, <2>7, JoinKeeps
<1>2. CASE ~joins /\ \E e \in Connections :
              /\ connection[e].pc = "unused"
              /\ Turn(e, [pc |-> "method", context |-> context, method |-> context,
                          ui |-> ui, controller |-> controller, kernel |-> 0,
                          deadKernel |-> "notAsked"], Shown(ui))
              /\ cached' = e
              /\ call' = [call EXCEPT ![c] = [r EXCEPT !.on = e]]
  <2>1. PICK e \in Connections :
              /\ connection[e].pc = "unused"
              /\ Turn(e, [pc |-> "method", context |-> context, method |-> context,
                          ui |-> ui, controller |-> controller, kernel |-> 0,
                          deadKernel |-> "notAsked"], Shown(ui))
              /\ cached' = e
              /\ call' = [call EXCEPT ![c] = [r EXCEPT !.on = e]]
    BY <1>2
  <2> HIDE DEF r
  <2>2. PICK x : x = [r EXCEPT !.on = e]
    OBVIOUS
  <2>3. call' = [call EXCEPT ![c] = x]
    BY <2>1, <2>2
  <2>4. /\ r \in Call /\ r.pc = "waiting" /\ (r.ui <=> ui)
        /\ r.kernel = 0 /\ r.gone = gone
    BY DEF r, Call, IInv, ConnectionsOK
  <2>5. /\ x \in Call /\ x.pc = "waiting" /\ (x.ui <=> ui) /\ x.on = e
        /\ x.kernel = 0 /\ x.gone = gone
    BY <2>2, <2>4 DEF Call, Connections
  <2>6. PICK q : q = [pc |-> "method", context |-> context, method |-> context,
                      ui |-> ui, controller |-> controller, kernel |-> 0,
                      deadKernel |-> "notAsked"]
    OBVIOUS
  <2>7. q \in Connection /\ (q.ui <=> ui) /\ q.controller = controller
    BY <2>6 DEF Connection
  <2>8. Turn(e, q, Shown(ui))
    BY <2>1, <2>6
  <2>9. PICK k \in Kernels, starts \in BOOLEAN, pc \in {"prompt", "method"} :
          /\ GetOrCreate(q.controller, k)
          /\ kernel' = KernelsAfter(q.controller, k, starts)
          /\ mapped' = k
          /\ connection' = [Shown(ui) EXCEPT ![e] = [q EXCEPT !.kernel = k, !.pc = pc]]
    BY <2>8 DEF Turn
  <2>10. PICK y : y = [q EXCEPT !.kernel = k, !.pc = pc]
    OBVIOUS
  <2>11. y \in Connection /\ y.pc \in {"prompt", "method"} /\ (y.ui <=> ui) /\ y.kernel = k
    <3>1. k \in 0..MaxKernels
      BY DEF Kernels
    <3> QED
      BY <2>7, <2>9, <2>10, <3>1 DEF Connection
  <2>12. connection' = [Shown(ui) EXCEPT ![e] = y] /\ ~Used(e) /\ cached' = e
    BY <2>1, <2>9, <2>10 DEF Used
  <2>13. /\ GetOrCreate(controller, k) /\ mapped' = k
         /\ kernel' = KernelsAfter(controller, k, starts)
    BY <2>7, <2>9
  <2> QED
    BY <2>3, <2>5, <2>11, <2>12, <2>13, BeginKeeps
<1> QED
  BY <1>1, <1>2 DEF Wrap

LEMMA GoneIs ==
  ASSUME IInv
  PROVE  /\ GoneNow \in SUBSET Kernels /\ \A j \in GoneNow : kernel[j].disposed
         /\ cached # 0 /\ connection[cached].pc # "done" => GoneNow = {}
  BY DEF GoneNow

LEMMA CallSteps ==
  ASSUME IInv, NEW c \in Calls,
         \/ \E context \in Contexts, controller \in Controllers :
               WrapKernelMethod(c, context, controller)
         \/ AutoStart(c)
         \/ WrapAgain(c)
  PROVE  IInv' /\ ShownStep
<1>1. KernelsOK /\ ConnectionsOK /\ CallsOK
  BY DEF IInv
<1>2. PICK gone \in SUBSET Kernels : gone = GoneNow
  BY GoneIs
<1>3. /\ \A j \in gone : kernel[j].disposed
      /\ cached # 0 /\ connection[cached].pc # "done" => connection[cached].kernel \notin gone
  BY <1>2, GoneIs
<1>4. ASSUME NEW context \in Contexts, NEW controller \in Controllers,
             WrapKernelMethod(c, context, controller)
      PROVE  IInv' /\ ShownStep
  <2>1. PICK ui \in BOOLEAN : ui = TRUE
    OBVIOUS
  <2>2. call[c].pc # "waiting" /\ Wrap(c, context, ui, controller, gone)
    BY <1>2, <1>4, <2>1 DEF WrapKernelMethod, IsNext
  <2> QED
    BY <1>3, <1>4, <2>2, WrapKeeps
<1>5. CASE AutoStart(c)
  <2>1. PICK ui \in BOOLEAN : ui = FALSE
    OBVIOUS
  <2>2. PICK context \in Contexts : context = "start"
    BY DEF Contexts
  <2>3. mapped \in Kernels /\ kernel[mapped] \in Kernel
    BY <1>1, <1>5 DEF AutoStart, KernelsOK, Kernels
  <2>4. PICK controller \in Controllers : controller = kernel[mapped].controller
    BY <2>3 DEF Kernel
  <2>5. call[c].pc # "waiting" /\ Wrap(c, context, ui, controller, gone)
    BY <1>2, <1>5, <2>1, <2>2, <2>4 DEF AutoStart, IsNext
  <2> QED
    BY <1>3, <2>5, WrapKeeps
<1>6. CASE WrapAgain(c)
  <2>1. /\ call[c].pc = "again" /\ call[c] \in Call /\ CallOK(c)
        /\ call[c].on \in Connections /\ Used(call[c].on)
    BY <1>1, <1>6 DEF WrapAgain, CallsOK, CallOK
  <2>2. PICK ui \in BOOLEAN : ui = call[c].ui
    BY <2>1 DEF Call
  <2>3. PICK g \in SUBSET Kernels : g = call[c].gone
    BY <2>1 DEF Call
  <2>4. PICK context \in Contexts : context = "start"
    BY DEF Contexts
  <2>5. kernel[connection[call[c].on].kernel] \in Kernel
    BY <1>1, <2>1 DEF ConnectionsOK, KernelsOK
  <2>6. PICK controller \in Controllers :
           controller = kernel[connection[call[c].on].kernel].controller
    BY <2>5 DEF Kernel
  <2>7. /\ \A j \in g : kernel[j].disposed
        /\ ui /\ cached # 0 /\ connection[cached].pc # "done" =>
              connection[cached].kernel \notin g
    BY <2>1, <2>2, <2>3 DEF CallOK
  <2>8. call[c].pc # "waiting" /\ Wrap(c, context, ui, controller, g)
    BY <1>6, <2>1, <2>2, <2>3, <2>4, <2>6 DEF WrapAgain
  <2> QED
    BY <2>7, <2>8, WrapKeeps
<1> QED
  BY <1>4, <1>5, <1>6

-----------------------------------------------------------------------------
LEMMA StutterKeeps ==
  ASSUME IInv, UNCHANGED vars
  PROVE  IInv' /\ ShownStep
<1>1. UNCHANGED <<kernel, mapped>> /\ UNCHANGED <<connection, cached, call>>
  BY DEF vars
<1> QED
  BY <1>1, KernelsAside, KernelsOnly

LEMMA LoopKeeps ==
  ASSUME IInv, NEW e \in Connections, Loop(e)
  PROVE  IInv' /\ ShownStep
<1>1. CASE MethodReturns(e)
  BY <1>1, MethodReturnsStep
<1>2. CASE MethodThrows(e)
  BY <1>2, MethodThrowsStep
<1>3. CASE RestartChosen(e) \/ RestartDeclined(e) \/ RestartReturns(e) \/ RestartThrows(e)
  BY <1>3, RestartSteps
<1>4. CASE \E next \in {"failed", "choosing", "retry"} : Handled(e, next)
  BY <1>4, HandledStep
<1>5. CASE NoneChosen(e) \/ \E controller \in Controllers : ControllerChosen(e, controller)
  BY <1>5, ChoiceSteps
<1>6. CASE Retry(e)
  BY <1>6, RetryStep
<1> QED
  BY <1>1, <1>2, <1>3, <1>4, <1>5, <1>6 DEF Loop

LEMMA NextKeeps ==
  ASSUME IInv, Next
  PROVE  IInv' /\ ShownStep
<1>1. CASE \E c \in Calls :
             \/ \E context \in Contexts, controller \in Controllers :
                   WrapKernelMethod(c, context, controller)
             \/ AutoStart(c) \/ WrapAgain(c)
  BY <1>1, CallSteps
<1>2. CASE \E controller \in Controllers : ControllerSelected(controller)
  BY <1>2, ControllerSelectedStep
<1>3. CASE \E k \in Kernels : StartReturns(k) \/ StartThrows(k) \/ Dies(k)
  BY <1>3, StartReturnsStep, StartThrowsStep, DiesStep
<1>4. CASE \E e \in Connections : Loop(e)
  BY <1>4, LoopKeeps
<1> QED
  BY <1>1, <1>2, <1>3, <1>4 DEF Next

(***************************************************************************)
(* The invariant holds: starts, errors, retries, deaths and changes of     *)
(* controller keep the provider's map, the connector's cache and the calls *)
(* in agreement.                                                           *)
(***************************************************************************)
THEOREM Invariant == Spec => []IInv
<1>1. Init => IInv
  BY InitHolds
<1>2. IInv /\ [Next]_vars => IInv'
  BY NextKeeps, StutterKeeps
<1> QED
  BY <1>1, <1>2, PTL DEF Spec

(***************************************************************************)
(* However starts, errors and changes of controller interleave, a notebook *)
(* has one kernel that is not being disposed, and no connection that       *)
(* failed is cached.                                                       *)
(***************************************************************************)
THEOREM SoundNotebook == Spec => []NotebookIsSound
<1>1. IInv => NotebookIsSound
  BY Sound
<1> QED
  BY <1>1, Invariant, PTL

(***************************************************************************)
(* wrapKernelMethod with UI never returns a kernel that was disposed       *)
(* before it was called.                                                   *)
(***************************************************************************)
THEOREM GivenKernels == Spec => []CallsGetKernelsThatAreThere
<1>1. IInv => CallsGetKernelsThatAreThere
  BY Sound
<1> QED
  BY <1>1, Invariant, PTL

(***************************************************************************)
(* wrapKernelMethod with UI fails only after the user was asked, also when *)
(* it joined a start that was begun without UI.                            *)
(***************************************************************************)
THEOREM ShownFailures == Spec => FailuresAreShown
<1>1. IInv /\ [Next]_vars =>
        [\A c \in Calls : call[c].ui /\ call[c].pc = "waiting" /\ call'[c].pc = "failed"
           => connection[call[c].on].pc \in {"handling", "choosing", "prompt"}]_vars
  BY NextKeeps DEF ShownStep, Asked
<1> QED
  BY <1>1, Invariant, PTL DEF Spec, FailuresAreShown
=============================================================================
