-------------------------- MODULE ExecuteChain_proofs --------------------------
(***************************************************************************)
(* Proofs about ExecuteChain, for every bound on requests, kernels and     *)
(* lost connections.                                                       *)
(*                                                                         *)
(* The second part is about CellOutputs, what the messages that answer the *)
(* requests make of the outputs of cells: for every bound on runs and      *)
(* messages, any cells and any display ids, one invariant, OutputsInv, is  *)
(* inductive beside the types.                                             *)
(***************************************************************************)
EXTENDS ExecuteChain, CellOutputs, FiniteSetTheorems, WellFoundedInduction, TLAPS

USE BoundsAssumption

-----------------------------------------------------------------------------
(* Types.                                                                  *)
LEMMA Numbers ==
    ASSUME TypeOK
    PROVE  /\ nRequests \in Nat /\ previousExecute \in Nat
           /\ Made \subseteq Requests /\ Requests \subseteq Nat
           /\ kernel \in Nat /\ kernel \in Kernels
           /\ previousExecute # None => previousExecute \in Made
  BY DEF TypeOK, Made, Requests, Kernels, None

LEMMA RequestFields ==
    ASSUME TypeOK, NEW r \in Requests
    PROVE  /\ request[r] \in RequestRec
           /\ request[r].kernel \in 0..MaxKernels /\ request[r].link \in 0..MaxRequests
           /\ request[r].linked \in BOOLEAN
           /\ request[r].future \in {"none", "sent", "replied", "rejected"}
           /\ request[r].done \in {"pending", "resolved", "rejected"}
           /\ request[r].listens \in BOOLEAN /\ request[r].disposed \in BOOLEAN
           /\ request[r].ownedId \in 0..MaxRequests
  BY DEF TypeOK, RequestRec

LEMMA ForgetTypes ==
    ASSUME TypeOK, ForgetIfDone, nRequests' = nRequests
    PROVE  previousExecute' \in 0..nRequests'
  BY DEF TypeOK, ForgetIfDone, None

(* The futures that requestExecute() makes.                                *)
LEMMA NewRequestTypes ==
    ASSUME NEW k \in 0..MaxKernels, NEW p \in 0..MaxRequests,
           NEW d \in {"pending", "rejected"}
    PROVE  /\ NotMade \in RequestRec
           /\ [NotMade EXCEPT !.kernel = k, !.link = p, !.linked = TRUE, !.listens = TRUE,
                               !.done = d] \in RequestRec
           /\ [NotMade EXCEPT !.kernel = k, !.done = "rejected"] \in RequestRec
           /\ [NotMade EXCEPT !.kernel = k, !.future = "sent", !.ownedId = p] \in RequestRec
<1>1. NotMade \in RequestRec
  BY DEF NotMade, RequestRec, None
<1> QED
  BY <1>1 DEF RequestRec

LEMMA ExecuteTypes ==
    ASSUME TypeOK, Execute
    PROVE  TypeOK'
<1> DEFINE r == nRequests + 1
<1>1. r \in Requests /\ r \in 0..MaxRequests /\ kernel \in 0..MaxKernels
      /\ previousExecute \in 0..MaxRequests
  BY DEF Execute, TypeOK, Requests, Kernels
<1>2. CASE ExecuteDelayed(r)
  <2>1. PICK d \in {"pending", "rejected"} :
          request' = [request EXCEPT ![r] =
             [NotMade EXCEPT !.kernel = kernel, !.link = previousExecute,
                             !.linked = TRUE, !.listens = TRUE, !.done = d]]
    BY <1>2 DEF ExecuteDelayed
  <2>2. request' \in [Requests -> RequestRec]
    BY <1>1, <2>1, NewRequestTypes DEF TypeOK
  <2>3. QED
    BY <1>2, <2>2 DEF Execute, ExecuteDelayed, TypeOK, None
<1>3. CASE ExecuteAtOnce(r)
  <2>1. PICK f \in RequestRec : request' = [request EXCEPT ![r] = f]
    <3>1. "pending" \in {"pending", "rejected"}
      OBVIOUS
    <3>2. /\ [NotMade EXCEPT !.kernel = kernel, !.done = "rejected"] \in RequestRec
          /\ [NotMade EXCEPT !.kernel = kernel, !.future = "sent", !.ownedId = r] \in RequestRec
      BY <1>1, <3>1, NewRequestTypes
    <3>3. QED
      BY <1>3, <3>2 DEF ExecuteAtOnce
  <2>2. request' \in [Requests -> RequestRec]
    BY <2>1 DEF TypeOK
  <2>3. QED
    BY <2>2, <1>3 DEF Execute, ExecuteAtOnce, TypeOK, None
<1>4. QED
  BY <1>2, <1>3 DEF Execute

LEMMA SettleTypes ==
    ASSUME TypeOK, NEW r \in Requests, NEW v \in {"resolved", "rejected"}
    PROVE  /\ Settle(r, v) \in {"pending", "resolved", "rejected"} \ {"pending"}
           /\ ~Pending(r) => Settle(r, v) = request[r].done
           /\ Pending(r) => Settle(r, v) = v
  BY RequestFields DEF Settle, Pending

LEMMA LinkSettlesTypes ==
    ASSUME TypeOK, NEW r \in Requests, LinkSettles(r)
    PROVE  TypeOK'
<1>1. request' \in [Requests -> RequestRec]
  <2>1. [request[r] EXCEPT !.linked = FALSE, !.done = Settle(r, "rejected")] \in RequestRec
    BY RequestFields, SettleTypes DEF RequestRec
  <2>2. [request[r] EXCEPT !.linked = FALSE, !.future = "sent"] \in RequestRec
    BY RequestFields DEF RequestRec
  <2>3. QED
    BY <2>1, <2>2 DEF LinkSettles, TypeOK
<1>2. QED
  BY <1>1, ForgetTypes DEF LinkSettles, TypeOK

LEMMA DisposeTypes ==
    ASSUME TypeOK, NEW r \in Requests, Dispose(r)
    PROVE  TypeOK'
<1>1. request' \in [Requests -> RequestRec]
  <2>1. \A f \in {"none", "sent", "replied", "rejected"},
           d \in {"pending", "resolved", "rejected"} :
          [request[r] EXCEPT !.disposed = TRUE, !.listens = FALSE, !.future = f, !.done = d]
             \in RequestRec
    BY RequestFields DEF RequestRec
  <2>2. request' = [request EXCEPT ![r] = [request[r] EXCEPT !.disposed = TRUE,
            !.listens = FALSE,
            !.future = IF request[r].future = "sent" THEN "rejected" ELSE request[r].future,
            !.done = IF request[r].future = "sent" THEN Settle(r, "rejected")
                     ELSE request[r].done]]
    BY DEF Dispose
  <2>3. QED
    BY <2>1, <2>2, RequestFields, SettleTypes DEF TypeOK
<1>2. QED
  BY <1>1, ForgetTypes DEF Dispose, TypeOK

LEMMA ReplyTypes ==
    ASSUME TypeOK, NEW r \in Requests, Reply(r)
    PROVE  TypeOK'
<1>1. [request[r] EXCEPT !.future = "replied", !.done = Settle(r, "resolved")] \in RequestRec
  BY RequestFields, SettleTypes DEF RequestRec
<1>2. request' = [request EXCEPT ![r] =
          [request[r] EXCEPT !.future = "replied", !.done = Settle(r, "resolved")]]
  BY DEF Reply
<1>3. request' \in [Requests -> RequestRec]
  BY <1>1, <1>2 DEF TypeOK
<1>4. QED
  BY <1>3, ForgetTypes DEF Reply, TypeOK

LEMMA StatusEndsTypes ==
    ASSUME TypeOK, NEW k \in Kernels, NEW b \in BOOLEAN, StatusEnds(k, b)
    PROVE  /\ request' \in [Requests -> RequestRec]
           /\ previousExecute' \in 0..nRequests'
<1>1. ASSUME NEW r \in Requests
      PROVE  [request[r] EXCEPT
                  !.future = IF request[r].future = "sent" /\ b THEN "rejected"
                             ELSE request[r].future,
                  !.done = IF request[r].listens \/ (request[r].future = "sent" /\ b)
                           THEN Settle(r, "rejected") ELSE request[r].done] \in RequestRec
  <2> DEFINE future == IF request[r].future = "sent" /\ b THEN "rejected" ELSE request[r].future
             done == IF request[r].listens \/ (request[r].future = "sent" /\ b)
                     THEN Settle(r, "rejected") ELSE request[r].done
  <2>1. future \in {"none", "sent", "replied", "rejected"}
    BY RequestFields
  <2>2. done \in {"pending", "resolved", "rejected"}
    BY RequestFields, SettleTypes
  <2>3. request[r] \in RequestRec
    BY RequestFields
  <2> HIDE DEF future, done
  <2>4. [request[r] EXCEPT !.future = future, !.done = done] \in RequestRec
    BY <2>1, <2>2, <2>3 DEF RequestRec
  <2> QED BY <2>4 DEF future, done
<1>2. request' = [r \in Requests |->
          IF request[r].kernel # k THEN request[r]
          ELSE [request[r] EXCEPT
                  !.future = IF request[r].future = "sent" /\ b THEN "rejected"
                             ELSE request[r].future,
                  !.done = IF request[r].listens \/ (request[r].future = "sent" /\ b)
                           THEN Settle(r, "rejected") ELSE request[r].done]]
  BY DEF StatusEnds
<1>3. request' \in [Requests -> RequestRec]
  BY <1>1, <1>2 DEF TypeOK
<1>4. QED
  BY <1>3, ForgetTypes DEF StatusEnds

LEMMA TypesAreKept ==
    ASSUME TypeOK, [Next]_vars
    PROVE  TypeOK'
<1>1. CASE Execute
  BY <1>1, ExecuteTypes
<1>2. CASE SwitchKernel
  BY <1>2 DEF SwitchKernel, TypeOK, Kernels
<1>3. ASSUME NEW r \in Requests, LinkSettles(r) \/ Dispose(r) \/ Reply(r)
      PROVE  TypeOK'
  BY <1>3, LinkSettlesTypes, DisposeTypes, ReplyTypes
<1>4. ASSUME NEW k \in Kernels,
             \/ KernelDies(k) \/ KernelRestartsInPlace(k)
             \/ ConnectionLost(k) \/ ConnectionBack(k)
      PROVE  TypeOK'
  <2>1. CASE KernelDies(k) \/ KernelRestartsInPlace(k)
    BY <2>1, StatusEndsTypes DEF KernelDies, KernelRestartsInPlace, StatusEnds, TypeOK
  <2>2. CASE ConnectionLost(k)
    <3>1. drops' \in [Kernels -> 0..MaxDrops]
      BY <2>2 DEF ConnectionLost, TypeOK
    <3>2. status' \in [Kernels -> {"ok", "unknown", "dead"}]
      BY <2>2 DEF ConnectionLost, TypeOK
    <3>3. QED
      BY <2>2, <3>1, <3>2, StatusEndsTypes DEF ConnectionLost, StatusEnds, TypeOK
  <2>3. CASE ConnectionBack(k)
    BY <2>3 DEF ConnectionBack, TypeOK
  <2>4. QED
    BY <1>4, <2>1, <2>2, <2>3
<1>5. CASE UNCHANGED vars
  BY <1>5 DEF vars, TypeOK
<1>6. QED
  BY <1>1, <1>2, <1>3, <1>4, <1>5 DEF Next

LEMMA InitialTypes == Init => TypeOK
<1> SUFFICES ASSUME Init PROVE TypeOK
  OBVIOUS
<1>1. NotMade \in RequestRec
  BY DEF NotMade, RequestRec, None
<1>2. QED
  BY <1>1 DEF Init, TypeOK, Kernels, None

-----------------------------------------------------------------------------
(* Once the requests that remain on a kernel are all held back by rejected *)
(* ones and no microtask is due, none remain: the first of them would be   *)
(* due.                                                                    *)
LEMMA FirstOf ==
    ASSUME NEW T, T \subseteq Nat, T # {}
    PROVE  \E x \in T : \A y \in T : ~(y < x)
<1>1. PICK z \in T : TRUE
  OBVIOUS
<1> DEFINE U == {y \in T : y <= z}
           UpTo(x) == {y \in U : y <= x}
           Segments == {UpTo(x) : x \in U}
<1>2. U \in SUBSET Nat /\ z \in Nat /\ z \in U /\ \A y \in U : y <= z
  <2>1. z \in Nat /\ z <= z
    OBVIOUS
  <2>2. QED
    BY <2>1
<1>3. IsFiniteSet(U)
  <2> HIDE DEF U
  <2>1. QED
    BY <1>2, FS_BoundedSetOfNaturals
<1>4. Segments \subseteq FiniteSubsetsOf(Nat) /\ Segments # {}
  <2>1. \A x \in U : IsFiniteSet(UpTo(x))
    BY <1>3, FS_Subset
  <2>2. QED
    BY <1>2, <2>1 DEF FiniteSubsetsOf
<1>5. PICK A \in Segments : \A B \in Segments : <<B, A>> \notin StrictSubsetOrdering(Nat)
  <2> HIDE DEF Segments
  <2>1. QED
    BY <1>4, FS_StrictSubsetOrderingWellFounded, WFMin
<1>6. PICK x \in U : A = UpTo(x)
  OBVIOUS
<1>7. ASSUME NEW y \in T, y < x
      PROVE  FALSE
  <2>1. y \in U /\ UpTo(y) \subseteq A /\ x \in A /\ x \notin UpTo(y)
    BY <1>2, <1>6, <1>7
  <2>2. <<UpTo(y), A>> \in StrictSubsetOrdering(Nat)
    BY <1>2, <1>6, <2>1 DEF StrictSubsetOrdering
  <2>3. QED
    BY <1>5, <2>1, <2>2
<1>8. QED
  BY <1>7

LEMMA EndedKernelsAreIdle ==
    ASSUME TypeOK, LinksAreInOrder, NoLinkDue, NEW k, Ended(k)
    PROVE  \A r \in OnKernel(k) : ~Pending(r)
<1> DEFINE T == {r \in OnKernel(k) : Pending(r)}
<1> SUFFICES ASSUME T # {} PROVE FALSE
  OBVIOUS
<1>1. T \subseteq Nat
  BY Numbers DEF OnKernel
<1>2. PICK r \in T : \A y \in T : ~(y < r)
  <2> HIDE DEF T
  <2>1. QED
    BY <1>1, FirstOf
<1>3. r \in Made /\ r \in Requests /\ r \in Nat
  BY Numbers DEF OnKernel
<1>4. request[r].linked /\ request[r].link = r - 1 /\ r - 1 \in Made /\ SameKernel(r - 1, r)
  BY <1>3 DEF Ended, LinksAreInOrder
<1>5. Pending(r - 1)
  BY <1>3, <1>4 DEF NoLinkDue, LinkDue
<1>6. r - 1 \in T
  BY <1>4, <1>5 DEF OnKernel, SameKernel
<1>7. r - 1 < r
  BY <1>3
<1>8. QED
  BY <1>2, <1>6, <1>7

-----------------------------------------------------------------------------
(* Every step but Execute only ages the requests there are: they keep their*)
(* kernel and link, and what has settled stays settled.                    *)
RequestsAge ==
    \A r \in Requests :
        /\ request'[r].kernel = request[r].kernel /\ request'[r].link = request[r].link
        /\ request'[r].linked => request[r].linked
        /\ request[r].done # "pending" => request'[r].done = request[r].done
        /\ request[r].future # "sent" /\ request'[r].linked
              => request'[r].future = request[r].future
        /\ r \notin Made => request'[r] = request[r]

Ages ==
    /\ nRequests' = nRequests
    /\ RequestsAge
    /\ previousExecute' = IF /\ previousExecute # None
                             /\ request'[previousExecute].done = "pending"
                          THEN previousExecute ELSE None
    /\ kernel' \in {kernel, kernel + 1}
    /\ \A k \in Kernels : drops'[k] = 0 => drops[k] = 0

LEMMA OnKernelFacts ==
    ASSUME TypeOK, ChainInv, NEW r \in Made
    PROVE  /\ r \in Requests /\ r \in Nat /\ request[r].kernel \in Kernels
           /\ request[r].kernel <= kernel /\ request[r].kernel \in Nat
           /\ r \in OnKernel(request[r].kernel)
<1>1. r \in Requests /\ request[r].kernel \in 1..kernel
  BY Numbers DEF ChainInv, RequestsHaveKernels
<1>2. QED
  BY <1>1, Numbers DEF OnKernel, Kernels

LEMMA AgingKeepsKernelsAndChain ==
    ASSUME TypeOK, TypeOK', ChainInv, Ages
    PROVE  RequestsHaveKernels' /\ ChainIsRemembered'
<1>1. Made' = Made /\ Made \subseteq Requests /\ kernel \in Nat
  BY Numbers DEF Ages, Made
<1>2. RequestsHaveKernels'
  <2>1. \A r \in Requests \ Made' : request'[r] = NotMade
    BY <1>1 DEF Ages, RequestsAge, ChainInv, RequestsHaveKernels
  <2>2. \A r \in Made' : request'[r].kernel \in 1..kernel'
    BY <1>1 DEF Ages, RequestsAge, ChainInv, RequestsHaveKernels
  <2>3. \A r, t \in Made' : r < t => request'[r].kernel <= request'[t].kernel
    BY <1>1 DEF Ages, RequestsAge, ChainInv, RequestsHaveKernels
  <2>4. QED
    BY <2>1, <2>2, <2>3 DEF RequestsHaveKernels
<1>3. previousExecute' # None =>
          /\ previousExecute' = previousExecute /\ previousExecute \in Made
          /\ request'[previousExecute'].done = "pending"
  BY Numbers DEF Ages
<1>4. ASSUME previousExecute' # None, request'[previousExecute'].kernel = kernel'
      PROVE  previousExecute' = nRequests'
  <2>1. request[previousExecute].kernel = kernel'
    BY <1>1, <1>3, <1>4 DEF Ages, RequestsAge
  <2>2. request[previousExecute].kernel \in 1..kernel
    BY <1>3, <1>4 DEF ChainInv, RequestsHaveKernels
  <2>3. kernel' = kernel
    BY <1>1, <2>1, <2>2 DEF Ages
  <2>4. QED
    BY <1>3, <1>4, <2>1, <2>3 DEF ChainInv, ChainIsRemembered, Ages
<1>5. ASSUME nRequests' # 0, request'[nRequests'].kernel = kernel',
             request'[nRequests'].done = "pending"
      PROVE  previousExecute' = nRequests'
  <2>1. nRequests \in Made /\ nRequests \in Requests /\ nRequests' = nRequests
    BY <1>1, <1>5, Numbers DEF Ages, Made
  <2>2. Pending(nRequests)
    BY <1>5, <2>1, RequestFields DEF Ages, RequestsAge, Pending
  <2>3. request[nRequests].kernel = kernel' /\ request[nRequests].kernel \in 1..kernel
    BY <1>5, <2>1 DEF Ages, RequestsAge, ChainInv, RequestsHaveKernels
  <2>4. kernel' = kernel
    BY <1>1, <2>3 DEF Ages
  <2>5. previousExecute = nRequests
    BY <1>5, <2>1, <2>2, <2>3, <2>4 DEF ChainInv, ChainIsRemembered
  <2>6. QED
    BY <1>5, <2>1, <2>5, Numbers DEF Ages, None
<1>6. QED
  BY <1>2, <1>3, <1>4, <1>5 DEF ChainIsRemembered, Pending

(* What else such a step does.  Only a reply resolves a request; only what *)
(* was linked to a resolved request is sent; a request settles when its    *)
(* future does, with its link, or because its kernel has ended.            *)
SettlesProperly ==
    \A r \in Made :
        /\ Pending(r)' => (request'[r].linked \/ request'[r].future = "sent")
        /\ (Pending(r) /\ request'[r].done = "resolved") => request[r].future = "sent"
        /\ (Pending(r) /\ ~Pending(r)' /\ NeverLost(r)') =>
              \/ request[r].future = "sent" /\ ~request'[r].linked
              \/ request[r].linked /\ ~request'[r].linked
              \/ Ended(request[r].kernel)' /\
                   (request'[r].linked => request'[r - 1].done # "resolved")

SendsProperly ==
    \A r \in Made :
        /\ (request[r].linked /\ ~request'[r].linked) =>
              /\ ~Pending(r - 1)
              /\ request[r - 1].done = "resolved" \/ ~Pending(r)'
        /\ (request'[r].future = "sent" /\ NeverLost(r)') =>
              \/ request[r].future = "sent" /\ (Pending(r) => Pending(r)')
              \/ /\ request[r].linked /\ request[r - 1].done = "resolved"
                 /\ request'[r].done = request[r].done

KernelsEndProperly ==
    \A k \in Kernels :
        /\ status'[k] = "unknown" => status[k] = "unknown" \/ drops'[k] > 0
        /\ (status'[k] = "dead" /\ drops'[k] = 0) => status[k] = "dead" \/ Ended(k)'

ProperStep == Ages /\ SettlesProperly /\ SendsProperly /\ KernelsEndProperly

(* Facts about one request and such a step.                                *)
LEMMA ProperStepFacts ==
    ASSUME TypeOK, TypeOK', ChainInv, ProperStep, NEW r \in Made
    PROVE  /\ Made' = Made /\ r \in Requests /\ r \in Nat
           /\ request[r].kernel \in Kernels /\ request'[r].kernel = request[r].kernel
           /\ NeverLost(r)' => NeverLost(r)
           /\ Pending(r)' => Pending(r)
           /\ request[r].linked => /\ request[r].link = r - 1 /\ r - 1 \in Made
                                   /\ request[r - 1].kernel = request[r].kernel
                                   /\ request[r].future = "none"
<1>1. r \in Requests /\ request[r].kernel \in Kernels /\ r \in Nat
  BY OnKernelFacts
<1>2. Made' = Made
  BY DEF ProperStep, Ages, Made
<1>3. request'[r].kernel = request[r].kernel
  BY <1>1 DEF ProperStep, Ages, RequestsAge
<1>4. Pending(r)' => Pending(r)
  BY <1>1 DEF ProperStep, Ages, RequestsAge, Pending
<1>5. NeverLost(r)' => NeverLost(r)
  BY <1>1, <1>3 DEF ProperStep, Ages, NeverLost
<1>6. QED
  BY <1>1, <1>2, <1>3, <1>4, <1>5 DEF ChainInv, LinksAreInOrder, SameKernel

(* The link of a request that settled before it, or on a kernel that has   *)
(* ended, never resolves: to resolve it would have to be sent, and then no *)
(* later request of the kernel could have settled.                         *)
LEMMA SettledLinkIsNotResolved ==
    ASSUME TypeOK, TypeOK', ChainInv, ProperStep, NEW r \in Made, request[r].linked,
           drops'[request[r].kernel] = 0,
           request[r - 1].done # "resolved", ~Pending(r) \/ Ended(request[r].kernel)
    PROVE  request'[r - 1].done # "resolved"
<1> SUFFICES ASSUME request'[r - 1].done = "resolved" PROVE FALSE
  OBVIOUS
<1> DEFINE k == request[r].kernel
<1>1. r - 1 \in Made /\ r - 1 \in Requests /\ request[r - 1].kernel = k /\ k \in Kernels
      /\ r \in Nat
  BY ProperStepFacts, Numbers
<1>2. Pending(r - 1)
  BY <1>1 DEF ProperStep, Ages, RequestsAge, Pending
<1>3. request[r - 1].future = "sent"
  BY <1>1, <1>2 DEF ProperStep, SettlesProperly
<1>4. ~request[r - 1].linked
  BY <1>1, <1>3 DEF ChainInv, LinksAreInOrder
<1>5. ~Ended(k)
  BY <1>1, <1>2, <1>4 DEF Ended, OnKernel
<1>6. drops[k] = 0
  BY <1>1 DEF ProperStep, Ages
<1>7. InOrder(k)
  BY <1>1, <1>5, <1>6 DEF ChainInv, KernelsAreInOrderOrEnded
<1>8. r \in OnKernel(k) /\ r - 1 \in OnKernel(k) /\ r - 1 < r
  BY <1>1 DEF OnKernel
<1>9. QED
  BY <1>2, <1>5, <1>7, <1>8 DEF InOrder

LEMMA ProperStepKeepsLinks ==
    ASSUME TypeOK, TypeOK', ChainInv, ProperStep
    PROVE  LinksAreInOrder'
<1> SUFFICES ASSUME NEW r \in Made
             PROVE  /\ request'[r].linked =>
                          /\ request'[r].link = r - 1 /\ r - 1 \in Made
                          /\ request'[r - 1].kernel = request'[r].kernel
                          /\ request'[r].future = "none"
                    /\ Pending(r)' => request'[r].linked \/ request'[r].future = "sent"
                    /\ (request'[r].linked /\ NeverLost(r)' /\ ~Pending(r)')
                          => request'[r - 1].done # "resolved"
  BY ProperStepFacts DEF LinksAreInOrder, SameKernel, ProperStep, Ages, Made
<1>1. r \in Requests
  BY ProperStepFacts
<1>2. ASSUME request'[r].linked
      PROVE  /\ request[r].linked
             /\ request'[r].link = r - 1 /\ r - 1 \in Made
             /\ request'[r - 1].kernel = request'[r].kernel
             /\ request'[r].future = "none"
  <2>1. request[r].linked
    BY <1>1, <1>2 DEF ProperStep, Ages, RequestsAge
  <2>2. request[r].link = r - 1 /\ r - 1 \in Made /\ request[r].future = "none"
        /\ request[r - 1].kernel = request[r].kernel
    BY <2>1, ProperStepFacts
  <2>3. r - 1 \in Requests
    BY <2>2, Numbers
  <2>4. QED
    BY <1>1, <1>2, <2>1, <2>2, <2>3 DEF ProperStep, Ages, RequestsAge
<1>3. Pending(r)' => request'[r].linked \/ request'[r].future = "sent"
  BY DEF ProperStep, SettlesProperly
<1>4. ASSUME request'[r].linked, NeverLost(r)', ~Pending(r)'
      PROVE  request'[r - 1].done # "resolved"
  <2>1. CASE Pending(r)
    BY <1>4, <2>1 DEF ProperStep, SettlesProperly
  <2>2. CASE ~Pending(r)
    <3>1. request[r].linked /\ NeverLost(r) /\ drops'[request[r].kernel] = 0
      BY <1>2, <1>4, ProperStepFacts DEF NeverLost
    <3>2. request[r - 1].done # "resolved"
      BY <2>2, <3>1 DEF ChainInv, LinksAreInOrder
    <3>3. QED
      BY <2>2, <3>1, <3>2, SettledLinkIsNotResolved
  <2>3. QED
    BY <2>1, <2>2
<1>5. QED
  BY <1>2, <1>3, <1>4

LEMMA ProperStepSendsInOrder ==
    ASSUME TypeOK, TypeOK', ChainInv, ProperStep
    PROVE  WhatRunsIsAwaited' /\ SentInOrder'
<1>1. ASSUME NEW r \in Made, request'[r].future = "sent", NeverLost(r)'
      PROVE  Pending(r)'
  <2>1. NeverLost(r)
    BY <1>1, ProperStepFacts
  <2>2. CASE request[r].future = "sent" /\ (Pending(r) => Pending(r)')
    BY <2>1, <2>2 DEF ChainInv, WhatRunsIsAwaited
  <2>3. CASE /\ request[r].linked /\ request[r - 1].done = "resolved"
             /\ request'[r].done = request[r].done
    <3>1. Pending(r)
      BY <2>1, <2>3 DEF ChainInv, LinksAreInOrder
    <3>2. QED
      BY <2>3, <3>1 DEF Pending
  <2>4. QED
    BY <1>1, <2>2, <2>3 DEF ProperStep, SendsProperly
<1>2. ASSUME NEW r \in Made, NEW t \in Made, r < t,
             request'[r].kernel = request'[t].kernel, NeverLost(t)',
             request'[t].future = "sent"
      PROVE  ~Pending(r)'
  <2> DEFINE k == request[t].kernel
  <2>1. /\ NeverLost(t) /\ request[r].kernel = k /\ k \in Kernels
        /\ r \in Nat /\ t \in Nat /\ (Pending(r)' => Pending(r))
    BY <1>2, ProperStepFacts
  <2>2. CASE request[t].future = "sent"
    BY <1>2, <2>1, <2>2 DEF ChainInv, SentInOrder, SameKernel
  <2>3. CASE /\ request[t].linked /\ request[t - 1].done = "resolved"
             /\ request'[t].done = request[t].done
    <3>1. t - 1 \in Made /\ request[t - 1].kernel = k
      BY <2>3, ProperStepFacts
    <3>2. Pending(t)
      BY <2>1, <2>3 DEF ChainInv, LinksAreInOrder
    <3>3. ~Ended(k)
      BY <2>3, <3>2 DEF Ended, OnKernel
    <3>4. InOrder(k)
      BY <2>1, <3>3 DEF ChainInv, KernelsAreInOrderOrEnded, NeverLost
    <3>5. ~Pending(t - 1)
      BY <2>3 DEF Pending
    <3>6. r = t - 1 \/ r < t - 1
      BY <1>2, <2>1
    <3>7. r \in OnKernel(k) /\ t - 1 \in OnKernel(k)
      BY <2>1, <3>1 DEF OnKernel
    <3>8. ~Pending(r)
      BY <3>4, <3>5, <3>6, <3>7 DEF InOrder
    <3>9. QED
      BY <2>1, <3>8
  <2>4. QED
    BY <1>2, <2>2, <2>3 DEF ProperStep, SendsProperly
<1>3. Made' = Made
  BY DEF ProperStep, Ages, Made
<1>4. QED
  BY <1>1, <1>2, <1>3 DEF WhatRunsIsAwaited, SentInOrder, SameKernel

LEMMA ProperStepKeepsKernelsInOrder ==
    ASSUME TypeOK, TypeOK', ChainInv, ProperStep
    PROVE  KernelsAreInOrderOrEnded'
<1> SUFFICES ASSUME NEW k \in Kernels
             PROVE  /\ status'[k] = "unknown" => drops'[k] > 0
                    /\ drops'[k] = 0 => /\ InOrder(k)' \/ Ended(k)'
                                        /\ status'[k] = "dead" => Ended(k)'
  BY DEF KernelsAreInOrderOrEnded
<1>1. status'[k] = "unknown" => drops'[k] > 0
  <2>1. drops[k] \in Nat /\ drops'[k] \in Nat /\ (drops'[k] = 0 => drops[k] = 0)
    BY DEF TypeOK, ProperStep, Ages
  <2>2. status[k] = "unknown" => drops[k] > 0
    BY DEF ChainInv, KernelsAreInOrderOrEnded
  <2>3. QED
    BY <2>1, <2>2 DEF ProperStep, KernelsEndProperly
<1>2. ASSUME drops'[k] = 0, Ended(k)
      PROVE  Ended(k)'
  <2> SUFFICES ASSUME NEW r \in Made, request'[r].kernel = k, Pending(r)'
               PROVE  request'[r].linked /\ request'[r - 1].done # "resolved"
    BY ProperStepFacts DEF Ended, OnKernel, ProperStep, Ages, Made
  <2>1. request[r].kernel = k /\ Pending(r)
    BY ProperStepFacts
  <2>2. request[r].linked /\ request[r - 1].done # "resolved"
    BY <1>2, <2>1 DEF Ended, OnKernel
  <2>3. request'[r].linked
    BY <2>2 DEF ProperStep, SendsProperly
  <2>4. QED
    BY <1>2, <2>1, <2>2, <2>3, SettledLinkIsNotResolved
<1>3. ASSUME drops'[k] = 0, InOrder(k), ~Ended(k)'
      PROVE  InOrder(k)'
  <2> SUFFICES ASSUME NEW r \in Made, NEW t \in Made, request'[r].kernel = k,
                      request'[t].kernel = k, r < t, ~Pending(t)'
               PROVE  ~Pending(r)'
    <3>1. Made' = Made
      BY DEF ProperStep, Ages, Made
    <3>2. QED
      BY <3>1 DEF InOrder, OnKernel
  <2>1. /\ request[r].kernel = k /\ request[t].kernel = k /\ r \in Nat /\ t \in Nat
        /\ (Pending(r)' => Pending(r)) /\ NeverLost(t)' /\ NeverLost(t)
        /\ r \in OnKernel(k)
    BY <1>3, ProperStepFacts DEF NeverLost, OnKernel
  <2>2. CASE ~Pending(t)
    BY <1>3, <2>1, <2>2 DEF InOrder, OnKernel
  <2>3. CASE request[t].future = "sent"
    BY <2>1, <2>3 DEF ChainInv, SentInOrder, SameKernel
  <2>4. CASE request[t].linked /\ ~request'[t].linked
    <3>1. t - 1 \in OnKernel(k) /\ ~Pending(t - 1)
      BY <2>1, <2>4, ProperStepFacts DEF OnKernel, ProperStep, SendsProperly
    <3>2. r = t - 1 \/ r < t - 1
      BY <2>1
    <3>3. QED
      BY <1>3, <2>1, <3>1, <3>2 DEF InOrder
  <2>5. QED
    BY <1>3, <2>1, <2>2, <2>3, <2>4 DEF ProperStep, SettlesProperly
<1>4. drops'[k] = 0 => drops[k] = 0
  BY DEF ProperStep, Ages
<1>5. ASSUME drops'[k] = 0
      PROVE  InOrder(k)' \/ Ended(k)'
  BY <1>2, <1>3, <1>4, <1>5 DEF ChainInv, KernelsAreInOrderOrEnded
<1>6. ASSUME drops'[k] = 0, status'[k] = "dead"
      PROVE  Ended(k)'
  BY <1>2, <1>4, <1>6 DEF ChainInv, KernelsAreInOrderOrEnded, ProperStep, KernelsEndProperly
<1>7. QED
  BY <1>1, <1>5, <1>6

LEMMA ProperStepKeepsInv ==
    ASSUME TypeOK, TypeOK', ChainInv, ProperStep
    PROVE  ChainInv'
BY AgingKeepsKernelsAndChain, ProperStepKeepsLinks, ProperStepSendsInOrder,
   ProperStepKeepsKernelsInOrder DEF ChainInv, ProperStep

-----------------------------------------------------------------------------
(* The steps of one request, from the fields they change.                  *)
OnlyChanges(r) ==
    /\ nRequests' = nRequests /\ kernel' = kernel /\ status' = status /\ drops' = drops
    /\ \A x \in Requests : x # r => request'[x] = request[x]
    /\ request'[r].kernel = request[r].kernel /\ request'[r].link = request[r].link

LEMMA OneRequestAges ==
    ASSUME TypeOK, ChainInv, NEW r \in Made, OnlyChanges(r), ForgetIfDone,
           request'[r].linked => request[r].linked /\
              (request[r].future # "sent" => request'[r].future = request[r].future),
           request[r].done # "pending" => request'[r].done = request[r].done
    PROVE  Ages
<1>1. RequestsAge
  BY DEF OnlyChanges, RequestsAge
<1>2. QED
  BY <1>1 DEF OnlyChanges, Ages, ForgetIfDone

LEMMA OneRequestSettles ==
    ASSUME TypeOK, ChainInv, NEW r \in Made, OnlyChanges(r),
           Pending(r)' => request'[r].linked \/ request'[r].future = "sent",
           (Pending(r) /\ request'[r].done = "resolved") => request[r].future = "sent",
           (Pending(r) /\ ~Pending(r)') => \/ request[r].future = "sent"
                                           \/ request[r].linked /\ ~request'[r].linked,
           request'[r].linked => request[r].linked
    PROVE  SettlesProperly /\ KernelsEndProperly
<1>1. SettlesProperly
  <2> SUFFICES ASSUME NEW x \in Made
               PROVE  /\ Pending(x)' => request'[x].linked \/ request'[x].future = "sent"
                      /\ (Pending(x) /\ request'[x].done = "resolved")
                            => request[x].future = "sent"
                      /\ (Pending(x) /\ ~Pending(x)') =>
                           \/ request[x].future = "sent" /\ ~request'[x].linked
                           \/ request[x].linked /\ ~request'[x].linked
    BY DEF SettlesProperly
  <2>1. CASE x = r
    <3>1. request[r].future = "sent" => ~request[r].linked
      BY DEF ChainInv, LinksAreInOrder
    <3>2. request[r].linked \in BOOLEAN
      BY RequestFields, Numbers
    <3>3. QED
      BY <2>1, <3>1, <3>2
  <2>2. CASE x # r
    <3>1. request'[x] = request[x]
      BY <2>2, Numbers DEF OnlyChanges
    <3>2. Pending(x) => request[x].linked \/ request[x].future = "sent"
      BY DEF ChainInv, LinksAreInOrder
    <3>3. QED
      BY <3>1, <3>2, RequestFields, Numbers DEF Pending
  <2>3. QED
    BY <2>1, <2>2
<1>2. KernelsEndProperly
  BY DEF OnlyChanges, KernelsEndProperly
<1>3. QED
  BY <1>1, <1>2

LEMMA OneRequestSends ==
    ASSUME TypeOK, ChainInv, NEW r \in Made, OnlyChanges(r),
           (request[r].linked /\ ~request'[r].linked) =>
              ~Pending(r - 1) /\ (request[r - 1].done = "resolved" \/ ~Pending(r)'),
           request'[r].future = "sent" =>
              /\ request[r].linked /\ request[r - 1].done = "resolved"
              /\ request'[r].done = request[r].done
    PROVE  SendsProperly
<1> SUFFICES ASSUME NEW x \in Made
             PROVE  /\ (request[x].linked /\ ~request'[x].linked) =>
                          /\ ~Pending(x - 1)
                          /\ request[x - 1].done = "resolved" \/ ~Pending(x)'
                    /\ request'[x].future = "sent" =>
                          \/ request[x].future = "sent" /\ (Pending(x) => Pending(x)')
                          \/ /\ request[x].linked /\ request[x - 1].done = "resolved"
                             /\ request'[x].done = request[x].done
  BY DEF SendsProperly
<1>1. CASE x = r
  BY <1>1
<1>2. CASE x # r
  <2>1. request'[x] = request[x]
    BY <1>2, Numbers DEF OnlyChanges
  <2>2. QED
    BY <2>1 DEF Pending
<1>3. QED
  BY <1>1, <1>2

LEMMA OneRequestOnly ==
    ASSUME TypeOK, NEW r \in Requests, NEW f,
           request' = [request EXCEPT ![r] = f],
           f.kernel = request[r].kernel, f.link = request[r].link,
           nRequests' = nRequests, kernel' = kernel, status' = status, drops' = drops
    PROVE  OnlyChanges(r) /\ request'[r] = f
<1>1. request'[r] = f /\ \A x \in Requests : x # r => request'[x] = request[x]
  BY DEF TypeOK
<1>2. QED
  BY <1>1 DEF OnlyChanges

LEMMA LinkSettlesIsProper ==
    ASSUME TypeOK, ChainInv, NEW r \in Requests, LinkSettles(r)
    PROVE  ProperStep
<1>1. request[r].linked /\ ~Pending(request[r].link)
  BY DEF LinkSettles, LinkDue
<1>2. r \in Made
  BY <1>1 DEF ChainInv, RequestsHaveKernels, NotMade
<1>3. request[r].link = r - 1 /\ r - 1 \in Made /\ request[r].future = "none"
  BY <1>1, <1>2 DEF ChainInv, LinksAreInOrder
<1>4. request[r - 1].done \in {"resolved", "rejected"}
  BY <1>1, <1>3, RequestFields, Numbers DEF Pending
<1>5. request[r] \in RequestRec
  BY RequestFields
<1>6. PICK f : /\ request' = [request EXCEPT ![r] = f]
               /\ f.kernel = request[r].kernel /\ f.link = request[r].link
               /\ f.linked = FALSE
               /\ \/ f.future = "none" /\ f.done = Settle(r, "rejected")
                  \/ /\ f.future = "sent" /\ f.done = request[r].done
                     /\ request[r - 1].done = "resolved"
  <2>1. CASE request' = [request EXCEPT ![r].linked = FALSE,
                                        ![r].done = Settle(r, "rejected")]
    <3> DEFINE f == [request[r] EXCEPT !.linked = FALSE, !.done = Settle(r, "rejected")]
    <3>1. request' = [request EXCEPT ![r] = f]
      BY <2>1
    <3>2. /\ f.kernel = request[r].kernel /\ f.link = request[r].link
          /\ f.linked = FALSE /\ f.future = "none" /\ f.done = Settle(r, "rejected")
      BY <1>3, <1>5 DEF RequestRec
    <3> HIDE DEF f
    <3>3. QED
      BY <3>1, <3>2
  <2>2. CASE /\ request[request[r].link].done # "rejected"
             /\ request' = [request EXCEPT ![r].linked = FALSE, ![r].future = "sent"]
    <3> DEFINE f == [request[r] EXCEPT !.linked = FALSE, !.future = "sent"]
    <3>1. request' = [request EXCEPT ![r] = f]
      BY <2>2
    <3>2. /\ f.kernel = request[r].kernel /\ f.link = request[r].link
          /\ f.linked = FALSE /\ f.future = "sent" /\ f.done = request[r].done
      BY <1>5 DEF RequestRec
    <3>3. request[r - 1].done = "resolved"
      BY <1>3, <1>4, <2>2
    <3> HIDE DEF f
    <3>4. QED
      BY <3>1, <3>2, <3>3
  <2>3. QED
    BY <2>1, <2>2 DEF LinkSettles
<1>7. OnlyChanges(r) /\ request'[r] = f
  BY <1>6, OneRequestOnly DEF LinkSettles
<1>8. ~Pending(r) => f.done = request[r].done
  BY <1>6 DEF Settle
<1>9. f.future = "none" => (f.done = "rejected" \/ ~Pending(r))
  BY <1>6, SettleTypes
<1>10. f.future = "none" => f.done # "pending"
  BY <1>6, SettleTypes
<1>11. Ages
  BY <1>2, <1>6, <1>7, <1>8, OneRequestAges DEF LinkSettles, Pending
<1>12. SettlesProperly /\ KernelsEndProperly
  <2>1. Pending(r)' => request'[r].future = "sent"
    BY <1>6, <1>7, <1>10 DEF Pending
  <2>2. (Pending(r) /\ request'[r].done = "resolved") => request[r].future = "sent"
    BY <1>6, <1>7, <1>9 DEF Pending
  <2>3. request[r].linked /\ request'[r].linked = FALSE
    BY <1>1, <1>6, <1>7
  <2>4. QED
    BY <1>2, <1>7, <2>1, <2>2, <2>3, OneRequestSettles
<1>13. SendsProperly
  <2>1. ~Pending(r - 1)
    BY <1>4 DEF Pending
  <2>2. request[r - 1].done = "resolved" \/ ~Pending(r)'
    BY <1>6, <1>7, <1>10 DEF Pending
  <2>3. request'[r].future = "sent" =>
           request[r - 1].done = "resolved" /\ request'[r].done = request[r].done
    BY <1>6, <1>7
  <2>4. QED
    BY <1>1, <1>2, <1>7, <2>1, <2>2, <2>3, OneRequestSends
<1>14. QED
  BY <1>11, <1>12, <1>13 DEF ProperStep

(* Disposing of a request and the reply to it end a future that was sent.  *)
LEMMA EndOfFutureIsProper ==
    ASSUME TypeOK, ChainInv, NEW r \in Made, OnlyChanges(r), ForgetIfDone,
           request'[r].linked = request[r].linked,
           request[r].future = "sent" =>
              request'[r].future # "sent" /\ request'[r].done # "pending" /\
              (~Pending(r) => request'[r].done = request[r].done),
           request[r].future # "sent" =>
              request'[r].future = request[r].future /\ request'[r].done = request[r].done
    PROVE  ProperStep
<1>1. /\ request[r].linked => request[r].future = "none"
      /\ Pending(r) => request[r].linked \/ request[r].future = "sent"
  BY DEF ChainInv, LinksAreInOrder
<1>2. request[r].linked \in BOOLEAN
  BY RequestFields, Numbers
<1>3. Ages
  BY <1>1, <1>2, OneRequestAges DEF Pending
<1>4. SettlesProperly /\ KernelsEndProperly
  <2>1. Pending(r)' => request'[r].linked \/ request'[r].future = "sent"
    BY <1>1, <1>2 DEF Pending
  <2>2. (Pending(r) /\ request'[r].done = "resolved") => request[r].future = "sent"
    BY DEF Pending
  <2>3. (Pending(r) /\ ~Pending(r)') => \/ request[r].future = "sent"
                                        \/ request[r].linked /\ ~request'[r].linked
    BY DEF Pending
  <2>4. request'[r].linked => request[r].linked
    OBVIOUS
  <2>5. QED
    BY <2>1, <2>2, <2>3, <2>4, OneRequestSettles
<1>5. SendsProperly
  BY <1>1, <1>2, OneRequestSends
<1>6. QED
  BY <1>3, <1>4, <1>5 DEF ProperStep

LEMMA DisposeIsProper ==
    ASSUME TypeOK, ChainInv, NEW r \in Requests, Dispose(r)
    PROVE  ProperStep
<1> DEFINE f == [request[r] EXCEPT !.disposed = TRUE, !.listens = FALSE,
            !.future = IF request[r].future = "sent" THEN "rejected" ELSE request[r].future,
            !.done = IF request[r].future = "sent" THEN Settle(r, "rejected")
                     ELSE request[r].done]
<1>1. request' = [request EXCEPT ![r] = f]
  BY DEF Dispose
<1>2. /\ f.kernel = request[r].kernel /\ f.link = request[r].link
      /\ f.linked = request[r].linked
      /\ request[r].future = "sent" =>
            f.future = "rejected" /\ f.done = Settle(r, "rejected")
      /\ request[r].future # "sent" =>
            f.future = request[r].future /\ f.done = request[r].done
  BY RequestFields DEF RequestRec
<1> HIDE DEF f
<1>3. OnlyChanges(r) /\ request'[r] = f
  BY <1>1, <1>2, OneRequestOnly DEF Dispose
<1>4. Settle(r, "rejected") # "pending" /\ (~Pending(r) => Settle(r, "rejected") = request[r].done)
  BY SettleTypes
<1>5. r \in Made /\ ForgetIfDone
  BY DEF Dispose
<1>6. QED
  BY <1>2, <1>3, <1>4, <1>5, EndOfFutureIsProper

LEMMA ReplyIsProper ==
    ASSUME TypeOK, ChainInv, NEW r \in Requests, Reply(r)
    PROVE  ProperStep
<1> DEFINE f == [request[r] EXCEPT !.future = "replied", !.done = Settle(r, "resolved")]
<1>1. request' = [request EXCEPT ![r] = f] /\ request[r].future = "sent"
  BY DEF Reply
<1>2. /\ f.kernel = request[r].kernel /\ f.link = request[r].link
      /\ f.linked = request[r].linked
      /\ f.future = "replied" /\ f.done = Settle(r, "resolved")
  BY RequestFields DEF RequestRec
<1> HIDE DEF f
<1>3. OnlyChanges(r) /\ request'[r] = f
  BY <1>1, <1>2, OneRequestOnly DEF Reply
<1>4. Settle(r, "resolved") # "pending" /\ (~Pending(r) => Settle(r, "resolved") = request[r].done)
  BY SettleTypes
<1>5. r \in Made /\ ForgetIfDone
  BY <1>1 DEF Reply, ChainInv, RequestsHaveKernels, NotMade
<1>6. QED
  BY <1>1, <1>2, <1>3, <1>4, <1>5, EndOfFutureIsProper

(* What the invariant is about does not tell apart states that agree on    *)
(* the following.                                                          *)
SameForInv ==
    /\ UNCHANGED <<nRequests, previousExecute, kernel, drops>>
    /\ \A x \in Requests :
          /\ request'[x].kernel = request[x].kernel /\ request'[x].link = request[x].link
          /\ request'[x].linked = request[x].linked
          /\ request'[x].future = request[x].future
          /\ request'[x].done = request[x].done
          /\ x \notin Made => request'[x] = request[x]
    /\ \A k \in Kernels : status'[k] \in {status[k], "ok"}

LEMMA SameForInvKeepsInv ==
    ASSUME TypeOK, TypeOK', ChainInv, SameForInv
    PROVE  ChainInv'
<1>1. Made' = Made /\ Made \subseteq Requests
  BY Numbers DEF SameForInv, Made
<1>2. Ages
  <2>1. RequestsAge
    BY DEF SameForInv, RequestsAge
  <2>2. previousExecute # None => request'[previousExecute].done = "pending"
    BY <1>1, Numbers DEF SameForInv, ChainInv, ChainIsRemembered, Pending
  <2>3. QED
    BY <2>1, <2>2 DEF SameForInv, Ages
<1>3. SettlesProperly
  BY <1>1 DEF SameForInv, SettlesProperly, ChainInv, LinksAreInOrder, Pending
<1>4. SendsProperly
  BY <1>1 DEF SameForInv, SendsProperly, Pending
<1>5. KernelsEndProperly
  BY DEF SameForInv, KernelsEndProperly
<1>6. QED
  BY <1>2, <1>3, <1>4, <1>5, ProperStepKeepsInv DEF ProperStep

LEMMA StatusEndsIsProper ==
    ASSUME TypeOK, ChainInv, NoLinkDue, NEW k \in Kernels, NEW b \in BOOLEAN,
           StatusEnds(k, b), ~b => drops'[k] > 0,
           \A j \in Kernels : j # k => status'[j] = status[j] /\ drops'[j] = drops[j],
           drops'[k] = 0 => drops[k] = 0,
           status'[k] = "unknown" => drops'[k] > 0 \/ status[k] = "unknown"
    PROVE  ProperStep
<1>1. \A x \in Requests : request[x].kernel # k => request'[x] = request[x]
  BY DEF StatusEnds
<1>2. ASSUME NEW x \in Requests, request[x].kernel = k
      PROVE  /\ request'[x].kernel = k /\ request'[x].link = request[x].link
             /\ request'[x].linked = request[x].linked
             /\ request'[x].future = IF request[x].future = "sent" /\ b THEN "rejected"
                                     ELSE request[x].future
             /\ request'[x].done = IF request[x].listens \/ (request[x].future = "sent" /\ b)
                                   THEN Settle(x, "rejected") ELSE request[x].done
  BY <1>2, RequestFields DEF StatusEnds, RequestRec
<1>3. ASSUME NEW x \in Requests, request[x].kernel = k
      PROVE  /\ ~Pending(x) => request'[x].done = request[x].done
             /\ request'[x].done # "pending" => request'[x].done = "rejected" \/ ~Pending(x)
             /\ (request[x].future = "sent" /\ b) => request'[x].done # "pending"
  BY <1>2, <1>3, SettleTypes DEF Pending
<1>4. ASSUME NEW x \in Requests
      PROVE  /\ request'[x].kernel = request[x].kernel /\ request'[x].link = request[x].link
             /\ request'[x].linked = request[x].linked
             /\ ~Pending(x) => request'[x].done = request[x].done
             /\ request'[x].done = "resolved" => request[x].done = "resolved"
             /\ request[x].future # "sent" => request'[x].future = request[x].future
             /\ request'[x].future = "sent" => request[x].future = "sent"
  <2>1. CASE request[x].kernel # k
    BY <1>1, <2>1
  <2>2. CASE request[x].kernel = k
    BY <1>2, <1>3, <2>2 DEF Pending
  <2>3. QED
    BY <2>1, <2>2
<1>5. Made \subseteq Requests
  BY Numbers
<1>6. Ages
  <2>1. ASSUME NEW x \in Requests, x \notin Made
        PROVE  request'[x] = request[x]
    <3>1. request[x].kernel = None
      BY <2>1 DEF ChainInv, RequestsHaveKernels, NotMade
    <3>2. request[x].kernel # k
      BY <3>1 DEF Kernels, None
    <3>3. QED
      BY <1>1, <3>2
  <2>2. RequestsAge
    BY <1>4, <2>1 DEF RequestsAge, Pending
  <2>3. \A j \in Kernels : drops'[j] = 0 => drops[j] = 0
    OBVIOUS
  <2>4. QED
    BY <2>2, <2>3 DEF Ages, StatusEnds, ForgetIfDone
<1>7. Made' = Made
  BY DEF StatusEnds, Made
<1>8. ASSUME NEW x \in Made
      PROVE  Pending(x)' => (request'[x].linked \/ request'[x].future = "sent")
  <2>1. (request'[x].done = "pending") => (request[x].linked \/ request[x].future = "sent")
    BY <1>4, <1>5 DEF ChainInv, LinksAreInOrder, Pending
  <2>2. CASE request[x].kernel # k
    BY <1>1, <1>5, <2>1, <2>2 DEF Pending
  <2>3. CASE request[x].kernel = k
    BY <1>2, <1>3, <1>5, <2>1, <2>3 DEF Pending
  <2>4. QED
    BY <2>2, <2>3
<1>9. ASSUME NEW x \in Made, request[x].linked
      PROVE  request'[x - 1].done # "resolved"
  <2>1. x - 1 \in Requests /\ Pending(x - 1)
    BY <1>5, <1>9 DEF ChainInv, LinksAreInOrder, NoLinkDue, LinkDue
  <2>2. QED
    BY <1>4, <2>1 DEF Pending
<1>10. ASSUME drops'[k] = 0
       PROVE  Ended(k)'
  <2> SUFFICES ASSUME NEW x \in Made, request'[x].kernel = k, request'[x].done = "pending"
               PROVE  request'[x].linked /\ request'[x - 1].done # "resolved"
    BY <1>7 DEF Ended, OnKernel, Pending
  <2>1. b
    BY <1>10
  <2>2. request[x].kernel = k
    BY <1>4, <1>5
  <2>3. request'[x].future # "sent"
    BY <1>2, <1>5, <2>1, <2>2
  <2>4. request'[x].linked
    BY <1>8, <2>3 DEF Pending
  <2>5. request[x].linked
    BY <1>4, <1>5, <2>4
  <2>6. QED
    BY <1>9, <2>4, <2>5
<1>11. SettlesProperly
  <2> SUFFICES ASSUME NEW x \in Made
               PROVE  /\ (Pending(x) /\ request'[x].done = "resolved")
                            => request[x].future = "sent"
                      /\ (Pending(x) /\ ~Pending(x)' /\ NeverLost(x)') =>
                            /\ Ended(request[x].kernel)'
                            /\ request'[x].linked => request'[x - 1].done # "resolved"
    BY <1>8 DEF SettlesProperly
  <2>1. (Pending(x) /\ request'[x].done = "resolved") => request[x].future = "sent"
    BY <1>4, <1>5 DEF Pending
  <2>2. ASSUME Pending(x), ~Pending(x)', NeverLost(x)'
        PROVE  /\ Ended(request[x].kernel)'
               /\ request'[x].linked => request'[x - 1].done # "resolved"
    <3>1. request[x].kernel = k
      BY <1>1, <1>5, <2>2 DEF Pending
    <3>2. drops'[k] = 0
      BY <1>4, <1>5, <2>2, <3>1 DEF NeverLost
    <3>3. Ended(request[x].kernel)'
      BY <1>10, <3>1, <3>2, <1>4, <1>5 DEF Ended
    <3>4. request'[x].linked => request'[x - 1].done # "resolved"
      BY <1>4, <1>5, <1>9
    <3>5. QED
      BY <3>3, <3>4
  <2>3. QED
    BY <2>1, <2>2
<1>12. SendsProperly
  <2> SUFFICES ASSUME NEW x \in Made, request'[x].future = "sent", NeverLost(x)', Pending(x)
               PROVE  request[x].future = "sent" /\ Pending(x)'
    BY <1>4, <1>5 DEF SendsProperly
  <2>1. request[x].future = "sent"
    BY <1>4, <1>5
  <2>2. CASE request[x].kernel # k
    BY <1>1, <1>5, <2>1, <2>2 DEF Pending
  <2>3. CASE request[x].kernel = k
    <3>1. ~b /\ drops'[k] > 0
      BY <1>2, <1>5, <2>1, <2>3
    <3>2. drops'[k] = 0
      BY <1>4, <1>5, <2>3 DEF NeverLost
    <3>3. QED
      BY <3>1, <3>2
  <2>4. QED
    BY <2>2, <2>3
<1>13. KernelsEndProperly
  <2> SUFFICES ASSUME NEW j \in Kernels
               PROVE  /\ status'[j] = "unknown" => status[j] = "unknown" \/ drops'[j] > 0
                      /\ (status'[j] = "dead" /\ drops'[j] = 0) => status[j] = "dead" \/ Ended(j)'
    BY DEF KernelsEndProperly
  <2>1. CASE j # k
    BY <2>1
  <2>2. CASE j = k
    BY <1>10, <2>2
  <2>3. QED
    BY <2>1, <2>2
<1>14. QED
  BY <1>6, <1>11, <1>12, <1>13 DEF ProperStep

-----------------------------------------------------------------------------
(* A new request.                                                          *)

(* When requestExecute() finds no request to wait for, none is pending.    *)
LEMMA FreeChainIsIdle ==
    ASSUME TypeOK, ChainInv, NoLinkDue, ~ChainIsBusy, drops[kernel] = 0,
           NEW x \in OnKernel(kernel)
    PROVE  ~Pending(x)
<1>1. x \in Made /\ x \in Nat /\ request[x].kernel = kernel /\ kernel \in Kernels
      /\ nRequests \in Nat /\ kernel \in Nat
  BY Numbers, OnKernelFacts DEF OnKernel
<1>2. nRequests \in Made /\ (x = nRequests \/ x < nRequests)
  BY <1>1 DEF Made
<1>3. request[nRequests].kernel \in 1..kernel /\ request[x].kernel <= request[nRequests].kernel
  BY <1>1, <1>2 DEF ChainInv, RequestsHaveKernels
<1>4. request[nRequests].kernel = kernel
  BY <1>1, <1>3
<1>5. ~Pending(nRequests)
  BY <1>1, <1>2, <1>4 DEF ChainInv, ChainIsRemembered, ChainIsBusy, Made
<1>6. CASE Ended(kernel)
  BY <1>6, EndedKernelsAreIdle DEF ChainInv
<1>7. CASE InOrder(kernel)
  BY <1>1, <1>2, <1>4, <1>5, <1>7 DEF InOrder, OnKernel
<1>8. QED
  BY <1>1, <1>6, <1>7 DEF ChainInv, KernelsAreInOrderOrEnded

(* The request r it makes: held back by the last one, rejected, or sent.   *)
NewIsHeld(r) ==
    /\ r - 1 \in Made /\ Pending(r - 1) /\ request[r - 1].kernel = kernel
    /\ request'[r].linked /\ request'[r].link = r - 1 /\ request'[r].future = "none"
    /\ request'[r].done = IF status[kernel] = "ok" THEN "pending" ELSE "rejected"
    /\ previousExecute' = IF status[kernel] = "ok" THEN r ELSE None

Refused(r) ==
    /\ ~ChainIsBusy /\ status[kernel] = "dead"
    /\ ~request'[r].linked /\ request'[r].future = "none" /\ request'[r].done = "rejected"
    /\ previousExecute' = previousExecute

SentAtOnce(r) ==
    /\ ~ChainIsBusy /\ status[kernel] # "dead"
    /\ ~request'[r].linked /\ request'[r].future = "sent" /\ request'[r].done = "pending"
    /\ previousExecute' = r

AddsRequest(r) ==
    /\ r = nRequests + 1 /\ r \in Requests /\ r \notin Made
    /\ nRequests' = r /\ Made' = Made \cup {r}
    /\ \A x \in Requests : x # r => request'[x] = request[x]
    /\ request'[r].kernel = kernel
    /\ UNCHANGED <<kernel, status, drops>>
    /\ NewIsHeld(r) \/ Refused(r) \/ SentAtOnce(r)

LEMMA ExecuteAddsRequest ==
    ASSUME TypeOK, ChainInv, Execute
    PROVE  AddsRequest(nRequests + 1)
<1> DEFINE r == nRequests + 1
<1>1. /\ r \in Requests /\ r \notin Made /\ nRequests' = r /\ Made' = Made \cup {r}
      /\ r - 1 = nRequests
      /\ UNCHANGED <<kernel, status, drops>>
  BY Numbers DEF Execute, Made, TypeOK, Requests
<1>2. CASE ExecuteDelayed(r)
  <2>1. /\ previousExecute = nRequests /\ nRequests \in Made /\ Pending(nRequests)
        /\ request[nRequests].kernel = kernel
    BY <1>2, Numbers DEF ExecuteDelayed, ChainIsBusy, ChainInv, ChainIsRemembered, Made, None
  <2> DEFINE f == [NotMade EXCEPT !.kernel = kernel, !.link = previousExecute,
                       !.linked = TRUE, !.listens = TRUE,
                       !.done = IF status[kernel] = "ok" THEN "pending" ELSE "rejected"]
  <2>2. request' = [request EXCEPT ![r] = f]
    BY <1>2 DEF ExecuteDelayed
  <2>3. /\ f.kernel = kernel /\ f.link = previousExecute /\ f.linked /\ f.future = "none"
        /\ f.done = IF status[kernel] = "ok" THEN "pending" ELSE "rejected"
    BY DEF NotMade
  <2> HIDE DEF f
  <2>4. request'[r] = f /\ \A x \in Requests : x # r => request'[x] = request[x]
    BY <1>1, <2>2 DEF TypeOK
  <2>5. previousExecute' = IF status[kernel] = "ok" THEN r ELSE None
    BY <1>2 DEF ExecuteDelayed
  <2>6. NewIsHeld(r)
    BY <1>1, <2>1, <2>3, <2>4, <2>5 DEF NewIsHeld
  <2>7. QED
    BY <1>1, <2>3, <2>4, <2>6 DEF AddsRequest
<1>3. CASE ExecuteAtOnce(r) /\ status[kernel] = "dead"
  <2> DEFINE f == [NotMade EXCEPT !.kernel = kernel, !.done = "rejected"]
  <2>1. request' = [request EXCEPT ![r] = f]
    BY <1>3 DEF ExecuteAtOnce
  <2>2. f.kernel = kernel /\ ~f.linked /\ f.future = "none" /\ f.done = "rejected"
    BY DEF NotMade
  <2> HIDE DEF f
  <2>3. request'[r] = f /\ \A x \in Requests : x # r => request'[x] = request[x]
    BY <1>1, <2>1 DEF TypeOK
  <2>4. Refused(r)
    BY <1>3, <2>2, <2>3 DEF ExecuteAtOnce, Refused
  <2>5. QED
    BY <1>1, <2>2, <2>3, <2>4 DEF AddsRequest
<1>4. CASE ExecuteAtOnce(r) /\ status[kernel] # "dead"
  <2> DEFINE f == [NotMade EXCEPT !.kernel = kernel, !.future = "sent", !.ownedId = r]
  <2>1. request' = [request EXCEPT ![r] = f]
    BY <1>4 DEF ExecuteAtOnce
  <2>2. f.kernel = kernel /\ ~f.linked /\ f.future = "sent" /\ f.done = "pending"
    BY DEF NotMade
  <2> HIDE DEF f
  <2>3. request'[r] = f /\ \A x \in Requests : x # r => request'[x] = request[x]
    BY <1>1, <2>1 DEF TypeOK
  <2>4. SentAtOnce(r)
    BY <1>4, <2>2, <2>3 DEF ExecuteAtOnce, SentAtOnce
  <2>5. QED
    BY <1>1, <2>2, <2>3, <2>4 DEF AddsRequest
<1>5. QED
  BY <1>2, <1>3, <1>4 DEF Execute

LEMMA AddingKeepsInv ==
    ASSUME TypeOK, TypeOK', ChainInv, NoLinkDue, NEW r, AddsRequest(r)
    PROVE  ChainInv'
<1> USE DEF AddsRequest
<1>1. /\ Made \subseteq Requests /\ r \in Nat /\ kernel \in Kernels /\ kernel \in Nat
      /\ \A x \in Made : x \in Nat /\ x < r /\ x # r /\ request'[x] = request[x]
  BY Numbers DEF Made
<1>2. RequestsHaveKernels'
  <2>1. \A x \in Requests \ Made' : request'[x] = NotMade
    BY DEF ChainInv, RequestsHaveKernels
  <2>2. \A x \in Made' : request'[x].kernel \in 1..kernel'
    BY <1>1 DEF ChainInv, RequestsHaveKernels, Kernels
  <2>3. \A x, t \in Made' : x < t => request'[x].kernel <= request'[t].kernel
    BY <1>1 DEF ChainInv, RequestsHaveKernels
  <2>4. QED
    BY <2>1, <2>2, <2>3 DEF RequestsHaveKernels
<1>3. LinksAreInOrder'
  <2> SUFFICES ASSUME NEW x \in Made'
               PROVE  /\ request'[x].linked =>
                            /\ request'[x].link = x - 1 /\ x - 1 \in Made'
                            /\ request'[x - 1].kernel = request'[x].kernel
                            /\ request'[x].future = "none"
                      /\ request'[x].done = "pending" =>
                            request'[x].linked \/ request'[x].future = "sent"
                      /\ (request'[x].linked /\ NeverLost(x)' /\ request'[x].done # "pending")
                            => request'[x - 1].done # "resolved"
    BY DEF LinksAreInOrder, SameKernel, Pending
  <2>1. CASE x \in Made
    <3>1. /\ request[x].linked => /\ request[x].link = x - 1 /\ x - 1 \in Made
                                  /\ request[x - 1].kernel = request[x].kernel
                                  /\ request[x].future = "none"
          /\ request[x].done = "pending" => request[x].linked \/ request[x].future = "sent"
          /\ (request[x].linked /\ drops[request[x].kernel] = 0 /\ request[x].done # "pending")
                => request[x - 1].done # "resolved"
      BY <2>1 DEF ChainInv, LinksAreInOrder, SameKernel, Pending, NeverLost
    <3>2. QED
      BY <1>1, <2>1, <3>1 DEF NeverLost
  <2>2. CASE x = r /\ NewIsHeld(r)
    BY <1>1, <2>2 DEF NewIsHeld, Pending
  <2>3. CASE x = r /\ (Refused(r) \/ SentAtOnce(r))
    BY <2>3 DEF Refused, SentAtOnce
  <2>4. QED
    BY <2>1, <2>2, <2>3
<1>4. ChainIsRemembered'
  <2> SUFFICES /\ previousExecute' # None =>
                    /\ request'[previousExecute'].done = "pending"
                    /\ request'[previousExecute'].kernel = kernel => previousExecute' = r
               /\ request'[r].done = "pending" => previousExecute' = r
    BY DEF ChainIsRemembered, Pending
  <2>1. CASE NewIsHeld(r)
    BY <2>1 DEF NewIsHeld, None
  <2>2. CASE Refused(r)
    <3>1. previousExecute # None =>
             /\ previousExecute \in Made /\ request[previousExecute].done = "pending"
             /\ request[previousExecute].kernel # kernel
      BY <2>2, Numbers DEF Refused, ChainInv, ChainIsRemembered, Pending, ChainIsBusy
    <3>2. QED
      BY <1>1, <2>2, <3>1 DEF Refused
  <2>3. CASE SentAtOnce(r)
    BY <2>3 DEF SentAtOnce
  <2>4. QED
    BY <2>1, <2>2, <2>3
<1>5. WhatRunsIsAwaited'
  BY <1>1 DEF ChainInv, WhatRunsIsAwaited, Pending, NeverLost, NewIsHeld, Refused, SentAtOnce
<1>6. SentInOrder'
  <2> SUFFICES ASSUME NEW x \in Made', NEW t \in Made', x < t,
                      request'[x].kernel = request'[t].kernel,
                      drops[request'[t].kernel] = 0, request'[t].future = "sent"
               PROVE  request'[x].done # "pending"
    BY DEF SentInOrder, SameKernel, NeverLost, Pending
  <2>1. x \in Made
    BY <1>1
  <2>2. CASE t \in Made
    BY <1>1, <2>1, <2>2 DEF ChainInv, SentInOrder, SameKernel, NeverLost, Pending
  <2>3. CASE t = r
    <3>1. SentAtOnce(r)
      BY <2>3 DEF NewIsHeld, Refused
    <3>2. x \in OnKernel(kernel) /\ drops[kernel] = 0
      BY <1>1, <2>1, <2>3 DEF OnKernel
    <3>3. ~Pending(x)
      BY <3>1, <3>2, FreeChainIsIdle DEF SentAtOnce
    <3>4. QED
      BY <1>1, <2>1, <3>3 DEF Pending
  <2>4. QED
    BY <2>2, <2>3
<1>7. KernelsAreInOrderOrEnded'
  <2> SUFFICES ASSUME NEW k \in Kernels, drops[k] = 0
               PROVE  /\ InOrder(k)' \/ Ended(k)'
                      /\ status[k] = "dead" => Ended(k)'
    BY DEF KernelsAreInOrderOrEnded, ChainInv
  <2>1. /\ InOrder(k) \/ Ended(k)
        /\ status[k] = "dead" => Ended(k)
        /\ status[k] # "unknown"
    BY DEF KernelsAreInOrderOrEnded, ChainInv
  <2>2. ASSUME Ended(k), request'[r].done # "pending" \/ k # kernel
        PROVE  Ended(k)'
    <3> SUFFICES ASSUME NEW x \in Made', request'[x].kernel = k, request'[x].done = "pending"
                 PROVE  request'[x].linked /\ request'[x - 1].done # "resolved"
      BY DEF Ended, OnKernel, Pending
    <3>1. x \in Made /\ request'[x] = request[x]
      BY <1>1, <2>2
    <3>2. request[x].linked /\ request[x - 1].done # "resolved" /\ x - 1 \in Made
      BY <2>2, <3>1 DEF Ended, OnKernel, Pending, ChainInv, LinksAreInOrder
    <3>3. QED
      BY <1>1, <3>1, <3>2
  <2>3. ASSUME InOrder(k), \/ k # kernel
                           \/ request'[r].done = "pending"
                           \/ \A x \in OnKernel(kernel) : ~Pending(x)
        PROVE  InOrder(k)'
    <3> SUFFICES ASSUME NEW x \in Made', NEW t \in Made', request'[x].kernel = k,
                        request'[t].kernel = k, x < t, request'[t].done # "pending"
                 PROVE  request'[x].done # "pending"
      BY DEF InOrder, OnKernel, Pending
    <3>1. x \in Made /\ request'[x] = request[x] /\ x \in OnKernel(k)
      BY <1>1 DEF OnKernel
    <3>2. CASE t \in Made
      BY <1>1, <2>3, <3>1, <3>2 DEF InOrder, OnKernel, Pending
    <3>3. CASE t = r
      BY <2>3, <3>1, <3>3 DEF Pending
    <3>4. QED
      BY <3>2, <3>3
  <2>4. CASE k # kernel
    BY <2>1, <2>2, <2>3, <2>4
  <2>5. CASE k = kernel /\ NewIsHeld(r)
    <3>1. ~Ended(k)
      <4>1. r - 1 \in OnKernel(k) /\ Pending(r - 1)
        BY <2>5 DEF NewIsHeld, OnKernel
      <4>2. QED
        BY <4>1, EndedKernelsAreIdle DEF ChainInv
    <3>2. status[k] = "ok"
      BY <2>1, <3>1 DEF TypeOK
    <3>3. QED
      BY <2>1, <2>3, <2>5, <3>1, <3>2 DEF NewIsHeld
  <2>6. CASE k = kernel /\ Refused(r)
    BY <2>1, <2>2, <2>6 DEF Refused
  <2>7. CASE k = kernel /\ SentAtOnce(r)
    <3>1. \A x \in OnKernel(kernel) : ~Pending(x)
      BY <2>7, FreeChainIsIdle DEF SentAtOnce
    <3>2. InOrder(k)
      BY <2>7, <3>1 DEF InOrder
    <3>3. QED
      BY <2>3, <2>7, <3>2 DEF SentAtOnce
  <2>8. QED
    BY <2>4, <2>5, <2>6, <2>7
<1>8. QED
  BY <1>2, <1>3, <1>4, <1>5, <1>6, <1>7 DEF ChainInv

-----------------------------------------------------------------------------
LEMMA InitialInv ==
    ASSUME Init
    PROVE  ChainInv
<1>1. Made = {} /\ previousExecute = None /\ \A r \in Requests : request[r] = NotMade
  BY DEF Init, Made
<1>2. RequestsHaveKernels /\ LinksAreInOrder /\ SentInOrder /\ WhatRunsIsAwaited
  BY <1>1 DEF RequestsHaveKernels, LinksAreInOrder, SentInOrder, WhatRunsIsAwaited
<1>3. ChainIsRemembered
  BY <1>1 DEF ChainIsRemembered, Init
<1>4. KernelsAreInOrderOrEnded
  BY <1>1 DEF KernelsAreInOrderOrEnded, InOrder, Ended, OnKernel, Init
<1>5. QED
  BY <1>2, <1>3, <1>4 DEF ChainInv

LEMMA InvIsKept ==
    ASSUME TypeOK, ChainInv, [Next]_vars
    PROVE  ChainInv'
<1>0. TypeOK'
  BY TypesAreKept
<1>1. CASE Execute
  BY <1>0, <1>1, ExecuteAddsRequest, AddingKeepsInv DEF Execute
<1>2. CASE SwitchKernel
  <2>1. RequestsAge
    BY <1>2 DEF SwitchKernel, RequestsAge
  <2>2. previousExecute # None => request[previousExecute].done = "pending"
    BY DEF ChainInv, ChainIsRemembered, Pending
  <2>3. Ages
    BY <1>2, <2>1, <2>2 DEF SwitchKernel, Ages
  <2>4. SettlesProperly
    BY <1>2 DEF SwitchKernel, SettlesProperly, ChainInv, LinksAreInOrder, Pending
  <2>5. SendsProperly /\ KernelsEndProperly
    BY <1>2 DEF SwitchKernel, SendsProperly, KernelsEndProperly, Pending
  <2>6. QED
    BY <1>0, <2>3, <2>4, <2>5, ProperStepKeepsInv DEF ProperStep
<1>3. ASSUME NEW r \in Requests, LinkSettles(r) \/ Dispose(r) \/ Reply(r)
      PROVE  ChainInv'
  BY <1>0, <1>3, LinkSettlesIsProper, DisposeIsProper, ReplyIsProper, ProperStepKeepsInv
<1>4. ASSUME NEW k \in Kernels, KernelDies(k) \/ KernelRestartsInPlace(k)
      PROVE  ChainInv'
  <2>1. /\ NoLinkDue /\ StatusEnds(k, TRUE) /\ drops' = drops
        /\ \E st \in {"dead", "ok"} : status' = [status EXCEPT ![k] = st]
    BY <1>4 DEF KernelDies, KernelRestartsInPlace
  <2>2. /\ \A j \in Kernels : j # k => status'[j] = status[j]
        /\ status'[k] # "unknown"
    BY <2>1 DEF TypeOK
  <2>3. ProperStep
    BY <2>1, <2>2, StatusEndsIsProper
  <2>4. QED
    BY <1>0, <2>3, ProperStepKeepsInv
<1>5. ASSUME NEW k \in Kernels, ConnectionLost(k)
      PROVE  ChainInv'
  <2>1. NoLinkDue /\ StatusEnds(k, FALSE)
    BY <1>5 DEF ConnectionLost
  <2>2. /\ drops'[k] > 0
        /\ \A j \in Kernels : j # k => status'[j] = status[j] /\ drops'[j] = drops[j]
    BY <1>5 DEF ConnectionLost, TypeOK
  <2>3. drops'[k] = 0 => drops[k] = 0
    BY <2>2
  <2>4. ProperStep
    BY <2>1, <2>2, <2>3, StatusEndsIsProper
  <2>5. QED
    BY <1>0, <2>4, ProperStepKeepsInv
<1>6. ASSUME NEW k \in Kernels, ConnectionBack(k)
      PROVE  ChainInv'
  <2>1. \A j \in Kernels : status'[j] \in {status[j], "ok"}
    BY <1>6 DEF ConnectionBack, TypeOK
  <2>2. SameForInv
    BY <1>6, <2>1 DEF ConnectionBack, SameForInv
  <2>3. QED
    BY <1>0, <2>2, SameForInvKeepsInv
<1>7. CASE UNCHANGED vars
  <2>1. SameForInv
    BY <1>7 DEF vars, SameForInv
  <2>2. QED
    BY <1>0, <2>1, SameForInvKeepsInv
<1>8. QED
  BY <1>1, <1>2, <1>3, <1>4, <1>5, <1>6, <1>7 DEF Next

(* Every reachable state is well typed and satisfies the invariant.        *)
THEOREM ChainIsInvariant == Spec => [](TypeOK /\ ChainInv)
<1>1. Init => TypeOK /\ ChainInv
  BY InitialTypes, InitialInv
<1>2. TypeOK /\ ChainInv /\ [Next]_vars => (TypeOK /\ ChainInv)'
  BY TypesAreKept, InvIsKept
<1>3. QED
  BY <1>1, <1>2, PTL DEF Spec

(* One request at a time is sent to a kernel.                              *)
THEOREM RequestsRunOneAtATime == Spec => []OneRequestAtATime
<1>1. TypeOK /\ ChainInv => OneRequestAtATime
  <2> SUFFICES ASSUME TypeOK, ChainInv
               PROVE  OneRequestAtATime
    OBVIOUS
  <2> SUFFICES ASSUME NEW r \in Made, NEW t \in Made,
                      SameKernel(r, t), NeverLost(r),
                      request[r].future = "sent", request[t].future = "sent", r < t
               PROVE  FALSE
    <3>1. \A r, t \in Made : r < t \/ r = t \/ t < r
      BY Numbers
    <3>2. QED
      BY <3>1 DEF OneRequestAtATime, SameKernel, NeverLost
  <2>1. ~Pending(r)
    BY DEF ChainInv, SentInOrder, SameKernel, NeverLost
  <2>2. Pending(r)
    BY DEF ChainInv, WhatRunsIsAwaited
  <2>3. QED
    BY <2>1, <2>2
<1>2. QED
  BY <1>1, ChainIsInvariant, PTL

(* What a kernel runs is awaited by its cell.                              *)
THEOREM RunningCodeIsAwaited == Spec => []WhatRunsIsAwaited
<1>1. ChainInv => WhatRunsIsAwaited
  BY DEF ChainInv
<1>2. QED
  BY <1>1, ChainIsInvariant, PTL

(* The requests of a kernel are done in the order they were made.          *)
THEOREM RequestsEndInOrder == Spec => []DoneInOrder
<1>1. TypeOK /\ ChainInv => DoneInOrder
  <2> SUFFICES ASSUME TypeOK, ChainInv, NoLinkDue, NEW r \in Made, NEW t \in Made,
                      r < t, SameKernel(r, t), NeverLost(r), ~Pending(t)
               PROVE  ~Pending(r)
    BY DEF DoneInOrder
  <2> DEFINE k == request[r].kernel
  <2>1. k \in Kernels /\ drops[k] = 0 /\ r \in OnKernel(k) /\ t \in OnKernel(k)
    BY OnKernelFacts DEF NeverLost, SameKernel, OnKernel
  <2>2. CASE InOrder(k)
    BY <2>1, <2>2 DEF InOrder
  <2>3. CASE Ended(k)
    BY <2>1, <2>3, EndedKernelsAreIdle DEF ChainInv
  <2>4. QED
    BY <2>1, <2>2, <2>3 DEF ChainInv, KernelsAreInOrderOrEnded
<1>2. QED
  BY <1>1, ChainIsInvariant, PTL

-----------------------------------------------------------------------------
(***************************************************************************)
(* The outputs of cells.                                                   *)
(***************************************************************************)
HIDE BoundsAssumption

-----------------------------------------------------------------------------
(* Sequences of steps.  What is defined by recursion over the edits or the *)
(* outputs of a cell exists, and has the values its equation gives it.     *)
LEMMA LeastNumber ==
  ASSUME NEW T \in SUBSET Nat, T # {}
  PROVE  \E n \in T : \A m \in T : n <= m
<1> DEFINE R == OpToRel(<, Nat)
<1>1. IsWellFoundedOn(R, Nat)
  BY NatLessThanWellFounded
<1>2. \A x, y \in Nat : y < x => <<y, x>> \in R
  BY DEF OpToRel
<1> HIDE DEF R
<1>3. \E x \in T : \A y \in T : <<y, x>> \notin R
  BY <1>1, WFMin
<1>4. PICK n \in T : \A y \in T : <<y, n>> \notin R
  BY <1>3
<1>5. ASSUME NEW m \in T PROVE n <= m
  <2>1. ~ (m < n)
    BY <1>2, <1>4
  <2>2. m \in Nat /\ n \in Nat
    OBVIOUS
  <2> QED BY <2>1, <2>2
<1> QED BY <1>5

(* A set of numbers up to N that has 0, and n where it has n - 1, has all. *)
LEMMA UpTo ==
  ASSUME NEW N \in Nat, NEW T, 0 \in T, \A n \in 1..N : n - 1 \in T => n \in T
  PROVE  0..N \subseteq T
<1> SUFFICES ASSUME 0..N \ T # {} PROVE FALSE
  OBVIOUS
<1>1. PICK n \in 0..N \ T : \A m \in 0..N \ T : n <= m
  <2> DEFINE U == 0..N \ T
  <2>1. U \in SUBSET Nat /\ U # {}
    OBVIOUS
  <2> HIDE DEF U
  <2>2. \E n \in U : \A m \in U : n <= m
    BY <2>1, LeastNumber
  <2> QED BY <2>2 DEF U
<1>2. n \in 1..N /\ n - 1 \in 0..N /\ ~ (n <= n - 1)
  OBVIOUS
<1>3. n - 1 \in T
  BY <1>1, <1>2
<1> QED BY <1>2, <1>3

(* From a there is a sequence of values that goes on by step[n].           *)
Goes(N, S, a, step) ==
  \E f \in [0..N -> S] : f[0] = a /\ \A n \in 1..N : f[n] = step[n][f[n - 1]]

LEMMA StepsExist ==
  ASSUME NEW N \in Nat, NEW S, NEW a \in S, NEW step \in [1..N -> [S -> S]]
  PROVE  Goes(N, S, a, step)
<1> DEFINE Follows(f, m) == f[0] = a /\ \A n \in 1..m : f[n] = step[n][f[n - 1]]
           T == {m \in 0..N : \E f \in [0..m -> S] : Follows(f, m)}
<1>1. 0 \in T
  <2> DEFINE h == [i \in 0..0 |-> a]
  <2>1. h \in [0..0 -> S]
    OBVIOUS
  <2>2. Follows(h, 0)
    OBVIOUS
  <2> HIDE DEF h, Follows
  <2>3. \E f \in [0..0 -> S] : Follows(f, 0)
    BY <2>1, <2>2
  <2> QED BY <2>3
<1>2. ASSUME NEW m \in 1..N, m - 1 \in T PROVE m \in T
  <2>1. PICK f \in [0..(m - 1) -> S] : Follows(f, m - 1)
    BY <1>2
  <2> DEFINE g == [i \in 0..m |-> IF i = m THEN step[m][f[m - 1]] ELSE f[i]]
  <2>2. f[m - 1] \in S /\ step[m] \in [S -> S]
    OBVIOUS
  <2>3. g \in [0..m -> S]
    <3>1. \A i \in 0..m : i # m => i \in 0..(m - 1)
      OBVIOUS
    <3> QED BY <2>2, <3>1
  <2>4. g[0] = a
    BY <2>1
  <2>5. ASSUME NEW n \in 1..m PROVE g[n] = step[n][g[n - 1]]
    <3>1. g[n - 1] = f[n - 1]
      OBVIOUS
    <3>2. CASE n = m
      BY <3>1, <3>2
    <3>3. CASE n # m
      <4>1. n \in 1..(m - 1) /\ g[n] = f[n]
        BY <3>3
      <4> QED BY <2>1, <3>1, <4>1
    <3> QED BY <3>2, <3>3
  <2>6. Follows(g, m)
    BY <2>4, <2>5
  <2> HIDE DEF g, Follows
  <2>7. \E h \in [0..m -> S] : Follows(h, m)
    BY <2>3, <2>6
  <2>8. m \in 0..N
    OBVIOUS
  <2> QED BY <2>7, <2>8
<1>3. N \in T
  <2>1. \A m \in 1..N : m - 1 \in T => m \in T
    BY <1>2
  <2> HIDE DEF T
  <2>2. 0..N \subseteq T
    BY <1>1, <2>1, UpTo
  <2>3. N \in 0..N
    OBVIOUS
  <2> QED BY <2>2, <2>3
<1> QED BY <1>3 DEF Goes

-----------------------------------------------------------------------------
(* The document after edits.                                               *)
Documents == [Cells -> Seq(CellOutput)]
Edits == [op : {"replace", "append", "items"}, cell : Cells, outputs : Seq(CellOutput),
          start : 0..MaxRuns]
GoodEdits == {e \in Edits : e.op = "items" => Len(e.outputs) = 1}

LEMMA OutputFields ==
  ASSUME NEW o \in CellOutput, NEW text \in Seq(Chunks)
  PROVE  /\ o.text \in Seq(Chunks) /\ o.id \in Chunks
         /\ [o EXCEPT !.text = text] \in CellOutput
         /\ [o EXCEPT !.text = text].text = text
         /\ [o EXCEPT !.text = text].id = o.id
         /\ [o EXCEPT !.text = text].kind = o.kind
         /\ [o EXCEPT !.text = text].by = o.by
         /\ [o EXCEPT !.text = text].display = o.display
<1> DEFINE S == Seq(Chunks) 
           K == Streams \cup {"data", "error"}
           D == Displays \cup {NoDisplay}
           I == Chunks
<1> HIDE DEF S, K, D, I
<1>1. CellOutput = [id : I, kind : K, by : 1..MaxRuns, display : D, text : S] /\ text \in S
  BY DEF CellOutput, S, K, D, I
<1> QED BY <1>1 DEF S, I

LEMMA WithTextType ==
  ASSUME NEW s \in Seq(CellOutput), NEW id, NEW text \in Seq(Chunks)
  PROVE  /\ WithText(s, id, text) \in Seq(CellOutput)
         /\ Len(WithText(s, id, text)) = Len(s) /\ DOMAIN WithText(s, id, text) = DOMAIN s
         /\ \A i \in DOMAIN s :
               WithText(s, id, text)[i] = IF s[i].id = id THEN [s[i] EXCEPT !.text = text]
                                          ELSE s[i]
<1>1. WithText(s, id, text) = [i \in 1..Len(s) |->
         IF s[i].id = id THEN [s[i] EXCEPT !.text = text] ELSE s[i]]
  BY DEF WithText
<1>2. ASSUME NEW i \in 1..Len(s)
      PROVE  [s[i] EXCEPT !.text = text] \in CellOutput /\ s[i] \in CellOutput
  <2>1. s[i] \in CellOutput
    OBVIOUS
  <2> QED BY <2>1, OutputFields
<1>3. \A i \in 1..Len(s) :
         (IF s[i].id = id THEN [s[i] EXCEPT !.text = text] ELSE s[i]) \in CellOutput
  BY <1>2
<1> QED BY <1>1, <1>3

LEMMA EditedType ==
  ASSUME NEW document \in Documents, NEW e \in GoodEdits
  PROVE  Edited(document, e) \in Documents
<1>1. e.cell \in Cells /\ e.outputs \in Seq(CellOutput)
  BY DEF GoodEdits, Edits
<1>2. CASE e.op = "replace"
  BY <1>1, <1>2 DEF Edited, Documents
<1>3. CASE e.op = "append"
  BY <1>1, <1>3 DEF Edited, Documents
<1>4. CASE e.op = "items"
  <2>1. e.outputs[1].text \in Seq(Chunks)
    <3>1. Len(e.outputs) = 1
      BY <1>4 DEF GoodEdits
    <3>2. e.outputs[1] \in CellOutput
      BY <1>1, <3>1
    <3>3. <<>> \in Seq(Chunks)
      OBVIOUS
    <3> QED BY <3>2, <3>3, OutputFields
  <2>2. Edited(document, e)
          = [c \in Cells |-> WithText(document[c], e.outputs[1].id, e.outputs[1].text)]
    BY <1>4 DEF Edited
  <2> QED BY <2>1, <2>2, WithTextType DEF Documents
<1> QED BY <1>2, <1>3, <1>4 DEF GoodEdits, Edits

(* The edits one after the other, as a function of how many were made.     *)
LEMMA AppliedHas ==
  ASSUME NEW document \in Documents, NEW es \in Seq(GoodEdits)
  PROVE  \E f \in [0..Len(es) -> Documents] :
            /\ f[0] = document
            /\ \A n \in 1..Len(es) : f[n] = Edited(f[n - 1], es[n])
            /\ Applied(document, es) = f[Len(es)]
<1> DEFINE N == Len(es)
           step == [n \in 1..N |-> [x \in Documents |-> Edited(x, es[n])]]
           Is(f) == f = [n \in 0..N |-> IF n = 0 THEN document ELSE Edited(f[n - 1], es[n])]
<1>1. N \in Nat
  OBVIOUS
<1>2. step \in [1..N -> [Documents -> Documents]]
  <2>1. \A n \in 1..N : es[n] \in GoodEdits
    OBVIOUS
  <2> QED BY <2>1, EditedType
<1>3. PICK f \in [0..N -> Documents] : f[0] = document /\ \A n \in 1..N : f[n] = step[n][f[n - 1]]
  <2> HIDE DEF step, N
  <2>1. document \in Documents
    OBVIOUS
  <2> HIDE DEF Documents
  <2>2. Goes(N, Documents, document, step)
    BY <1>1, <1>2, <2>1, StepsExist
  <2> QED BY <2>2 DEF Goes
<1>4. \A n \in 1..N : f[n - 1] \in Documents /\ f[n] = Edited(f[n - 1], es[n])
  BY <1>3
<1>5. Is(f)
  <2>1. \A n \in 0..N : n # 0 => n \in 1..N
    OBVIOUS
  <2> QED BY <1>3, <1>4, <2>1
<1>6. PICK g : Is(g) /\ Applied(document, es) = g[N]
  <2>1. Applied(document, es) = (CHOOSE h : Is(h))[N]
    BY DEF Applied
  <2>2. Is(CHOOSE h : Is(h))
    BY <1>5
  <2> QED BY <2>1, <2>2
<1>7. /\ g[0] = document
      /\ \A n \in 1..N : g[n] = Edited(g[n - 1], es[n])
  <2> HIDE DEF N
  <2>1. 0 \in 0..N /\ \A n \in 1..N : n \in 0..N /\ n # 0
    BY <1>1
  <2> QED BY <1>6, <2>1
<1>8. \A n \in 0..N : g[n] = f[n]
  <2> DEFINE T == {n \in 0..N : g[n] = f[n]}
  <2>1. 0 \in T /\ \A n \in 1..N : n - 1 \in T => n \in T
    BY <1>3, <1>4, <1>7
  <2> HIDE DEF T, N
  <2>2. 0..N \subseteq T
    BY <1>1, <2>1, UpTo
  <2> QED BY <2>2 DEF T
<1> QED BY <1>1, <1>3, <1>4, <1>6, <1>8

LEMMA AppliedIs ==
  ASSUME NEW document \in Documents, NEW es \in Seq(GoodEdits), NEW f, f[0] = document,
         \A n \in 1..Len(es) : f[n] = Edited(f[n - 1], es[n])
  PROVE  Applied(document, es) = f[Len(es)]
<1> DEFINE N == Len(es)
<1>1. PICK g \in [0..N -> Documents] :
            /\ g[0] = document
            /\ \A n \in 1..N : g[n] = Edited(g[n - 1], es[n])
            /\ Applied(document, es) = g[N]
  BY AppliedHas
<1> DEFINE T == {n \in 0..N : f[n] = g[n]}
<1>2. N \in Nat
  OBVIOUS
<1>3. 0 \in T /\ \A n \in 1..N : n - 1 \in T => n \in T
  <2> HIDE DEF N
  <2>1. \A n \in 1..N : f[n] = Edited(f[n - 1], es[n])
    BY DEF N
  <2>2. 0 \in 0..N /\ \A n \in 1..N : n \in 0..N
    BY <1>2
  <2> QED BY <1>1, <2>1, <2>2
<1> HIDE DEF T, N
<1>4. 0..N \subseteq T
  BY <1>2, <1>3, UpTo
<1>5. N \in T
  BY <1>2, <1>4
<1> QED BY <1>1, <1>5 DEF T, N

LEMMA AppliedType ==
  ASSUME NEW document \in Documents, NEW es \in Seq(GoodEdits)
  PROVE  Applied(document, es) \in Documents
<1>1. \E f \in [0..Len(es) -> Documents] : Applied(document, es) = f[Len(es)]
  BY AppliedHas
<1>2. Len(es) \in 0..Len(es)
  OBVIOUS
<1> HIDE DEF Documents
<1> QED BY <1>1, <1>2

LEMMA AppliedEmpty ==
  ASSUME NEW document \in Documents
  PROVE  Applied(document, <<>>) = document
<1>1. <<>> \in Seq(GoodEdits) /\ Len(<<>>) = 0
  OBVIOUS
<1>2. \E f \in [0..Len(<<>>) -> Documents] :
            f[0] = document /\ Applied(document, <<>>) = f[Len(<<>>)]
  BY <1>1, AppliedHas
<1> QED BY <1>1, <1>2

LEMMA AppliedAppend ==
  ASSUME NEW document \in Documents, NEW es \in Seq(GoodEdits), NEW e \in GoodEdits
  PROVE  Applied(document, Append(es, e)) = Edited(Applied(document, es), e)
<1> DEFINE more == Append(es, e)
           N == Len(es)
<1>1. /\ more \in Seq(GoodEdits) /\ N \in Nat /\ Len(more) = N + 1
      /\ more[N + 1] = e /\ \A n \in 1..N : more[n] = es[n]
  OBVIOUS
<1> HIDE DEF more
<1>2. PICK g \in [0..Len(more) -> Documents] :
            /\ g[0] = document
            /\ \A n \in 1..Len(more) : g[n] = Edited(g[n - 1], more[n])
            /\ Applied(document, more) = g[Len(more)]
  BY <1>1, AppliedHas
<1>3. \A n \in 1..N : g[n] = Edited(g[n - 1], es[n])
  <2> HIDE DEF N
  <2>1. \A n \in 1..N : n \in 1..(N + 1)
    BY <1>1
  <2> QED BY <1>1, <1>2, <2>1
<1>4. Applied(document, es) = g[N]
  BY <1>2, <1>3, AppliedIs
<1>5. Applied(document, more) = Edited(g[N], e)
  <2> HIDE DEF N
  <2>1. N + 1 \in 1..(N + 1) /\ (N + 1) - 1 = N
    BY <1>1
  <2> QED BY <1>1, <1>2, <2>1
<1> QED BY <1>4, <1>5 DEF more

LEMMA AppliedSplit ==
  ASSUME NEW document \in Documents, NEW es \in Seq(GoodEdits), NEW n \in 0..Len(es)
  PROVE  /\ SubSeq(es, 1, n) \in Seq(GoodEdits) /\ SubSeq(es, n + 1, Len(es)) \in Seq(GoodEdits)
         /\ Applied(document, SubSeq(es, 1, n)) \in Documents
         /\ Applied(Applied(document, SubSeq(es, 1, n)), SubSeq(es, n + 1, Len(es)))
              = Applied(document, es)
<1> DEFINE N == Len(es)
           first == SubSeq(es, 1, n)
           rest == SubSeq(es, n + 1, N)
<1>1. /\ first \in Seq(GoodEdits) /\ Len(first) = n
      /\ \A k \in 1..n : first[k] = es[k]
  OBVIOUS
<1>2. /\ rest \in Seq(GoodEdits) /\ Len(rest) = N - n
      /\ \A k \in 1..(N - n) : rest[k] = es[n + k]
  OBVIOUS
<1>3. N \in Nat /\ n \in 0..N
  OBVIOUS
<1>4. PICK g \in [0..N -> Documents] :
            /\ g[0] = document
            /\ \A k \in 1..N : g[k] = Edited(g[k - 1], es[k])
            /\ Applied(document, es) = g[N]
  BY AppliedHas
<1> HIDE DEF N, first, rest, Documents
<1>5. Applied(document, first) = g[n]
  <2>1. \A k \in 1..Len(first) : g[k] = Edited(g[k - 1], first[k])
    BY <1>1, <1>3, <1>4
  <2> QED BY <1>1, <1>4, <2>1, AppliedIs
<1>6. g[n] \in Documents
  BY <1>3, <1>4
<1>7. Applied(g[n], rest) = g[N]
  <2> DEFINE h == [k \in 0..(N - n) |-> g[n + k]]
  <2>1. h[0] = g[n] /\ h[N - n] = g[N]
    BY <1>3
  <2>2. ASSUME NEW k \in 1..Len(rest) PROVE h[k] = Edited(h[k - 1], rest[k])
    <3>1. /\ k \in 1..(N - n) /\ k - 1 \in 0..(N - n) /\ k \in 0..(N - n)
          /\ n + k \in 1..N /\ n + (k - 1) = (n + k) - 1
      BY <1>2, <1>3
    <3>2. h[k] = g[n + k] /\ h[k - 1] = g[(n + k) - 1]
      BY <3>1
    <3> QED BY <1>2, <1>4, <3>1, <3>2
  <2> HIDE DEF h
  <2>3. \A k \in 1..Len(rest) : h[k] = Edited(h[k - 1], rest[k])
    BY <2>2
  <2>4. Applied(g[n], rest) = h[Len(rest)]
    BY <1>2, <1>6, <2>1, <2>3, AppliedIs
  <2> QED BY <1>2, <2>1, <2>4
<1> QED BY <1>1, <1>2, <1>4, <1>5, <1>6, <1>7 DEF first, rest, N

-----------------------------------------------------------------------------
(* The sequences of a sequence, one after the other.                       *)
LEMMA FlattenedHas ==
  ASSUME NEW S, NEW ss \in Seq(Seq(S))
  PROVE  \E f \in [0..Len(ss) -> Seq(S)] :
            /\ f[0] = <<>>
            /\ \A n \in 1..Len(ss) : f[n] = f[n - 1] \o ss[n]
            /\ Flattened(ss) = f[Len(ss)]
<1> DEFINE N == Len(ss)
           Q == Seq(S)
           step == [n \in 1..N |-> [x \in Q |-> x \o ss[n]]]
           Is(f) == f = [n \in 0..N |-> IF n = 0 THEN <<>> ELSE f[n - 1] \o ss[n]]
<1>1. N \in Nat
  OBVIOUS
<1>2. step \in [1..N -> [Q -> Q]]
  <2>1. \A n \in 1..N : ss[n] \in Q
    OBVIOUS
  <2>2. \A x, y \in Q : x \o y \in Q
    OBVIOUS
  <2> HIDE DEF Q
  <2> QED BY <2>1, <2>2
<1>3. PICK f \in [0..N -> Q] : f[0] = <<>> /\ \A n \in 1..N : f[n] = step[n][f[n - 1]]
  <2>1. <<>> \in Q
    OBVIOUS
  <2> HIDE DEF step, N, Q
  <2>2. Goes(N, Q, <<>>, step)
    BY <1>1, <1>2, <2>1, StepsExist
  <2> QED BY <2>2 DEF Goes
<1>4. \A n \in 1..N : f[n - 1] \in Q /\ f[n] = f[n - 1] \o ss[n]
  <2> HIDE DEF Q, N
  <2>1. \A n \in 1..N : n - 1 \in 0..N
    BY <1>1
  <2> QED BY <1>3, <2>1
<1>5. Is(f)
  <2> HIDE DEF Q, N
  <2>1. \A n \in 0..N : n # 0 => n \in 1..N
    BY <1>1
  <2> QED BY <1>3, <1>4, <2>1
<1>6. PICK g : Is(g) /\ Flattened(ss) = g[N]
  <2>1. Flattened(ss) = (CHOOSE h : Is(h))[N]
    BY DEF Flattened
  <2>2. Is(CHOOSE h : Is(h))
    BY <1>5
  <2> QED BY <2>1, <2>2
<1>7. /\ g[0] = <<>>
      /\ \A n \in 1..N : g[n] = g[n - 1] \o ss[n]
  <2> HIDE DEF N
  <2>1. 0 \in 0..N /\ \A n \in 1..N : n \in 0..N /\ n # 0
    BY <1>1
  <2> QED BY <1>6, <2>1
<1>8. \A n \in 0..N : g[n] = f[n]
  <2> DEFINE T == {n \in 0..N : g[n] = f[n]}
  <2> HIDE DEF N, Q
  <2>1. 0 \in T
    BY <1>1, <1>3, <1>7
  <2>2. \A n \in 1..N : n - 1 \in T => n \in T
    <3>1. \A n \in 1..N : n \in 0..N
      BY <1>1
    <3> QED BY <1>4, <1>7, <3>1
  <2> HIDE DEF T
  <2>3. 0..N \subseteq T
    BY <1>1, <2>1, <2>2, UpTo
  <2> QED BY <2>3 DEF T
<1>9. f[N] = g[N]
  <2>1. N \in 0..N
    BY <1>1
  <2> HIDE DEF N, Q
  <2> QED BY <1>8, <2>1
<1> QED BY <1>3, <1>4, <1>6, <1>9

LEMMA FlattenedIs ==
  ASSUME NEW S, NEW ss \in Seq(Seq(S)), NEW f, f[0] = <<>>,
         \A n \in 1..Len(ss) : f[n] = f[n - 1] \o ss[n]
  PROVE  Flattened(ss) = f[Len(ss)]
<1> DEFINE N == Len(ss)
           Q == Seq(S)
<1>1. PICK g \in [0..N -> Q] :
            /\ g[0] = <<>>
            /\ \A n \in 1..N : g[n] = g[n - 1] \o ss[n]
            /\ Flattened(ss) = g[N]
  BY FlattenedHas
<1> DEFINE T == {n \in 0..N : f[n] = g[n]}
<1>2. N \in Nat
  OBVIOUS
<1>3. 0 \in T /\ \A n \in 1..N : n - 1 \in T => n \in T
  <2> HIDE DEF N, Q
  <2>1. \A n \in 1..N : f[n] = f[n - 1] \o ss[n]
    BY DEF N
  <2>2. 0 \in 0..N /\ \A n \in 1..N : n \in 0..N
    BY <1>2
  <2> QED BY <1>1, <2>1, <2>2
<1> HIDE DEF T, N
<1>4. 0..N \subseteq T
  BY <1>2, <1>3, UpTo
<1>5. N \in T
  BY <1>2, <1>4
<1> QED BY <1>1, <1>5 DEF T, N

LEMMA FlattenedType ==
  ASSUME NEW S, NEW ss \in Seq(Seq(S))
  PROVE  Flattened(ss) \in Seq(S)
<1> DEFINE Q == Seq(S)
<1>1. \E f \in [0..Len(ss) -> Q] : Flattened(ss) = f[Len(ss)]
  BY FlattenedHas
<1>2. Len(ss) \in 0..Len(ss)
  OBVIOUS
<1> HIDE DEF Q
<1>3. Flattened(ss) \in Q
  BY <1>1, <1>2
<1> QED BY <1>3 DEF Q

LEMMA FlattenedEmpty == Flattened(<<>>) = <<>>
<1>1. <<>> \in Seq(Seq({})) /\ Len(<<>>) = 0
  OBVIOUS
<1>2. \E f \in [0..Len(<<>>) -> Seq({})] : f[0] = <<>> /\ Flattened(<<>>) = f[Len(<<>>)]
  BY <1>1, FlattenedHas
<1> QED BY <1>1, <1>2

LEMMA FlattenedAppend ==
  ASSUME NEW S, NEW ss \in Seq(Seq(S)), NEW s \in Seq(S)
  PROVE  Flattened(Append(ss, s)) = Flattened(ss) \o s
<1> DEFINE more == Append(ss, s)
           N == Len(ss)
           Q == Seq(S)
<1>1. /\ more \in Seq(Q) /\ N \in Nat /\ Len(more) = N + 1
      /\ more[N + 1] = s /\ \A n \in 1..N : more[n] = ss[n]
  OBVIOUS
<1> HIDE DEF more
<1>2. PICK g \in [0..Len(more) -> Q] :
            /\ g[0] = <<>>
            /\ \A n \in 1..Len(more) : g[n] = g[n - 1] \o more[n]
            /\ Flattened(more) = g[Len(more)]
  BY <1>1, FlattenedHas
<1>3. \A n \in 1..N : g[n] = g[n - 1] \o ss[n]
  <2> HIDE DEF N, Q
  <2>1. \A n \in 1..N : n \in 1..(N + 1)
    BY <1>1
  <2> QED BY <1>1, <1>2, <2>1
<1>4. Flattened(ss) = g[N]
  BY <1>2, <1>3, FlattenedIs
<1>5. Flattened(more) = g[N] \o s
  <2> HIDE DEF N, Q
  <2>1. N + 1 \in 1..(N + 1) /\ (N + 1) - 1 = N
    BY <1>1
  <2> QED BY <1>1, <1>2, <2>1
<1> QED BY <1>4, <1>5 DEF more

LEMMA Joined ==
  ASSUME NEW S, NEW s \in Seq(S), NEW t \in Seq(S)
  PROVE  /\ s \o t \in Seq(S) /\ DOMAIN s = 1..Len(s) /\ DOMAIN t = 1..Len(t)
         /\ Len(s) \in Nat /\ Len(t) \in Nat /\ Len(s \o t) = Len(s) + Len(t)
         /\ DOMAIN (s \o t) = 1..(Len(s) + Len(t))
         /\ \A k \in 1..(Len(s) + Len(t)) :
               (s \o t)[k] = IF k <= Len(s) THEN s[k] ELSE t[k - Len(s)]
         /\ \A k \in 1..(Len(s) + Len(t)) : ~ (k <= Len(s)) => k - Len(s) \in 1..Len(t)
<1>1. Len(s) \in Nat /\ Len(t) \in Nat
  OBVIOUS
<1>2. \A k \in 1..(Len(s) + Len(t)) : ~ (k <= Len(s)) => k - Len(s) \in 1..Len(t)
  BY <1>1
<1> QED BY <1>1, <1>2

(* What is in it is in one of the sequences, and the other way round.      *)
LEMMA FlattenedOrigin ==
  ASSUME NEW S, NEW ss \in Seq(Seq(S))
  PROVE  /\ \A k \in DOMAIN Flattened(ss) :
              \E i \in DOMAIN ss : \E j \in DOMAIN ss[i] : Flattened(ss)[k] = ss[i][j]
         /\ \A i \in DOMAIN ss : \A j \in DOMAIN ss[i] :
              \E k \in DOMAIN Flattened(ss) : Flattened(ss)[k] = ss[i][j]
<1> DEFINE N == Len(ss)
           Q == Seq(S)
           Has(s, v) == \E k \in DOMAIN s : s[k] = v
           Before(n, v) == \E i \in 1..n : Has(ss[i], v)
<1>1. PICK f \in [0..N -> Q] :
            /\ f[0] = <<>>
            /\ \A n \in 1..N : f[n] = f[n - 1] \o ss[n]
            /\ Flattened(ss) = f[N]
  BY FlattenedHas
<1>2. N \in Nat /\ DOMAIN ss = 1..N
  OBVIOUS
<1>3. \A s, t \in Q : \A v : Has(s \o t, v) <=> Has(s, v) \/ Has(t, v)
  <2> SUFFICES ASSUME NEW s \in Q, NEW t \in Q, NEW v
               PROVE  Has(s \o t, v) <=> Has(s, v) \/ Has(t, v)
    OBVIOUS
  <2>0. /\ s \o t \in Q /\ DOMAIN s = 1..Len(s) /\ DOMAIN t = 1..Len(t)
        /\ DOMAIN (s \o t) = 1..(Len(s) + Len(t)) /\ Len(s) \in Nat /\ Len(t) \in Nat
        /\ \A k \in 1..(Len(s) + Len(t)) :
              (s \o t)[k] = IF k <= Len(s) THEN s[k] ELSE t[k - Len(s)]
    BY Joined
  <2>1. ASSUME Has(s \o t, v) PROVE Has(s, v) \/ Has(t, v)
    <3>1. PICK k \in 1..(Len(s) + Len(t)) : (s \o t)[k] = v
      BY <2>0, <2>1
    <3>2. CASE k <= Len(s)
      <4>1. k \in 1..Len(s) /\ s[k] = v
        BY <2>0, <3>1, <3>2
      <4> QED BY <2>0, <4>1
    <3>3. CASE ~ (k <= Len(s))
      <4>1. k - Len(s) \in 1..Len(t)
        BY <2>0, <3>1, <3>3
      <4> QED BY <2>0, <3>1, <3>3, <4>1
    <3> QED BY <3>2, <3>3
  <2>2. ASSUME Has(s, v) PROVE Has(s \o t, v)
    <3>1. PICK k \in 1..Len(s) : s[k] = v
      BY <2>0, <2>2
    <3>2. k \in 1..(Len(s) + Len(t)) /\ k <= Len(s)
      BY <2>0
    <3>3. (s \o t)[k] = v
      BY <2>0, <3>1, <3>2
    <3> QED BY <2>0, <3>2, <3>3
  <2>3. ASSUME Has(t, v) PROVE Has(s \o t, v)
    <3>1. PICK k \in 1..Len(t) : t[k] = v
      BY <2>0, <2>3
    <3>2. k + Len(s) \in 1..(Len(s) + Len(t)) /\ ~ (k + Len(s) <= Len(s))
          /\ (k + Len(s)) - Len(s) = k
      BY <2>0
    <3>3. (s \o t)[k + Len(s)] = v
      BY <2>0, <3>1, <3>2
    <3> QED BY <2>0, <3>2, <3>3
  <2> QED BY <2>1, <2>2, <2>3
<1>4. \A n \in 1..N : ss[n] \in Q
  BY <1>2
<1> DEFINE T == {n \in 0..N : \A v : Has(f[n], v) <=> Before(n, v)}
<1>5. 0 \in T
  <2>1. \A v : ~ Has(<<>>, v) /\ ~ Before(0, v)
    OBVIOUS
  <2>2. 0 \in 0..N
    BY <1>2
  <2> QED BY <1>1, <2>1, <2>2
<1>6. ASSUME NEW n \in 1..N, n - 1 \in T PROVE n \in T
  <2> HIDE DEF N, Q, Has
  <2>1. f[n - 1] \in Q /\ n \in 0..N /\ n - 1 \in 0..N
    BY <1>1, <1>2
  <2>2. \A v : Has(f[n], v) <=> Has(f[n - 1], v) \/ Has(ss[n], v)
    <3>1. f[n] = f[n - 1] \o ss[n] /\ ss[n] \in Q
      BY <1>1, <1>4
    <3>2. \A v : Has(f[n - 1] \o ss[n], v) <=> Has(f[n - 1], v) \/ Has(ss[n], v)
      BY <1>3, <2>1, <3>1
    <3> QED BY <3>1, <3>2
  <2>3. \A v : Has(f[n - 1], v) <=> Before(n - 1, v)
    BY <1>6
  <2>4. ASSUME NEW v PROVE Before(n, v) <=> Before(n - 1, v) \/ Has(ss[n], v)
    <3>1. \A i \in 1..n : i = n \/ i \in 1..(n - 1)
      BY <1>2
    <3>2. n \in 1..n /\ \A i \in 1..(n - 1) : i \in 1..n
      BY <1>2
    <3> QED BY <3>1, <3>2
  <2> HIDE DEF Before
  <2> QED BY <2>1, <2>2, <2>3, <2>4
<1>7. N \in T
  <2>1. \A n \in 1..N : n - 1 \in T => n \in T
    BY <1>6
  <2> HIDE DEF T, N
  <2>2. 0..N \subseteq T
    BY <1>2, <1>5, <2>1, UpTo
  <2> QED BY <1>2, <2>2
<1>8. \A v : Has(Flattened(ss), v) <=> Before(N, v)
  <2> HIDE DEF Has, Before, N
  <2> QED BY <1>1, <1>7
<1>9. ASSUME NEW k \in DOMAIN Flattened(ss)
      PROVE  \E i \in DOMAIN ss : \E j \in DOMAIN ss[i] : Flattened(ss)[k] = ss[i][j]
  <2>1. Has(Flattened(ss), Flattened(ss)[k])
    OBVIOUS
  <2> QED BY <1>2, <1>8, <2>1
<1>10. ASSUME NEW i \in DOMAIN ss, NEW j \in DOMAIN ss[i]
       PROVE  \E k \in DOMAIN Flattened(ss) : Flattened(ss)[k] = ss[i][j]
  <2>1. Before(N, ss[i][j])
    BY <1>2
  <2> QED BY <1>8, <2>1
<1> QED BY <1>9, <1>10

(* A function of every element.                                            *)
Mapped(m, s) == [k \in DOMAIN s |-> m[s[k]]]

Maps(m, S, R) == m \in [S -> R]

LEMMA MappedFacts ==
  ASSUME NEW S, NEW R, NEW m, Maps(m, S, R), NEW s \in Seq(S), NEW t \in Seq(S)
  PROVE  Mapped(m, s) \in Seq(R) /\ Mapped(m, s \o t) = Mapped(m, s) \o Mapped(m, t)
<1>0. /\ s \o t \in Seq(S) /\ DOMAIN s = 1..Len(s) /\ DOMAIN t = 1..Len(t)
      /\ Len(s \o t) = Len(s) + Len(t) /\ Len(s) \in Nat /\ Len(t) \in Nat
      /\ \A k \in 1..(Len(s) + Len(t)) :
            (s \o t)[k] = IF k <= Len(s) THEN s[k] ELSE t[k - Len(s)]
      /\ \A k \in 1..(Len(s) + Len(t)) : ~ (k <= Len(s)) => k - Len(s) \in 1..Len(t)
  BY Joined
<1>1. ASSUME NEW q \in Seq(S) PROVE Mapped(m, q) \in Seq(R) /\ Len(Mapped(m, q)) = Len(q)
                                    /\ \A k \in 1..Len(q) : Mapped(m, q)[k] = m[q[k]]
  <2>1. Mapped(m, q) = [k \in 1..Len(q) |-> m[q[k]]]
    BY DEF Mapped
  <2>2. \A k \in 1..Len(q) : m[q[k]] \in R
    BY DEF Maps
  <2> QED BY <2>1, <2>2
<1> DEFINE a == Mapped(m, s)
           b == Mapped(m, t)
           both == Mapped(m, s \o t)
<1>2. /\ a \in Seq(R) /\ b \in Seq(R) /\ both \in Seq(R)
      /\ Len(a) = Len(s) /\ Len(b) = Len(t) /\ Len(both) = Len(s) + Len(t)
      /\ \A k \in 1..Len(s) : a[k] = m[s[k]]
      /\ \A k \in 1..Len(t) : b[k] = m[t[k]]
      /\ \A k \in 1..(Len(s) + Len(t)) : both[k] = m[(s \o t)[k]]
  <2>1. /\ a \in Seq(R) /\ Len(a) = Len(s) /\ \A k \in 1..Len(s) : a[k] = m[s[k]]
    BY <1>1
  <2>2. /\ b \in Seq(R) /\ Len(b) = Len(t) /\ \A k \in 1..Len(t) : b[k] = m[t[k]]
    BY <1>1
  <2>3. /\ both \in Seq(R) /\ Len(both) = Len(s \o t)
        /\ \A k \in 1..Len(s \o t) : both[k] = m[(s \o t)[k]]
    BY <1>0, <1>1
  <2> HIDE DEF a, b, both
  <2> QED BY <1>0, <2>1, <2>2, <2>3
<1> HIDE DEF a, b, both
<1>3. /\ a \o b \in Seq(R) /\ Len(a \o b) = Len(s) + Len(t)
      /\ \A k \in 1..(Len(s) + Len(t)) :
            (a \o b)[k] = IF k <= Len(s) THEN a[k] ELSE b[k - Len(s)]
  <2>1. /\ a \o b \in Seq(R) /\ Len(a \o b) = Len(a) + Len(b)
        /\ \A k \in 1..(Len(a) + Len(b)) :
              (a \o b)[k] = IF k <= Len(a) THEN a[k] ELSE b[k - Len(a)]
    <3>1. a \in Seq(R) /\ b \in Seq(R)
      BY <1>2
    <3> QED BY <3>1, Joined
  <2> QED BY <1>2, <2>1
<1>4. ASSUME NEW k \in 1..(Len(s) + Len(t)) PROVE both[k] = (a \o b)[k]
  <2>1. CASE k <= Len(s)
    BY <1>0, <1>2, <1>3, <2>1
  <2>2. CASE ~ (k <= Len(s))
    <3>1. k - Len(s) \in 1..Len(t)
      BY <1>0, <2>2
    <3>2. (a \o b)[k] = m[t[k - Len(s)]]
      BY <1>2, <1>3, <2>2, <3>1
    <3>3. both[k] = m[t[k - Len(s)]]
      BY <1>0, <1>2, <2>2
    <3> QED BY <3>2, <3>3
  <2> QED BY <2>1, <2>2
<1>5. both = a \o b
  BY <1>2, <1>3, <1>4
<1> QED BY <1>2, <1>5 DEF a, b, both

LEMMA FlattenedMapped ==
  ASSUME NEW S, NEW R, NEW m, Maps(m, S, R), NEW ss \in Seq(Seq(S))
  PROVE  Flattened([i \in DOMAIN ss |-> Mapped(m, ss[i])]) = Mapped(m, Flattened(ss))
<1> DEFINE N == Len(ss)
           Q == Seq(S)
           P == Seq(R)
           tt == [i \in DOMAIN ss |-> Mapped(m, ss[i])]
<1>1. PICK f \in [0..N -> Q] :
            /\ f[0] = <<>>
            /\ \A n \in 1..N : f[n] = f[n - 1] \o ss[n]
            /\ Flattened(ss) = f[N]
  BY FlattenedHas
<1>2. N \in Nat /\ DOMAIN ss = 1..N /\ \A n \in 1..N : ss[n] \in Q
  OBVIOUS
<1>3. \A s, t \in Q : Mapped(m, s) \in P /\ Mapped(m, s \o t) = Mapped(m, s) \o Mapped(m, t)
  <2> SUFFICES ASSUME NEW s \in Seq(S), NEW t \in Seq(S)
               PROVE  /\ Mapped(m, s) \in Seq(R)
                      /\ Mapped(m, s \o t) = Mapped(m, s) \o Mapped(m, t)
    OBVIOUS
  <2> QED BY MappedFacts
<1>4. Mapped(m, <<>>) = <<>>
  BY DEF Mapped
<1>5. /\ tt \in Seq(P) /\ Len(tt) = N
      /\ \A n \in 1..N : tt[n] = Mapped(m, ss[n])
  <2> HIDE DEF N, P, Q
  <2>1. tt = [n \in 1..N |-> Mapped(m, ss[n])]
    BY <1>2
  <2>2. \A n \in 1..N : Mapped(m, ss[n]) \in P
    BY <1>2, <1>3
  <2> HIDE DEF tt
  <2>3. tt \in [1..N -> P] /\ \A n \in 1..N : tt[n] = Mapped(m, ss[n])
    BY <2>1, <2>2
  <2> QED BY <1>2, <2>3
<1> DEFINE g == [n \in 0..N |-> Mapped(m, f[n])]
<1> HIDE DEF N, P, Q, tt
<1>6. g[0] = <<>> /\ g[N] = Mapped(m, f[N])
  BY <1>1, <1>2, <1>4
<1>7. ASSUME NEW n \in 1..Len(tt) PROVE g[n] = g[n - 1] \o tt[n]
  <2>1. n \in 1..N /\ n \in 0..N /\ n - 1 \in 0..N
    BY <1>2, <1>5
  <2>2. f[n - 1] \in Q
    BY <1>1, <2>1
  <2> QED BY <1>1, <1>2, <1>3, <1>5, <2>1, <2>2
<1> HIDE DEF g
<1>8. \A n \in 1..Len(tt) : g[n] = g[n - 1] \o tt[n]
  BY <1>7
<1>9. Flattened(tt) = g[N]
  BY <1>5, <1>6, <1>8, FlattenedIs DEF P
<1> QED BY <1>1, <1>6, <1>9 DEF tt

-----------------------------------------------------------------------------
(* Types.                                                                  *)
EditsInv == \A k \in DOMAIN edits : edits[k].op = "items" => Len(edits[k].outputs) = 1

LEMMA Sizes ==
  /\ MaxRuns \in Nat /\ MaxMessages \in Nat /\ NoDisplay \notin Displays
  /\ NoOutput \notin CellOutput /\ NoOutput.id = 0 /\ NoOutput.kind \notin Streams
  /\ 0 \notin Chunks /\ Chunks \subseteq Nat
<1>1. 0 \notin Chunks /\ Chunks \subseteq Nat
  BY OutputBounds DEF Chunks
<1>2. \A o \in CellOutput : o.id \in Chunks
  BY DEF CellOutput
<1>3. NoOutput.id = 0 /\ NoOutput.kind = "none"
  BY DEF NoOutput
<1>4. "none" \notin Streams
  BY DEF Streams
<1> QED BY <1>1, <1>2, <1>3, <1>4, OutputBounds

LEMMA RunFacts ==
  ASSUME OutputsTypeOK
  PROVE  /\ Len(run) \in Nat /\ Runs = 1..Len(run) /\ Len(run) <= MaxRuns
         /\ Runs \subseteq 1..MaxRuns
         /\ run \in [Runs -> Handler]
         /\ active \in {0} \cup Runs
<1>1. run \in Seq(Handler) /\ Len(run) <= MaxRuns /\ active \in {0} \cup Runs
  BY DEF OutputsTypeOK
<1> QED BY <1>1, OutputBounds DEF Runs

LEMMA HandlerFields ==
  ASSUME OutputsTypeOK, NEW r \in Runs
  PROVE  /\ run[r] \in Handler
         /\ run[r].cell \in Cells
         /\ run[r].state \in {"clearing", "executing", "listening", "over"}
         /\ run[r].comms \in BOOLEAN /\ run[r].clearNext \in BOOLEAN
         /\ run[r].stream \in CellOutput \cup {NoOutput}
         /\ run[r].failed \in BOOLEAN
<1>1. run[r] \in Handler
  BY RunFacts
<1> HIDE DEF CellOutput, NoOutput
<1> QED BY <1>1 DEF Handler

(* The edits of a state whose runs are those of 1..n.                      *)
EditsAre(es, n) == /\ es \in Seq(GoodEdits)
                   /\ \A k \in DOMAIN es : es[k].start \in 0..n
                   /\ n \in 0..MaxRuns

LEMMA EditsOf ==
  ASSUME OutputsTypeOK, EditsInv
  PROVE  EditsAre(edits, Len(run))
<1> DEFINE Q == Seq(CellOutput)
           Op == {"replace", "append", "items"}
           K == 0..Len(run)
           R == [op : Op, cell : Cells, outputs : Q, start : K]
<1>1. K = {0} \cup Runs /\ K \subseteq 0..MaxRuns /\ Len(run) \in 0..MaxRuns
  BY RunFacts, OutputBounds
<1>2. edits \in Seq(R)
  BY <1>1 DEF OutputsTypeOK
<1>3. ASSUME NEW k \in DOMAIN edits PROVE edits[k] \in GoodEdits /\ edits[k].start \in K
  <2>1. edits[k] \in R
    <3> HIDE DEF R
    <3> QED BY <1>2
  <2> HIDE DEF Q, Op, K
  <2>2. edits[k].start \in K /\ edits[k] \in [op : Op, cell : Cells, outputs : Q, start : 0..MaxRuns]
    BY <1>1, <2>1
  <2> QED BY <2>2 DEF GoodEdits, Edits, EditsInv, Q, Op
<1>4. DOMAIN edits = 1..Len(edits) /\ Len(edits) \in Nat /\ edits \in [1..Len(edits) -> GoodEdits]
  <2>1. DOMAIN edits = 1..Len(edits) /\ Len(edits) \in Nat /\ edits = [k \in DOMAIN edits |-> edits[k]]
    BY <1>2
  <2> QED BY <1>3, <2>1
<1>5. edits \in Seq(GoodEdits)
  BY <1>4
<1> QED BY <1>1, <1>3, <1>5 DEF EditsAre

LEMMA EditsAreTyped ==
  ASSUME NEW es, NEW n, EditsAre(es, n)
  PROVE  /\ es \in Seq([op : {"replace", "append", "items"}, cell : Cells,
                        outputs : Seq(CellOutput), start : 0..n])
         /\ \A k \in DOMAIN es : es[k].op = "items" => Len(es[k].outputs) = 1
<1> DEFINE Q == Seq(CellOutput)
           Op == {"replace", "append", "items"}
           R == [op : Op, cell : Cells, outputs : Q, start : 0..n]
<1>1. ASSUME NEW k \in DOMAIN es
      PROVE  es[k] \in R /\ (es[k].op = "items" => Len(es[k].outputs) = 1)
  <2>1. es[k] \in GoodEdits /\ es[k].start \in 0..n
    BY DEF EditsAre
  <2>2. es[k] \in [op : Op, cell : Cells, outputs : Q, start : 0..MaxRuns]
    BY <2>1 DEF GoodEdits, Edits
  <2> HIDE DEF Q, Op
  <2>3. es[k] \in R
    BY <2>1, <2>2
  <2> QED BY <2>1, <2>3 DEF GoodEdits
<1>2. DOMAIN es = 1..Len(es) /\ Len(es) \in Nat /\ es = [k \in DOMAIN es |-> es[k]]
  BY DEF EditsAre
<1> HIDE DEF R
<1>3. es \in [1..Len(es) -> R]
  BY <1>1, <1>2
<1>4. es \in Seq(R)
  BY <1>2, <1>3
<1> QED BY <1>1, <1>4 DEF R

LEMMA EditsGrow ==
  ASSUME NEW es, NEW n, EditsAre(es, n), NEW e \in GoodEdits, e.start \in 0..n
  PROVE  EditsAre(Append(es, e), n)
<1>1. /\ Append(es, e) \in Seq(GoodEdits) /\ DOMAIN Append(es, e) = 1..(Len(es) + 1)
      /\ DOMAIN es = 1..Len(es) /\ Len(es) \in Nat
      /\ Append(es, e)[Len(es) + 1] = e /\ \A k \in 1..Len(es) : Append(es, e)[k] = es[k]
  BY DEF EditsAre
<1>2. \A k \in 1..(Len(es) + 1) : k = Len(es) + 1 \/ k \in 1..Len(es)
  BY <1>1
<1>3. \A k \in 1..Len(es) : es[k].start \in 0..n
  BY <1>1 DEF EditsAre
<1>4. n \in 0..MaxRuns
  BY DEF EditsAre
<1> QED BY <1>1, <1>2, <1>3, <1>4 DEF EditsAre

LEMMA EditKinds ==
  ASSUME NEW c \in Cells, NEW o \in CellOutput
  PROVE  /\ Replace(c, <<>>) \in GoodEdits /\ Replace(c, <<>>).start = 0
         /\ Replace(c, <<o>>) \in GoodEdits /\ Replace(c, <<o>>).start = 0
         /\ Add(c, o) \in GoodEdits /\ Add(c, o).start = 0
         /\ ReplaceItems(c, o) \in GoodEdits /\ ReplaceItems(c, o).start = 0
         /\ \A r \in 0..MaxRuns : /\ [Replace(c, <<>>) EXCEPT !.start = r] \in GoodEdits
                                  /\ [Replace(c, <<>>) EXCEPT !.start = r].start = r
<1>1. <<>> \in Seq(CellOutput) /\ <<o>> \in Seq(CellOutput) /\ Len(<<o>>) = 1
  OBVIOUS
<1>2. 0 \in 0..MaxRuns
  BY OutputBounds
<1> HIDE DEF CellOutput
<1> QED BY <1>1, <1>2 DEF Replace, Add, ReplaceItems, GoodEdits, Edits

LEMMA OutcomeType ==
  ASSUME OutputsTypeOK, EditsInv
  PROVE  shown \in Documents /\ meant \in Documents /\ edits \in Seq(GoodEdits)
         /\ Outcome \in Documents
<1>1. shown \in Documents /\ meant \in Documents
  BY DEF OutputsTypeOK, Documents
<1>2. edits \in Seq(GoodEdits)
  BY EditsOf DEF EditsAre
<1> HIDE DEF Documents
<1> QED BY <1>1, <1>2, AppliedType DEF Outcome

(* What a new edit makes of the document.                                  *)
LEMMA OutcomeGrows ==
  ASSUME OutputsTypeOK, EditsInv, NEW e \in GoodEdits,
         shown' = shown, edits' = Append(edits, e)
  PROVE  Outcome' = Edited(Outcome, e)
<1>1. Outcome' = Applied(shown, Append(edits, e))
  BY DEF Outcome
<1> QED BY <1>1, OutcomeType, AppliedAppend DEF Outcome

RunsTyped == run \in Seq(Handler) /\ Len(run) <= MaxRuns /\ active \in {0} \cup Runs
TrackerTyped == /\ tracked \in [Displays -> CellOutput \cup {NoOutput}]
                /\ lastDisplay \in [Cells -> Displays \cup {NoDisplay}]
DocumentsTyped == shown \in Documents /\ meant \in Documents
Event(n) == [cleared : SUBSET Cells, user : BOOLEAN, start : 0..n]
RestTyped == /\ events \in Seq(Event(Len(run))) /\ messages \in 0..MaxMessages
             /\ toClear \subseteq Runs /\ misled \subseteq Runs
             /\ stray \subseteq {0} \cup Chunks /\ spoiled \subseteq Cells
Typed == OutputsTypeOK /\ EditsInv

LEMMA TypedParts ==
  ASSUME Typed
  PROVE  /\ RunsTyped /\ TrackerTyped /\ DocumentsTyped /\ RestTyped
         /\ EditsAre(edits, Len(run))
<1>1. RunsTyped /\ TrackerTyped /\ DocumentsTyped
  BY DEF Typed, OutputsTypeOK, RunsTyped, TrackerTyped, DocumentsTyped, Documents
<1>2. EditsAre(edits, Len(run))
  BY EditsOf DEF Typed
<1>3. events \in Seq([cleared : SUBSET Cells, user : BOOLEAN, start : {0} \cup Runs])
  BY DEF Typed, OutputsTypeOK
<1>4. {0} \cup Runs = 0..Len(run)
  BY RunFacts DEF Typed
<1>5. events \in Seq(Event(Len(run)))
  BY <1>3, <1>4 DEF Event
<1>6. /\ messages \in 0..MaxMessages /\ toClear \subseteq Runs /\ misled \subseteq Runs
      /\ stray \subseteq {0} \cup Chunks /\ spoiled \subseteq Cells
  BY DEF Typed, OutputsTypeOK
<1> QED BY <1>1, <1>2, <1>5, <1>6 DEF RestTyped

LEMMA PartsTyped ==
  ASSUME RunsTyped', TrackerTyped', DocumentsTyped', RestTyped', EditsAre(edits', Len(run'))
  PROVE  Typed'
<1>1. {0} \cup Runs' = 0..Len(run')
  <2>1. run' \in Seq(Handler)
    BY DEF RunsTyped
  <2> HIDE DEF Handler
  <2>2. DOMAIN run' = 1..Len(run') /\ Len(run') \in Nat
    BY <2>1
  <2> QED BY <2>2 DEF Runs
<1>2. edits' \in Seq([op : {"replace", "append", "items"}, cell : Cells,
                      outputs : Seq(CellOutput), start : 0..Len(run')])
      /\ EditsInv'
  BY EditsAreTyped DEF EditsInv
<1>3. edits' \in Seq([op : {"replace", "append", "items"}, cell : Cells,
                      outputs : Seq(CellOutput), start : {0} \cup Runs'])
  BY <1>1, <1>2
<1>4. events' \in Seq([cleared : SUBSET Cells, user : BOOLEAN, start : {0} \cup Runs'])
  BY <1>1 DEF RestTyped, Event
<1>5. /\ run' \in Seq(Handler) /\ Len(run') <= MaxRuns /\ active' \in {0} \cup Runs'
      /\ tracked' \in [Displays -> CellOutput \cup {NoOutput}]
      /\ lastDisplay' \in [Cells -> Displays \cup {NoDisplay}]
      /\ shown' \in [Cells -> Seq(CellOutput)] /\ meant' \in [Cells -> Seq(CellOutput)]
      /\ messages' \in 0..MaxMessages
      /\ toClear' \subseteq Runs' /\ misled' \subseteq Runs'
      /\ stray' \subseteq {0} \cup Chunks /\ spoiled' \subseteq Cells
  BY DEF RunsTyped, TrackerTyped, DocumentsTyped, Documents, RestTyped
<1> QED BY <1>2, <1>3, <1>4, <1>5 DEF Typed, OutputsTypeOK

(* The handler of one run changes, or those of all.                        *)
LEMMA RunChanges ==
  ASSUME Typed, NEW f \in [Runs -> Handler], run' = f
  PROVE  /\ run' \in Seq(Handler) /\ Len(run') = Len(run) /\ Runs' = Runs
         /\ Len(run') <= MaxRuns
<1>1. Runs = 1..Len(run) /\ Len(run) \in Nat /\ Len(run) <= MaxRuns
  BY RunFacts DEF Typed
<1>2. f \in [1..Len(run) -> Handler]
  BY <1>1
<1> HIDE DEF Handler
<1>3. f \in Seq(Handler) /\ Len(f) = Len(run) /\ DOMAIN f = Runs
  BY <1>1, <1>2
<1> QED BY <1>1, <1>3 DEF Runs

LEMMA NewOutputType ==
  ASSUME Typed, NEW r \in Runs, messages < MaxMessages,
         NEW kind \in Streams \cup {"data", "error"}, NEW d \in Displays \cup {NoDisplay}
  PROVE  /\ messages \in Nat /\ messages + 1 \in Chunks /\ messages + 1 \in 0..MaxMessages
         /\ NewOutput(r, kind, d) \in CellOutput
         /\ NewOutput(r, kind, d).id = messages + 1 /\ NewOutput(r, kind, d).kind = kind
         /\ NewOutput(r, kind, d).by = r /\ NewOutput(r, kind, d).display = d
         /\ NewOutput(r, kind, d).text = <<messages + 1>>
<1>1. messages \in Nat /\ messages + 1 \in Chunks /\ messages + 1 \in 0..MaxMessages
  BY OutputBounds DEF Typed, OutputsTypeOK, Chunks
<1>2. <<messages + 1>> \in Seq(Chunks)
  BY <1>1
<1>3. r \in 1..MaxRuns
  BY RunFacts DEF Typed
<1> DEFINE S == Seq(Chunks)
           K == Streams \cup {"data", "error"}
           D == Displays \cup {NoDisplay}
<1>4. CellOutput = [id : Chunks, kind : K, by : 1..MaxRuns, display : D, text : S]
      /\ kind \in K /\ d \in D /\ <<messages + 1>> \in S
  BY <1>2 DEF CellOutput
<1> HIDE DEF S, K, D
<1> QED BY <1>1, <1>3, <1>4 DEF NewOutput

(* Text goes to an output.                                                 *)
Grown(o, chunk) == [o EXCEPT !.text = Append(@, chunk)]

LEMMA GrownType ==
  ASSUME NEW o \in CellOutput, NEW chunk \in Chunks
  PROVE  /\ Grown(o, chunk) \in CellOutput
         /\ Grown(o, chunk).id = o.id /\ Grown(o, chunk).kind = o.kind
         /\ Grown(o, chunk).by = o.by /\ Grown(o, chunk).display = o.display
         /\ Grown(o, chunk).text = Append(o.text, chunk)
         /\ Append(o.text, chunk) \in Seq(Chunks)
<1>1. <<>> \in Seq(Chunks)
  OBVIOUS
<1>2. o.text \in Seq(Chunks)
  BY <1>1, OutputFields
<1>3. Append(o.text, chunk) \in Seq(Chunks)
  BY <1>2
<1>4. Grown(o, chunk) = [o EXCEPT !.text = Append(o.text, chunk)]
  BY DEF Grown
<1> DEFINE t == Append(o.text, chunk)
<1>5. t \in Seq(Chunks) /\ Grown(o, chunk) = [o EXCEPT !.text = t]
  BY <1>3, <1>4
<1> HIDE DEF t
<1>6. /\ [o EXCEPT !.text = t] \in CellOutput
      /\ [o EXCEPT !.text = t].text = t /\ [o EXCEPT !.text = t].id = o.id
      /\ [o EXCEPT !.text = t].kind = o.kind /\ [o EXCEPT !.text = t].by = o.by
      /\ [o EXCEPT !.text = t].display = o.display
  BY <1>5, OutputFields
<1> QED BY <1>5, <1>6 DEF t

LEMMA HandlerChanges ==
  ASSUME NEW h \in Handler, NEW s \in CellOutput \cup {NoOutput}, NEW b \in BOOLEAN,
         NEW st \in {"clearing", "executing", "listening", "over"},
         NEW rep \in {"no", "success", "failed"}
  PROVE  /\ [h EXCEPT !.stream = s, !.failed = b] \in Handler
         /\ [h EXCEPT !.state = st] \in Handler
         /\ [h EXCEPT !.state = st, !.stream = s] \in Handler
         /\ [h EXCEPT !.state = st, !.stream = s, !.reported = rep] \in Handler
         /\ [h EXCEPT !.stream = s, !.clearNext = FALSE] \in Handler
         /\ [h EXCEPT !.stream = s, !.clearNext = FALSE, !.failed = b] \in Handler
         /\ [h EXCEPT !.clearNext = TRUE] \in Handler
         /\ [h EXCEPT !.stream = s] \in Handler
         /\ [h EXCEPT !.comms = TRUE] \in Handler
<1> DEFINE S == CellOutput \cup {NoOutput}
           St == {"clearing", "executing", "listening", "over"}
           Rp == {"no", "success", "failed"}
<1>1. /\ Handler = [cell : Cells, state : St, comms : BOOLEAN, clearNext : BOOLEAN,
                    stream : S, failed : BOOLEAN, reported : Rp]
      /\ h \in Handler /\ s \in S /\ st \in St /\ rep \in Rp
  BY DEF Handler
<1> HIDE DEF S, St, Rp
<1> QED BY <1>1

LEMMA RunStep ==
  ASSUME Typed, NEW r \in Runs, NEW h \in Handler, run' = [run EXCEPT ![r] = h]
  PROVE  /\ run' \in Seq(Handler) /\ Len(run') = Len(run) /\ Runs' = Runs
         /\ Len(run') <= MaxRuns
         /\ run'[r] = h /\ \A q \in Runs \ {r} : run'[q] = run[q]
<1>1. run \in [Runs -> Handler]
  BY RunFacts DEF Typed
<1> DEFINE f == [run EXCEPT ![r] = h]
<1>2. f \in [Runs -> Handler] /\ f[r] = h /\ \A q \in Runs \ {r} : f[q] = run[q]
  BY <1>1
<1> HIDE DEF f
<1>3. run' = f
  BY DEF f
<1> QED BY <1>2, <1>3, RunChanges

LEMMA EditedByReplace ==
  ASSUME NEW document \in Documents, NEW c \in Cells, NEW outputs
  PROVE  /\ Edited(document, Replace(c, outputs)) = [document EXCEPT ![c] = outputs]
         /\ \A r : Edited(document, [Replace(c, outputs) EXCEPT !.start = r])
                     = [document EXCEPT ![c] = outputs]
  BY DEF Edited, Replace

LEMMA EditedByAdd ==
  ASSUME NEW document \in Documents, NEW c \in Cells, NEW o \in CellOutput
  PROVE  Edited(document, Add(c, o)) = [document EXCEPT ![c] = Append(document[c], o)]
<1>1. document[c] \in Seq(CellOutput)
  BY DEF Documents
<1>2. document[c] \o <<o>> = Append(document[c], o)
  BY <1>1
<1>3. Edited(document, Add(c, o)) = [document EXCEPT ![c] = document[c] \o <<o>>]
  BY DEF Edited, Add
<1> QED BY <1>2, <1>3

LEMMA EditedByItems ==
  ASSUME NEW document \in Documents, NEW c \in Cells, NEW o \in CellOutput
  PROVE  Edited(document, ReplaceItems(c, o)) = [x \in Cells |-> WithText(document[x], o.id, o.text)]
<1> DEFINE e == ReplaceItems(c, o)
<1>1. e.op = "items" /\ e.outputs[1] = o
  BY DEF ReplaceItems
<1> HIDE DEF e
<1>2. Edited(document, e) = [x \in Cells |-> WithText(document[x], o.id, o.text)]
  BY <1>1 DEF Edited
<1> QED BY <1>2 DEF e

LEMMA ElementReplaced ==
  ASSUME NEW S, NEW s \in Seq(S), NEW i \in DOMAIN s, NEW v \in S
  PROVE  /\ [s EXCEPT ![i] = v] \in Seq(S) /\ Len([s EXCEPT ![i] = v]) = Len(s)
         /\ DOMAIN [s EXCEPT ![i] = v] = DOMAIN s
  OBVIOUS

LEMMA TaskCellType ==
  ASSUME Typed, NEW r \in Runs
  PROVE  TaskCell(r) \in Cells /\ Misplaced(r) \subseteq Cells
         /\ (TaskCell(r) # run[r].cell => run[r].cell \in Misplaced(r) /\ TaskCell(r) \in Misplaced(r))
<1>1. run[r].cell \in Cells /\ (active # 0 => run[active].cell \in Cells)
  BY HandlerFields, RunFacts DEF Typed
<1> QED BY <1>1 DEF TaskCell, Misplaced

(* One step after the other: what each does, in terms of the runs and of   *)
(* the document that results when all edits are there.                     *)
StreamOutput(r, name) ==
  IF run[r].stream.kind = name /\ ~ run[r].clearNext THEN Grown(run[r].stream, messages + 1)
  ELSE NewOutput(r, name, NoDisplay)

MeantWithText(was, new) ==
  IF was # <<>> /\ was[Len(was)].kind = new.kind
  THEN [was EXCEPT ![Len(was)].text = Append(@, messages + 1)] ELSE Append(was, new)

LEMMA StreamStep ==
  ASSUME Typed, NEW r \in Runs, NEW name \in Streams, Stream(r, name)
  PROVE  LET o == StreamOutput(r, name)
             new == NewOutput(r, name, NoDisplay)
             grows == run[r].stream.kind = name /\ ~ run[r].clearNext
         IN  /\ o \in CellOutput /\ (grows => run[r].stream \in CellOutput)
             /\ run' = [run EXCEPT ![r] = [run[r] EXCEPT !.stream = o, !.clearNext = FALSE]]
             /\ [run[r] EXCEPT !.stream = o, !.clearNext = FALSE] \in Handler
             /\ Outcome' = IF grows THEN [c \in Cells |-> WithText(Outcome[c], o.id, o.text)]
                           ELSE IF run[r].clearNext THEN [Outcome EXCEPT ![TaskCell(r)] = <<o>>]
                           ELSE [Outcome EXCEPT ![TaskCell(r)] = Append(Outcome[TaskCell(r)], o)]
             /\ meant' = [meant EXCEPT ![run[r].cell] = MeantWithText(MeantBefore(r), new)]
             /\ MeantBefore(r) \in Seq(CellOutput)
             /\ MeantWithText(MeantBefore(r), new) \in Seq(CellOutput)
             /\ EditsAre(edits', Len(run)) /\ Handles(r)
<1> DEFINE new == NewOutput(r, name, NoDisplay)
           o == StreamOutput(r, name)
           before == run[r].stream
           grows == before.kind = name /\ ~ run[r].clearNext
           t == TaskCell(r)
           mine == run[r].cell
           was == MeantBefore(r)
           h == [run[r] EXCEPT !.stream = o, !.clearNext = FALSE]
<1>1. messages < MaxMessages /\ shown' = shown /\ Handles(r)
  BY DEF Stream, Message
<1>2. /\ messages \in Nat /\ messages + 1 \in Chunks
      /\ new \in CellOutput /\ new.kind = name
  BY <1>1, NewOutputType DEF Streams
<1>3. grows => before \in CellOutput
  <2>1. before \in CellOutput \cup {NoOutput}
    BY HandlerFields DEF Typed
  <2>2. before.kind = name => before # NoOutput
    BY Sizes
  <2> QED BY <2>1, <2>2
<1>4. o \in CellOutput
  BY <1>2, <1>3, GrownType DEF StreamOutput
<1>5. run[r] \in Handler /\ mine \in Cells /\ t \in Cells
  BY HandlerFields, TaskCellType DEF Typed
<1>6. h \in Handler
  <2>1. o \in CellOutput \cup {NoOutput} /\ TRUE \in BOOLEAN /\ "no" \in {"no", "success", "failed"}
        /\ "over" \in {"clearing", "executing", "listening", "over"}
    BY <1>4
  <2> HIDE DEF o
  <2> QED BY <1>5, <2>1, HandlerChanges
<1>7. run' = [run EXCEPT ![r] = h]
  <2>1. run' = [run EXCEPT ![r].stream = o, ![r].clearNext = FALSE]
    BY DEF Stream, StreamOutput, Grown
  <2> HIDE DEF o
  <2> QED BY <2>1
<1>8. edits' = edits \o (IF grows THEN <<ReplaceItems(t, o)>>
                         ELSE IF run[r].clearNext THEN <<Replace(t, <<>>), Replace(t, <<o>>)>>
                         ELSE <<Add(t, o)>>)
  BY DEF Stream, StreamOutput, Grown
<1>9. EditsAre(edits, Len(run)) /\ edits \in Seq(GoodEdits) /\ Outcome \in Documents
      /\ shown \in Documents /\ 0 \in 0..Len(run)
  BY EditsOf, OutcomeType, RunFacts DEF Typed
<1> HIDE DEF o, t
<1>10. /\ Replace(t, <<>>) \in GoodEdits /\ Replace(t, <<>>).start = 0
       /\ Replace(t, <<o>>) \in GoodEdits /\ Replace(t, <<o>>).start = 0
       /\ Add(t, o) \in GoodEdits /\ Add(t, o).start = 0
       /\ ReplaceItems(t, o) \in GoodEdits /\ ReplaceItems(t, o).start = 0
  BY <1>4, <1>5, EditKinds
<1>11. /\ Edited(Outcome, Replace(t, <<>>)) = [Outcome EXCEPT ![t] = <<>>]
       /\ Edited(Outcome, Add(t, o)) = [Outcome EXCEPT ![t] = Append(Outcome[t], o)]
       /\ Edited(Outcome, ReplaceItems(t, o)) = [c \in Cells |-> WithText(Outcome[c], o.id, o.text)]
  <2>1. Edited(Outcome, Replace(t, <<>>)) = [Outcome EXCEPT ![t] = <<>>]
    BY <1>5, <1>9, EditedByReplace
  <2>2. Edited(Outcome, Add(t, o)) = [Outcome EXCEPT ![t] = Append(Outcome[t], o)]
    BY <1>4, <1>5, <1>9, EditedByAdd
  <2>3. Edited(Outcome, ReplaceItems(t, o)) = [c \in Cells |-> WithText(Outcome[c], o.id, o.text)]
    BY <1>4, <1>5, <1>9, EditedByItems
  <2> QED BY <2>1, <2>2, <2>3
<1>12. ASSUME grows
       PROVE  /\ EditsAre(edits', Len(run))
              /\ Outcome' = [c \in Cells |-> WithText(Outcome[c], o.id, o.text)]
  <2>1. edits' = Append(edits, ReplaceItems(t, o))
    BY <1>8, <1>9, <1>12
  <2> QED BY <1>1, <1>9, <1>10, <1>11, <2>1, EditsGrow, OutcomeGrows DEF Typed
<1>13. ASSUME ~ grows, run[r].clearNext
       PROVE  EditsAre(edits', Len(run)) /\ Outcome' = [Outcome EXCEPT ![t] = <<o>>]
  <2> DEFINE es == Append(edits, Replace(t, <<>>))
  <2>1. edits' = Append(es, Replace(t, <<o>>))
    BY <1>8, <1>9, <1>13
  <2>2. EditsAre(es, Len(run))
    BY <1>9, <1>10, EditsGrow
  <2>3. es \in Seq(GoodEdits)
    BY <2>2 DEF EditsAre
  <2>4. Applied(shown, es) = [Outcome EXCEPT ![t] = <<>>]
    BY <1>9, <1>10, <1>11, AppliedAppend DEF Outcome
  <2> HIDE DEF es
  <2>5. EditsAre(edits', Len(run))
    BY <1>10, <1>9, <2>1, <2>2, EditsGrow
  <2>6. Applied(shown, Append(es, Replace(t, <<o>>))) = Edited(Applied(shown, es), Replace(t, <<o>>))
    BY <1>9, <1>10, <2>3, AppliedAppend
  <2>7. Applied(shown, es) \in Documents
    BY <1>9, <2>3, AppliedType
  <2> DEFINE cleared == [Outcome EXCEPT ![t] = <<>>]
  <2>8. Edited(cleared, Replace(t, <<o>>)) = [cleared EXCEPT ![t] = <<o>>]
    <3>1. cleared \in Documents
      BY <2>4, <2>7
    <3> HIDE DEF cleared
    <3> QED BY <1>5, <3>1, EditedByReplace
  <2>9. [cleared EXCEPT ![t] = <<o>>] = [Outcome EXCEPT ![t] = <<o>>]
    BY <1>5, <1>9 DEF Documents
  <2>10. Outcome' = Applied(shown, edits')
    BY <1>1 DEF Outcome
  <2> QED BY <2>1, <2>4, <2>5, <2>6, <2>8, <2>9, <2>10
<1>14. ASSUME ~ grows, ~ run[r].clearNext
       PROVE  /\ EditsAre(edits', Len(run))
              /\ Outcome' = [Outcome EXCEPT ![t] = Append(Outcome[t], o)]
  <2>1. edits' = Append(edits, Add(t, o))
    BY <1>8, <1>9, <1>14
  <2> QED BY <1>1, <1>9, <1>10, <1>11, <2>1, EditsGrow, OutcomeGrows DEF Typed
<1>15. was \in Seq(CellOutput)
  BY <1>5, OutcomeType DEF MeantBefore, Documents, Typed
<1>16. MeantWithText(was, new) \in Seq(CellOutput)
  <2> HIDE DEF was, new
  <2>1. Append(was, new) \in Seq(CellOutput)
    BY <1>2, <1>15
  <2>2. ASSUME was # <<>>
        PROVE  [was EXCEPT ![Len(was)].text = Append(@, messages + 1)] \in Seq(CellOutput)
    <3>1. Len(was) \in DOMAIN was /\ was[Len(was)] \in CellOutput
      BY <1>15, <2>2
    <3>2. Grown(was[Len(was)], messages + 1) \in CellOutput
      BY <1>2, <3>1, GrownType
    <3>3. [was EXCEPT ![Len(was)].text = Append(@, messages + 1)]
            = [was EXCEPT ![Len(was)] = Grown(was[Len(was)], messages + 1)]
      BY <3>1 DEF Grown
    <3> QED BY <1>15, <3>1, <3>2, <3>3, ElementReplaced
  <2> QED BY <2>1, <2>2 DEF MeantWithText
<1>17. meant' = [meant EXCEPT ![mine] = MeantWithText(was, new)]
  BY <1>2 DEF Stream, MeantWithText
<1> QED
  BY <1>1, <1>3, <1>4, <1>6, <1>7, <1>12, <1>13, <1>14, <1>15, <1>16, <1>17 DEF o, t

HandlerAfter(r, kind) ==
  [run[r] EXCEPT !.stream = NoOutput, !.clearNext = FALSE, !.failed = @ \/ kind = "error"]

LEMMA HandlerAfterFields ==
  ASSUME Typed, NEW r \in Runs, NEW kind
  PROVE  LET h == HandlerAfter(r, kind)
         IN  /\ h.cell = run[r].cell /\ h.state = run[r].state /\ h.stream = NoOutput
             /\ h.clearNext = FALSE /\ (h.failed <=> run[r].failed \/ kind = "error")
<1>1. run[r] \in Handler
  BY HandlerFields DEF Typed
<1> DEFINE b == run[r].failed \/ kind = "error"
<1>2. HandlerAfter(r, kind) = [run[r] EXCEPT !.stream = NoOutput, !.clearNext = FALSE, !.failed = b]
  BY DEF HandlerAfter
<1>3. b <=> run[r].failed \/ kind = "error"
  OBVIOUS
<1> HIDE DEF b
<1> QED BY <1>1, <1>2, <1>3 DEF Handler

LEMMA AddStep ==
  ASSUME Typed, NEW r \in Runs, NEW kind \in {"data", "error"},
         NEW d \in Displays \cup {NoDisplay}, AddToCellData(r, kind, d)
  PROVE  LET o == NewOutput(r, kind, d)
             t == TaskCell(r)
             h == HandlerAfter(r, kind)
             clears == run[r].clearNext /\ run[r].state = "executing"
         IN  /\ run' = [run EXCEPT ![r] = h] /\ h \in Handler
             /\ Outcome' = IF clears /\ t = run[r].cell THEN [Outcome EXCEPT ![t] = <<o>>]
                           ELSE IF clears
                           THEN [Outcome EXCEPT ![run[r].cell] = <<>>, ![t] = Append(Outcome[t], o)]
                           ELSE [Outcome EXCEPT ![t] = Append(Outcome[t], o)]
             /\ meant' = [meant EXCEPT ![run[r].cell] = Append(MeantBefore(r), o)]
             /\ Append(MeantBefore(r), o) \in Seq(CellOutput)
             /\ EditsAre(edits', Len(run)) /\ Handles(r)
<1> DEFINE o == NewOutput(r, kind, d)
           t == TaskCell(r)
           mine == run[r].cell
           failed == run[r].failed \/ kind = "error"
           h == HandlerAfter(r, kind)
           clears == run[r].clearNext /\ run[r].state = "executing"
           was == MeantBefore(r)
<1>1. messages < MaxMessages /\ shown' = shown /\ Handles(r)
  BY DEF AddToCellData, AddToCell, Message
<1>2. o \in CellOutput
  BY <1>1, NewOutputType
<1>3. run[r] \in Handler /\ mine \in Cells /\ t \in Cells /\ run[r].failed \in BOOLEAN
  BY HandlerFields, TaskCellType DEF Typed
<1>4. h \in Handler
  <2>1. NoOutput \in CellOutput \cup {NoOutput} /\ failed \in BOOLEAN
        /\ "no" \in {"no", "success", "failed"}
        /\ "over" \in {"clearing", "executing", "listening", "over"}
    BY <1>3
  <2>2. h = [run[r] EXCEPT !.stream = NoOutput, !.clearNext = FALSE, !.failed = failed]
    BY DEF HandlerAfter
  <2> HIDE DEF failed, h
  <2>3. [run[r] EXCEPT !.stream = NoOutput, !.clearNext = FALSE, !.failed = failed] \in Handler
    BY <1>3, <2>1, HandlerChanges
  <2> QED BY <2>2, <2>3
<1>5. run' = [run EXCEPT ![r] = h]
  BY DEF AddToCellData, AddToCell, HandlerAfter
<1>6. edits' = edits \o (IF clears THEN <<Replace(mine, <<>>)>> ELSE <<>>) \o <<Add(t, o)>>
  BY DEF AddToCellData, AddToCell
<1>7. EditsAre(edits, Len(run)) /\ edits \in Seq(GoodEdits) /\ Outcome \in Documents
      /\ shown \in Documents /\ 0 \in 0..Len(run)
  BY EditsOf, OutcomeType, RunFacts DEF Typed
<1> HIDE DEF o, t
<1>8. /\ Replace(mine, <<>>) \in GoodEdits /\ Replace(mine, <<>>).start = 0
      /\ Add(t, o) \in GoodEdits /\ Add(t, o).start = 0
  BY <1>2, <1>3, EditKinds
<1>9. ASSUME ~ clears
      PROVE  /\ EditsAre(edits', Len(run))
             /\ Outcome' = [Outcome EXCEPT ![t] = Append(Outcome[t], o)]
  <2>1. edits' = Append(edits, Add(t, o))
    <3>1. edits' = edits \o <<>> \o <<Add(t, o)>>
      BY <1>6, <1>9
    <3> QED BY <1>7, <3>1
  <2>2. Edited(Outcome, Add(t, o)) = [Outcome EXCEPT ![t] = Append(Outcome[t], o)]
    BY <1>2, <1>3, <1>7, EditedByAdd
  <2> QED BY <1>1, <1>7, <1>8, <2>1, <2>2, EditsGrow, OutcomeGrows DEF Typed
<1>10. ASSUME clears
       PROVE  /\ EditsAre(edits', Len(run))
              /\ Outcome' = IF t = mine THEN [Outcome EXCEPT ![t] = <<o>>]
                            ELSE [Outcome EXCEPT ![mine] = <<>>, ![t] = Append(Outcome[t], o)]
  <2> DEFINE es == Append(edits, Replace(mine, <<>>))
             cleared == [Outcome EXCEPT ![mine] = <<>>]
  <2>1. edits' = Append(es, Add(t, o))
    BY <1>6, <1>7, <1>10
  <2>2. EditsAre(es, Len(run))
    BY <1>7, <1>8, EditsGrow
  <2>3. es \in Seq(GoodEdits)
    BY <2>2 DEF EditsAre
  <2>4. Applied(shown, es) = cleared
    <3>1. Edited(Outcome, Replace(mine, <<>>)) = [Outcome EXCEPT ![mine] = <<>>]
      BY <1>3, <1>7, EditedByReplace
    <3>2. Applied(shown, Append(edits, Replace(mine, <<>>))) = Edited(Outcome, Replace(mine, <<>>))
      BY <1>7, <1>8, AppliedAppend DEF Outcome
    <3> QED BY <3>1, <3>2
  <2> HIDE DEF es
  <2>5. EditsAre(edits', Len(run))
    BY <1>8, <1>7, <2>1, <2>2, EditsGrow
  <2>6. Applied(shown, Append(es, Add(t, o))) = Edited(Applied(shown, es), Add(t, o))
    BY <1>7, <1>8, <2>3, AppliedAppend
  <2>7. cleared \in Documents
    BY <1>7, <2>3, <2>4, AppliedType
  <2>8. Edited(cleared, Add(t, o)) = [cleared EXCEPT ![t] = Append(cleared[t], o)]
    <3> HIDE DEF cleared
    <3> QED BY <1>2, <1>3, <2>7, EditedByAdd
  <2>9. [cleared EXCEPT ![t] = Append(cleared[t], o)]
          = IF t = mine THEN [Outcome EXCEPT ![t] = <<o>>]
            ELSE [Outcome EXCEPT ![mine] = <<>>, ![t] = Append(Outcome[t], o)]
    <3>1. Append(<<>>, o) = <<o>>
      OBVIOUS
    <3>2. Outcome \in [Cells -> Seq(CellOutput)]
      BY <1>7 DEF Documents
    <3>3. cleared[t] = IF t = mine THEN <<>> ELSE Outcome[t]
      BY <1>3, <3>2
    <3>4. CASE t = mine
      BY <1>3, <3>1, <3>2, <3>3, <3>4
    <3>5. CASE t # mine
      BY <1>3, <3>2, <3>3, <3>5
    <3> QED BY <3>4, <3>5
  <2>10. Outcome' = Applied(shown, edits')
    BY <1>1 DEF Outcome
  <2> QED BY <2>1, <2>4, <2>5, <2>6, <2>8, <2>9, <2>10
<1>11. was \in Seq(CellOutput)
  BY <1>3, OutcomeType DEF MeantBefore, Documents, Typed
<1>12. Append(was, o) \in Seq(CellOutput)
  BY <1>2, <1>11
<1>13. meant' = [meant EXCEPT ![mine] = Append(was, o)]
  BY DEF AddToCellData, AddToCell, o
<1>14. Outcome' = IF clears /\ t = mine THEN [Outcome EXCEPT ![t] = <<o>>]
                  ELSE IF clears THEN [Outcome EXCEPT ![mine] = <<>>, ![t] = Append(Outcome[t], o)]
                  ELSE [Outcome EXCEPT ![t] = Append(Outcome[t], o)]
  BY <1>9, <1>10
<1>15. EditsAre(edits', Len(run))
  BY <1>9, <1>10
<1> QED BY <1>1, <1>4, <1>5, <1>12, <1>13, <1>14, <1>15 DEF o, t

LEMMA CompletedWithErrorsStep ==
  ASSUME Typed, NEW r \in Runs, CompletedWithErrors(r)
  PROVE  LET o == NewOutput(r, "error", NoDisplay)
             c == run[r].cell
         IN  /\ Outcome' = [Outcome EXCEPT ![c] = Append(Outcome[c], o)]
             /\ meant' = [meant EXCEPT ![c] = Append(meant[c], o)]
             /\ Append(meant[c], o) \in Seq(CellOutput) /\ o \in CellOutput
             /\ EditsAre(edits', Len(run)) /\ messages < MaxMessages
<1> DEFINE o == NewOutput(r, "error", NoDisplay)
           c == run[r].cell
<1>1. messages < MaxMessages /\ shown' = shown /\ edits' = Append(edits, Add(c, o))
  BY DEF CompletedWithErrors
<1>2. o \in CellOutput
  BY <1>1, NewOutputType
<1>3. c \in Cells
  BY HandlerFields DEF Typed
<1>4. EditsAre(edits, Len(run)) /\ edits \in Seq(GoodEdits) /\ Outcome \in Documents
      /\ meant \in Documents /\ 0 \in 0..Len(run)
  BY EditsOf, OutcomeType, RunFacts DEF Typed
<1>5. meant' = [meant EXCEPT ![c] = Append(meant[c], o)]
  BY DEF CompletedWithErrors
<1>6. Append(meant[c], o) \in Seq(CellOutput)
  BY <1>2, <1>3, <1>4 DEF Documents
<1> HIDE DEF o, c
<1>7. Add(c, o) \in GoodEdits /\ Add(c, o).start = 0
  BY <1>2, <1>3, EditKinds
<1>8. Edited(Outcome, Add(c, o)) = [Outcome EXCEPT ![c] = Append(Outcome[c], o)]
  BY <1>2, <1>3, <1>4, EditedByAdd
<1>9. EditsAre(edits', Len(run)) /\ Outcome' = [Outcome EXCEPT ![c] = Append(Outcome[c], o)]
  BY <1>1, <1>4, <1>7, <1>8, EditsGrow, OutcomeGrows DEF Typed
<1> QED BY <1>1, <1>2, <1>5, <1>6, <1>9 DEF o, c

LEMMA StartStep ==
  ASSUME Typed, NEW c \in Cells, Start(c)
  PROVE  LET n == Len(run) + 1
         IN  /\ Outcome' = [Outcome EXCEPT ![c] = <<>>]
             /\ EditsAre(edits', n) /\ n \in 1..MaxRuns
             /\ run' \in Seq(Handler) /\ Len(run') = n /\ Runs' = 1..n /\ Runs = 1..(n - 1)
             /\ run'[n] = [cell |-> c, state |-> "clearing", comms |-> FALSE, clearNext |-> FALSE,
                           stream |-> NoOutput, failed |-> FALSE, reported |-> "no"]
             /\ \A q \in Runs : run'[q] = run[q] /\ q \in Runs'
<1> DEFINE n == Len(run) + 1
           h == [cell |-> c, state |-> "clearing", comms |-> FALSE, clearNext |-> FALSE,
                 stream |-> NoOutput, failed |-> FALSE, reported |-> "no"]
           e == [Replace(c, <<>>) EXCEPT !.start = n]
<1>1. /\ n <= MaxRuns /\ run' = Append(run, h) /\ edits' = Append(edits, e) /\ shown' = shown
  BY DEF Start
<1>2. h \in Handler
  BY DEF Handler
<1>3. Len(run) \in Nat /\ Runs = 1..Len(run) /\ run \in Seq(Handler)
  BY RunFacts DEF Typed, OutputsTypeOK
<1>4. n \in 1..MaxRuns /\ n \in 0..MaxRuns
  BY <1>1, <1>3, OutputBounds
<1>5. EditsAre(edits, Len(run)) /\ Outcome \in Documents
  BY EditsOf, OutcomeType DEF Typed
<1>6. EditsAre(edits, n)
  BY <1>3, <1>4, <1>5 DEF EditsAre
<1> HIDE DEF h
<1>7. /\ run' \in Seq(Handler) /\ Len(run') = n /\ DOMAIN run' = 1..n
      /\ run'[n] = h /\ \A q \in 1..Len(run) : run'[q] = run[q]
  BY <1>1, <1>2, <1>3
<1>8. Runs = 1..(n - 1) /\ \A q \in Runs : q \in 1..n
  BY <1>3
<1>9. e \in GoodEdits /\ e.start = n
  <2>1. \A r \in 0..MaxRuns : /\ [Replace(c, <<>>) EXCEPT !.start = r] \in GoodEdits
                              /\ [Replace(c, <<>>) EXCEPT !.start = r].start = r
    <3>1. <<>> \in Seq(CellOutput)
      OBVIOUS
    <3> QED BY <3>1, OutputBounds DEF Replace, GoodEdits, Edits
  <2> QED BY <1>4, <2>1
<1>10. Edited(Outcome, e) = [Outcome EXCEPT ![c] = <<>>]
  <2> HIDE DEF n
  <2>1. Edited(Outcome, [Replace(c, <<>>) EXCEPT !.start = n]) = [Outcome EXCEPT ![c] = <<>>]
    BY <1>5, EditedByReplace
  <2> QED BY <2>1
<1>11. EditsAre(edits', n)
  <2>1. e.start \in 0..n
    BY <1>3, <1>9
  <2> HIDE DEF e, n
  <2> QED BY <1>1, <1>6, <1>9, <2>1, EditsGrow
<1>12. Outcome' = [Outcome EXCEPT ![c] = <<>>]
  <2> HIDE DEF e, n
  <2> QED BY <1>1, <1>9, <1>10, OutcomeGrows DEF Typed
<1> QED BY <1>3, <1>4, <1>7, <1>8, <1>11, <1>12 DEF h, Runs

LEMMA ClearOutputStep ==
  ASSUME Typed, NEW r \in Runs, NEW wait \in BOOLEAN, ClearOutput(r, wait)
  PROVE  LET h == IF wait THEN [run[r] EXCEPT !.clearNext = TRUE]
                  ELSE [run[r] EXCEPT !.stream = NoOutput]
         IN  /\ run' = [run EXCEPT ![r] = h] /\ h \in Handler
             /\ Outcome' = IF wait THEN Outcome ELSE [Outcome EXCEPT ![TaskCell(r)] = <<>>]
             /\ EditsAre(edits', Len(run)) /\ Handles(r) /\ messages < MaxMessages
<1> DEFINE h == IF wait THEN [run[r] EXCEPT !.clearNext = TRUE]
                ELSE [run[r] EXCEPT !.stream = NoOutput]
           t == TaskCell(r)
<1>1. messages < MaxMessages /\ shown' = shown /\ Handles(r)
  BY DEF ClearOutput, Message
<1>2. run[r] \in Handler /\ t \in Cells
  BY HandlerFields, TaskCellType DEF Typed
<1>3. run' = [run EXCEPT ![r] = h]
  <2>1. CASE wait
    BY <2>1 DEF ClearOutput
  <2>2. CASE ~ wait
    BY <2>2 DEF ClearOutput
  <2> QED BY <2>1, <2>2
<1>4. h \in Handler
  <2>1. NoOutput \in CellOutput \cup {NoOutput} /\ TRUE \in BOOLEAN
        /\ "no" \in {"no", "success", "failed"}
        /\ "over" \in {"clearing", "executing", "listening", "over"}
    OBVIOUS
  <2>2. [run[r] EXCEPT !.clearNext = TRUE] \in Handler /\ [run[r] EXCEPT !.stream = NoOutput] \in Handler
    BY <1>2, <2>1, HandlerChanges
  <2> QED BY <2>2
<1>5. EditsAre(edits, Len(run)) /\ Outcome \in Documents /\ 0 \in 0..Len(run)
  BY EditsOf, OutcomeType, RunFacts DEF Typed
<1>6. CASE wait
  <2>1. edits' = edits
    BY <1>6 DEF ClearOutput
  <2>2. Outcome' = Outcome
    BY <1>1, <2>1 DEF Outcome
  <2> QED BY <1>1, <1>3, <1>4, <1>5, <1>6, <2>1, <2>2
<1>7. CASE ~ wait
  <2>1. edits' = Append(edits, Replace(t, <<>>))
    BY <1>7 DEF ClearOutput
  <2> HIDE DEF t
  <2>2. Replace(t, <<>>) \in GoodEdits /\ Replace(t, <<>>).start = 0
    <3>1. <<>> \in Seq(CellOutput)
      OBVIOUS
    <3> QED BY <1>2, <3>1, OutputBounds DEF Replace, GoodEdits, Edits
  <2>3. Edited(Outcome, Replace(t, <<>>)) = [Outcome EXCEPT ![t] = <<>>]
    BY <1>2, <1>5, EditedByReplace
  <2>4. EditsAre(edits', Len(run)) /\ Outcome' = [Outcome EXCEPT ![t] = <<>>]
    BY <1>1, <1>5, <2>1, <2>2, <2>3, EditsGrow, OutcomeGrows DEF Typed
  <2> QED BY <1>1, <1>3, <1>4, <1>7, <2>4 DEF t
<1> QED BY <1>6, <1>7

Updated(outputs, d, chunk) ==
  [i \in DOMAIN outputs |->
     IF outputs[i].display = d THEN [outputs[i] EXCEPT !.text = <<chunk>>] ELSE outputs[i]]

LEMMA UpdatedType ==
  ASSUME NEW s \in Seq(CellOutput), NEW d, NEW chunk \in Chunks
  PROVE  /\ Updated(s, d, chunk) \in Seq(CellOutput)
         /\ Len(Updated(s, d, chunk)) = Len(s) /\ DOMAIN Updated(s, d, chunk) = DOMAIN s
         /\ \A i \in DOMAIN s :
               Updated(s, d, chunk)[i] = IF s[i].display = d
                                         THEN [s[i] EXCEPT !.text = <<chunk>>] ELSE s[i]
<1>1. Updated(s, d, chunk) = [i \in 1..Len(s) |->
         IF s[i].display = d THEN [s[i] EXCEPT !.text = <<chunk>>] ELSE s[i]]
  BY DEF Updated
<1>2. ASSUME NEW i \in 1..Len(s)
      PROVE  [s[i] EXCEPT !.text = <<chunk>>] \in CellOutput /\ s[i] \in CellOutput
  <2>1. s[i] \in CellOutput /\ <<chunk>> \in Seq(Chunks)
    OBVIOUS
  <2> QED BY <2>1, OutputFields
<1>3. \A i \in 1..Len(s) :
         (IF s[i].display = d THEN [s[i] EXCEPT !.text = <<chunk>>] ELSE s[i]) \in CellOutput
  BY <1>2
<1> QED BY <1>1, <1>3

LEMMA UpdateStep ==
  ASSUME Typed, NEW r \in Runs, NEW d \in Displays, NEW chunk \in Chunks,
         UpdateDisplay(r, d, chunk)
  PROVE  LET kept == tracked[d] = NoOutput \/ tracked[d].text = <<chunk>>
         IN  /\ Outcome' = IF kept THEN Outcome
                           ELSE [c \in Cells |-> WithText(Outcome[c], tracked[d].id, <<chunk>>)]
             /\ meant' = [c \in Cells |-> Updated(meant[c], d, chunk)] /\ meant' \in Documents
             /\ EditsAre(edits', Len(run)) /\ messages < MaxMessages
<1> DEFINE output == tracked[d]
           kept == output = NoOutput \/ output.text = <<chunk>>
           t == TaskCell(r)
           new == [output EXCEPT !.text = <<chunk>>]
<1>1. messages < MaxMessages /\ shown' = shown
  BY DEF UpdateDisplay, Message
<1>2. edits' = IF kept THEN edits ELSE Append(edits, ReplaceItems(t, new))
  BY DEF UpdateDisplay
<1>3. meant' = [c \in Cells |-> Updated(meant[c], d, chunk)]
  BY DEF UpdateDisplay, Updated
<1>4. t \in Cells
  BY TaskCellType
<1>5. EditsAre(edits, Len(run)) /\ Outcome \in Documents /\ meant \in Documents /\ 0 \in 0..Len(run)
  BY EditsOf, OutcomeType, RunFacts DEF Typed
<1>6. meant' \in Documents
  <2>1. \A c \in Cells : Updated(meant[c], d, chunk) \in Seq(CellOutput)
    BY <1>5, UpdatedType DEF Documents
  <2> QED BY <1>3, <2>1 DEF Documents
<1>7. CASE kept
  <2>1. edits' = edits
    BY <1>2, <1>7
  <2>2. Outcome' = Outcome
    BY <1>1, <2>1 DEF Outcome
  <2> QED BY <1>1, <1>3, <1>5, <1>6, <1>7, <2>1, <2>2
<1>8. CASE ~ kept
  <2>1. edits' = Append(edits, ReplaceItems(t, new))
    BY <1>2, <1>8
  <2>2. output \in CellOutput
    <3>1. output \in CellOutput \cup {NoOutput}
      BY DEF Typed, OutputsTypeOK
    <3> QED BY <1>8, <3>1
  <2>3. <<chunk>> \in Seq(Chunks)
    OBVIOUS
  <2>4. new \in CellOutput /\ new.id = output.id /\ new.text = <<chunk>>
    BY <2>2, <2>3, OutputFields
  <2> HIDE DEF new, t
  <2>5. ReplaceItems(t, new) \in GoodEdits /\ ReplaceItems(t, new).start = 0
    BY <1>4, <2>4, EditKinds
  <2>6. Edited(Outcome, ReplaceItems(t, new)) = [c \in Cells |-> WithText(Outcome[c], new.id, new.text)]
    BY <1>4, <1>5, <2>4, EditedByItems
  <2>7. EditsAre(edits', Len(run))
        /\ Outcome' = [c \in Cells |-> WithText(Outcome[c], new.id, new.text)]
    BY <1>1, <1>5, <2>1, <2>5, <2>6, EditsGrow, OutcomeGrows DEF Typed
  <2>8. Outcome' = [c \in Cells |-> WithText(Outcome[c], output.id, <<chunk>>)]
    BY <2>4, <2>7
  <2> QED BY <1>1, <1>3, <1>6, <1>8, <2>7, <2>8
<1> QED BY <1>7, <1>8

LEMMA OutcomeKept ==
  ASSUME shown' = shown, edits' = edits
  PROVE  Outcome' = Outcome
BY DEF Outcome

LEMMA UserClearsStep ==
  ASSUME Typed, NEW c \in Cells, UserClears(c)
  PROVE  /\ Outcome' = [Outcome EXCEPT ![c] = <<>>] /\ shown' \in Documents
<1>1. shown \in Documents /\ edits = <<>> /\ edits' = <<>> /\ shown' = [shown EXCEPT ![c] = <<>>]
  BY OutcomeType DEF UserClears, Typed
<1>2. [shown EXCEPT ![c] = <<>>] \in Documents
  BY <1>1 DEF Documents
<1>3. Outcome = shown
  BY <1>1, AppliedEmpty DEF Outcome
<1>4. Outcome' = shown'
  BY <1>1, <1>2, AppliedEmpty DEF Outcome
<1> QED BY <1>1, <1>2, <1>3, <1>4

LEMMA ApplyStep ==
  ASSUME Typed, NEW n \in DOMAIN edits, ApplyEdits(n)
  PROVE  LET started == {edits[k].start : k \in 1..n} \ {0}
         IN  /\ Outcome' = Outcome /\ shown' \in Documents
             /\ EditsAre(edits', Len(run))
             /\ Len(edits') = Len(edits) - n /\ \A k \in DOMAIN edits' : edits'[k] = edits[n + k]
             /\ \E a, b \in Seq(Event(Len(run))) :
                   /\ events' = events \o a \o b
                   /\ \A i \in DOMAIN a : a[i].start = 0 /\ ~ a[i].user
                   /\ b = <<>> <=> started = {}
                   /\ Len(b) <= 1
                   /\ b # <<>> => b[1].start \in started /\ ~ b[1].user
<1> DEFINE started == {edits[k].start : k \in 1..n} \ {0}
           cleared == {c \in Cells : After(n)[c] = <<>> /\ \E k \in 0..(n - 1) : After(k)[c] # <<>>}
           a == IF cleared # {} THEN <<[cleared |-> cleared, user |-> FALSE, start |-> 0]>> ELSE <<>>
           b == IF started = {} THEN <<>>
                ELSE <<[cleared |-> {}, user |-> FALSE, start |-> CHOOSE r \in started : TRUE]>>
<1>1. EditsAre(edits, Len(run)) /\ shown \in Documents /\ edits \in Seq(GoodEdits)
  BY EditsOf, OutcomeType DEF Typed
<1>2. n \in 1..Len(edits) /\ n \in 0..Len(edits) /\ Len(edits) \in Nat /\ DOMAIN edits = 1..Len(edits)
  BY <1>1
<1>3. /\ shown' = Applied(shown, SubSeq(edits, 1, n)) /\ edits' = SubSeq(edits, n + 1, Len(edits))
      /\ events' = events \o a \o b
  BY DEF ApplyEdits, After
<1>4. /\ edits' \in Seq(GoodEdits) /\ shown' \in Documents
      /\ Applied(shown', edits') = Applied(shown, edits)
  BY <1>1, <1>2, <1>3, AppliedSplit
<1>5. Outcome' = Outcome
  BY <1>4 DEF Outcome
<1>6. Len(edits') = Len(edits) - n /\ DOMAIN edits' = 1..(Len(edits) - n)
      /\ \A k \in 1..(Len(edits) - n) : edits'[k] = edits[n + k]
  BY <1>1, <1>2, <1>3, SMTT(20)
<1>7. \A k \in DOMAIN edits : edits[k].start \in 0..Len(run)
  BY <1>1 DEF EditsAre
<1>8. EditsAre(edits', Len(run))
  <2>1. \A k \in DOMAIN edits' : edits'[k].start \in 0..Len(run)
    <3>1. \A k \in 1..(Len(edits) - n) : n + k \in 1..Len(edits)
      BY <1>2
    <3> QED BY <1>2, <1>6, <1>7, <3>1
  <2>2. Len(run) \in 0..MaxRuns
    BY <1>1 DEF EditsAre
  <2> QED BY <1>4, <2>1, <2>2 DEF EditsAre
<1>9. started \subseteq 0..Len(run)
  <2>1. \A k \in 1..n : k \in DOMAIN edits
    BY <1>2
  <2> QED BY <1>7, <2>1
<1>10. 0 \in 0..Len(run)
  BY RunFacts DEF Typed
<1>11. a \in Seq(Event(Len(run))) /\ \A i \in DOMAIN a : a[i].start = 0 /\ ~ a[i].user
  <2>1. cleared \in SUBSET Cells
    OBVIOUS
  <2> HIDE DEF cleared
  <2>2. [cleared |-> cleared, user |-> FALSE, start |-> 0] \in Event(Len(run))
    BY <1>10, <2>1 DEF Event
  <2> QED BY <2>2
<1>12. /\ b \in Seq(Event(Len(run))) /\ (b = <<>> <=> started = {}) /\ Len(b) <= 1
       /\ b # <<>> => b[1].start \in started /\ ~ b[1].user
  <2> DEFINE r == CHOOSE r \in started : TRUE
  <2> HIDE DEF started
  <2>1. started # {} => r \in started
    OBVIOUS
  <2> HIDE DEF r
  <2>2. started # {} => [cleared |-> {}, user |-> FALSE, start |-> r] \in Event(Len(run))
    BY <1>9, <2>1 DEF Event
  <2>3. b = IF started = {} THEN <<>> ELSE <<[cleared |-> {}, user |-> FALSE, start |-> r]>>
    BY DEF r
  <2> DEFINE e == [cleared |-> {}, user |-> FALSE, start |-> r]
  <2>4. e.start = r /\ ~ e.user
    OBVIOUS
  <2> HIDE DEF b, e
  <2>5. CASE started = {}
    <3>1. b = <<>>
      BY <2>3, <2>5
    <3> QED BY <2>5, <3>1
  <2>6. CASE started # {}
    <3>1. b = <<e>> /\ e \in Event(Len(run))
      BY <2>2, <2>3, <2>6 DEF e
    <3>2. b \in Seq(Event(Len(run))) /\ Len(b) = 1 /\ b # <<>> /\ b[1] = e
      BY <3>1
    <3> QED BY <2>1, <2>4, <2>6, <3>2
  <2> QED BY <2>5, <2>6
<1> HIDE DEF a, b, started
<1>13. \E x, y \in Seq(Event(Len(run))) :
          /\ events' = events \o x \o y
          /\ \A i \in DOMAIN x : x[i].start = 0 /\ ~ x[i].user
          /\ y = <<>> <=> started = {}
          /\ Len(y) <= 1
          /\ y # <<>> => y[1].start \in started /\ ~ y[1].user
  BY <1>3, <1>11, <1>12
<1> QED BY <1>4, <1>5, <1>6, <1>8, <1>13 DEF started

LEMMA ChangedStep ==
  ASSUME Typed, OutputsChanged
  PROVE  LET cleared == Head(events).cleared
             removed == {lastDisplay[c] : c \in cleared} \cap Displays
         IN  /\ cleared \subseteq Cells /\ events # <<>> /\ Head(events).start = 0
             /\ Outcome' = Outcome
             /\ TrackerTyped' /\ stray' \subseteq {0} \cup Chunks /\ stray \subseteq stray'
             /\ \A d \in Displays \ removed : tracked'[d] = tracked[d]
             /\ \A d \in removed : /\ tracked'[d] = NoOutput
                                   /\ IsThere(tracked[d]) => tracked[d].id \in stray'
             /\ run' \in Seq(Handler) /\ Len(run') = Len(run) /\ Runs' = Runs
             /\ \A r \in Runs :
                   run'[r] = IF run[r].cell \in cleared /\ run[r].state \in {"executing", "listening"}
                             THEN [run[r] EXCEPT !.stream = NoOutput, !.failed = FALSE]
                             ELSE run[r]
<1> DEFINE cleared == Head(events).cleared
           removed == {lastDisplay[c] : c \in cleared} \cap Displays
           listens(r) == run[r].cell \in cleared /\ run[r].state \in {"executing", "listening"}
           f == [r \in Runs |-> IF listens(r)
                                THEN [run[r] EXCEPT !.stream = NoOutput, !.failed = FALSE]
                                ELSE run[r]]
<1>1. events # <<>> /\ Head(events).start = 0 /\ shown' = shown /\ edits' = edits
  BY DEF OutputsChanged
<1>2. cleared \subseteq Cells
  <2>1. events \in Seq(Event(Len(run)))
    BY TypedParts DEF RestTyped
  <2>2. Head(events) \in Event(Len(run))
    BY <1>1, <2>1
  <2> QED BY <2>2 DEF Event
<1>3. Outcome' = Outcome
  BY <1>1, OutcomeKept
<1>4. TrackerForgets(cleared)
  BY DEF OutputsChanged
<1>5. run' = f
  <2>1. run' = [r \in Runs |-> IF r \in {q \in Runs : listens(q)}
                               THEN [run[r] EXCEPT !.stream = NoOutput, !.failed = FALSE]
                               ELSE run[r]]
    BY DEF OutputsChanged
  <2> HIDE DEF cleared
  <2> QED BY <2>1
<1>6. f \in [Runs -> Handler]
  <2>1. ASSUME NEW r \in Runs
        PROVE  run[r] \in Handler /\ [run[r] EXCEPT !.stream = NoOutput, !.failed = FALSE] \in Handler
    <3>1. NoOutput \in CellOutput \cup {NoOutput} /\ FALSE \in BOOLEAN
          /\ "no" \in {"no", "success", "failed"}
          /\ "over" \in {"clearing", "executing", "listening", "over"}
      OBVIOUS
    <3>2. run[r] \in Handler
      BY HandlerFields DEF Typed
    <3> QED BY <3>1, <3>2, HandlerChanges
  <2> HIDE DEF listens
  <2> QED BY <2>1
<1>7. run' \in Seq(Handler) /\ Len(run') = Len(run) /\ Runs' = Runs
  <2> HIDE DEF f
  <2> QED BY <1>5, <1>6, RunChanges
<1>8. /\ tracked \in [Displays -> CellOutput \cup {NoOutput}]
      /\ lastDisplay \in [Cells -> Displays \cup {NoDisplay}]
      /\ stray \subseteq {0} \cup Chunks
  BY DEF Typed, OutputsTypeOK
<1>9. /\ tracked' = [d \in Displays |-> IF d \in removed THEN NoOutput ELSE tracked[d]]
      /\ lastDisplay' = [c \in Cells |-> IF c \in cleared THEN NoDisplay ELSE lastDisplay[c]]
      /\ stray' = stray \cup {tracked[d].id : d \in {e \in removed : IsThere(tracked[e])}}
  BY <1>4 DEF TrackerForgets
<1>10. \A o \in CellOutput \cup {NoOutput} : o.id \in {0} \cup Chunks
  BY Sizes, OutputFields DEF CellOutput
<1>11. removed \subseteq Displays
  OBVIOUS
<1> HIDE DEF removed, cleared
<1>12. TrackerTyped'
  BY <1>8, <1>9 DEF TrackerTyped
<1>13. stray' \subseteq {0} \cup Chunks /\ stray \subseteq stray'
  BY <1>8, <1>9, <1>10, <1>11
<1>14. /\ \A d \in Displays \ removed : tracked'[d] = tracked[d]
       /\ \A d \in removed : /\ tracked'[d] = NoOutput
                             /\ IsThere(tracked[d]) => tracked[d].id \in stray'
  BY <1>9, <1>11
<1>15. \A r \in Runs : run'[r] = IF listens(r)
                                 THEN [run[r] EXCEPT !.stream = NoOutput, !.failed = FALSE]
                                 ELSE run[r]
  BY <1>5
<1> QED BY <1>1, <1>2, <1>3, <1>7, <1>12, <1>13, <1>14, <1>15 DEF removed, cleared

-----------------------------------------------------------------------------
(* Every step keeps the types.                                             *)
LEMMA MeantOfOne ==
  ASSUME Typed, NEW c \in Cells, NEW s \in Seq(CellOutput), meant' = [meant EXCEPT ![c] = s],
         shown' = shown
  PROVE  DocumentsTyped'
BY OutcomeType DEF Typed, DocumentsTyped, Documents

LEMMA MessageTyped ==
  ASSUME Typed, NEW r \in Runs, Message(r)
  PROVE  /\ messages < MaxMessages /\ messages' = messages + 1 /\ messages' \in 0..MaxMessages
         /\ active' = active /\ shown' = shown /\ events' = events
BY OutputBounds DEF Typed, OutputsTypeOK, Message

LEMMA ActiveTyped == ASSUME Typed PROVE active \in {0} \cup Runs
BY DEF Typed, OutputsTypeOK

LEMMA StreamTyped ==
  ASSUME Typed, NEW r \in Runs, NEW name \in Streams, Stream(r, name)
  PROVE  Typed' /\ Runs' = Runs
<1> DEFINE o == StreamOutput(r, name)
           h == [run[r] EXCEPT !.stream = o, !.clearNext = FALSE]
<1>1. /\ run' = [run EXCEPT ![r] = h] /\ h \in Handler
      /\ meant' = [meant EXCEPT ![run[r].cell] =
                     MeantWithText(MeantBefore(r), NewOutput(r, name, NoDisplay))]
      /\ MeantWithText(MeantBefore(r), NewOutput(r, name, NoDisplay)) \in Seq(CellOutput)
      /\ EditsAre(edits', Len(run))
  BY StreamStep
<1> HIDE DEF h
<1>2. /\ run' \in Seq(Handler) /\ Len(run') = Len(run) /\ Runs' = Runs /\ Len(run') <= MaxRuns
  BY <1>1, RunStep
<1>3. messages' \in 0..MaxMessages /\ active' = active /\ shown' = shown /\ events' = events
  BY MessageTyped DEF Stream
<1>4. RunsTyped' /\ EditsAre(edits', Len(run'))
  BY <1>1, <1>2, <1>3, ActiveTyped DEF RunsTyped
<1>5. run[r].cell \in Cells
  BY HandlerFields DEF Typed
<1>6. DocumentsTyped'
  BY <1>1, <1>3, <1>5, MeantOfOne
<1>7. TrackerTyped'
  BY TypedParts DEF Stream, TrackerTyped, trackerVars
<1>8. RestTyped'
  <2>1. /\ events \in Seq(Event(Len(run))) /\ toClear \subseteq Runs /\ misled \subseteq Runs
        /\ spoiled \subseteq Cells /\ stray \subseteq {0} \cup Chunks
    BY TypedParts DEF RestTyped
  <2>2. toClear' \subseteq Runs /\ misled' = misled /\ stray' = stray
    BY <2>1 DEF Stream
  <2>3. spoiled' \subseteq Cells
    BY <1>5, <2>1, TaskCellType DEF Stream
  <2> QED BY <1>2, <1>3, <2>1, <2>2, <2>3 DEF RestTyped
<1> QED BY <1>2, <1>4, <1>6, <1>7, <1>8, PartsTyped

LEMMA AddTyped ==
  ASSUME Typed, NEW r \in Runs, NEW kind \in {"data", "error"},
         NEW d \in Displays \cup {NoDisplay}, AddToCellData(r, kind, d)
  PROVE  Typed' /\ Runs' = Runs
<1> DEFINE o == NewOutput(r, kind, d)
           h == HandlerAfter(r, kind)
<1>1. /\ run' = [run EXCEPT ![r] = h] /\ h \in Handler
      /\ meant' = [meant EXCEPT ![run[r].cell] = Append(MeantBefore(r), o)]
      /\ Append(MeantBefore(r), o) \in Seq(CellOutput)
      /\ EditsAre(edits', Len(run))
  BY AddStep
<1> HIDE DEF h
<1>2. /\ run' \in Seq(Handler) /\ Len(run') = Len(run) /\ Runs' = Runs /\ Len(run') <= MaxRuns
  BY <1>1, RunStep
<1>3. /\ messages' \in 0..MaxMessages /\ active' = active /\ shown' = shown /\ events' = events
      /\ messages < MaxMessages
  BY MessageTyped DEF AddToCellData, AddToCell
<1>4. RunsTyped' /\ EditsAre(edits', Len(run'))
  BY <1>1, <1>2, <1>3, ActiveTyped DEF RunsTyped
<1>5. run[r].cell \in Cells /\ o \in CellOutput
  BY <1>3, HandlerFields, NewOutputType DEF Typed
<1>6. DocumentsTyped'
  BY <1>1, <1>3, <1>5, MeantOfOne
<1>7. /\ tracked \in [Displays -> CellOutput \cup {NoOutput}]
      /\ lastDisplay \in [Cells -> Displays \cup {NoDisplay}]
      /\ stray \subseteq {0} \cup Chunks
  BY DEF Typed, OutputsTypeOK
<1>8. TrackerTyped' /\ stray' \subseteq {0} \cup Chunks
  <2>1. CASE d = NoDisplay
    <3>1. tracked' = tracked /\ lastDisplay' = lastDisplay /\ stray' = stray
      BY <2>1 DEF AddToCellData, AddToCell, trackerVars
    <3> QED BY <1>7, <3>1 DEF TrackerTyped
  <2>2. CASE d # NoDisplay
    <3>1. Track(run[r].cell, d, o)
      BY <2>2 DEF AddToCellData, AddToCell
    <3>2. d \in Displays
      BY <2>2
    <3>3. tracked[d].id \in {0} \cup Chunks
      <4>1. \A x \in CellOutput \cup {NoOutput} : x.id \in {0} \cup Chunks
        BY Sizes DEF CellOutput
      <4> QED BY <1>7, <3>2, <4>1
    <3> HIDE DEF o
    <3>4. /\ tracked' = [tracked EXCEPT ![d] = o] /\ stray' = stray \cup {tracked[d].id}
          /\ lastDisplay' = [lastDisplay EXCEPT ![run[r].cell] = d]
      BY <3>1 DEF Track
    <3> QED BY <1>5, <1>7, <3>2, <3>3, <3>4 DEF TrackerTyped
  <2> QED BY <2>1, <2>2
<1>9. RestTyped'
  <2>1. /\ events \in Seq(Event(Len(run))) /\ toClear \subseteq Runs /\ misled \subseteq Runs
        /\ spoiled \subseteq Cells
    BY TypedParts DEF RestTyped
  <2>2. toClear' \subseteq Runs /\ misled' \subseteq Runs
    BY <2>1 DEF AddToCellData, AddToCell
  <2>3. spoiled' \subseteq Cells
    BY <1>5, <2>1, TaskCellType DEF AddToCellData, AddToCell
  <2> QED BY <1>2, <1>3, <1>8, <2>1, <2>2, <2>3 DEF RestTyped
<1> QED BY <1>2, <1>4, <1>6, <1>8, <1>9, PartsTyped

LEMMA ClearOutputTyped ==
  ASSUME Typed, NEW r \in Runs, NEW wait \in BOOLEAN, ClearOutput(r, wait)
  PROVE  Typed' /\ Runs' = Runs
<1> DEFINE h == IF wait THEN [run[r] EXCEPT !.clearNext = TRUE]
                ELSE [run[r] EXCEPT !.stream = NoOutput]
<1>1. run' = [run EXCEPT ![r] = h] /\ h \in Handler /\ EditsAre(edits', Len(run))
  BY ClearOutputStep
<1> HIDE DEF h
<1>2. /\ run' \in Seq(Handler) /\ Len(run') = Len(run) /\ Runs' = Runs /\ Len(run') <= MaxRuns
  BY <1>1, RunStep
<1>3. messages' \in 0..MaxMessages /\ active' = active /\ shown' = shown /\ events' = events
  BY MessageTyped DEF ClearOutput
<1>4. RunsTyped' /\ EditsAre(edits', Len(run'))
  BY <1>1, <1>2, <1>3, ActiveTyped DEF RunsTyped
<1>5. run[r].cell \in Cells /\ <<>> \in Seq(CellOutput)
  BY HandlerFields DEF Typed
<1>6. DocumentsTyped'
  <2>1. meant' = meant \/ meant' = [meant EXCEPT ![run[r].cell] = <<>>]
    BY DEF ClearOutput
  <2>2. CASE meant' = meant
    BY <1>3, <2>2, TypedParts DEF DocumentsTyped
  <2> QED BY <1>3, <1>5, <2>1, <2>2, MeantOfOne
<1>7. TrackerTyped'
  BY TypedParts DEF ClearOutput, TrackerTyped, trackerVars
<1>8. RestTyped'
  <2>1. /\ events \in Seq(Event(Len(run))) /\ toClear \subseteq Runs /\ misled \subseteq Runs
        /\ spoiled \subseteq Cells /\ stray \subseteq {0} \cup Chunks
    BY TypedParts DEF RestTyped
  <2>2. toClear' \subseteq Runs /\ misled' = misled /\ stray' = stray /\ spoiled' \subseteq Cells
    BY <2>1, TaskCellType DEF ClearOutput
  <2> QED BY <1>2, <1>3, <2>1, <2>2 DEF RestTyped
<1> QED BY <1>2, <1>4, <1>6, <1>7, <1>8, PartsTyped

LEMMA UpdateTyped ==
  ASSUME Typed, NEW r \in Runs, NEW d \in Displays, NEW chunk \in Chunks,
         UpdateDisplay(r, d, chunk)
  PROVE  Typed' /\ Runs' = Runs
<1>1. meant' \in Documents /\ EditsAre(edits', Len(run))
  BY UpdateStep
<1>2. messages' \in 0..MaxMessages /\ active' = active /\ shown' = shown /\ events' = events
  BY MessageTyped DEF UpdateDisplay
<1>3. /\ run' = run /\ tracked' = tracked /\ lastDisplay' = lastDisplay /\ toClear' = toClear
      /\ stray' = stray /\ misled' = misled
  BY DEF UpdateDisplay, trackerVars
<1>4. RunsTyped' /\ TrackerTyped'
  BY <1>2, <1>3, TypedParts DEF RunsTyped, TrackerTyped, Runs
<1>5. DocumentsTyped'
  BY <1>1, <1>2, TypedParts DEF DocumentsTyped
<1>6. spoiled' \subseteq Cells
  BY TypedParts DEF RestTyped, UpdateDisplay
<1>7. RestTyped'
  BY <1>2, <1>3, <1>6, TypedParts DEF RestTyped, Runs
<1> QED BY <1>1, <1>3, <1>4, <1>5, <1>7, PartsTyped DEF Runs

LEMMA CommOpenTyped ==
  ASSUME Typed, NEW r \in Runs, CommOpen(r)
  PROVE  Typed' /\ Runs' = Runs
<1> DEFINE h == [run[r] EXCEPT !.comms = TRUE]
<1>1. run' = [run EXCEPT ![r] = h]
  BY DEF CommOpen
<1>2. h \in Handler
  <2>1. run[r] \in Handler /\ NoOutput \in CellOutput \cup {NoOutput} /\ TRUE \in BOOLEAN
        /\ "no" \in {"no", "success", "failed"}
        /\ "over" \in {"clearing", "executing", "listening", "over"}
    BY HandlerFields DEF Typed
  <2> QED BY <2>1, HandlerChanges
<1> HIDE DEF h
<1>3. /\ run' \in Seq(Handler) /\ Len(run') = Len(run) /\ Runs' = Runs /\ Len(run') <= MaxRuns
  BY <1>1, <1>2, RunStep
<1>4. UNCHANGED <<active, tracked, lastDisplay, shown, edits, events, messages, meant, toClear,
                  stray, misled, spoiled>>
  BY DEF CommOpen, trackerVars, documentVars, meaning
<1>5. RunsTyped' /\ TrackerTyped' /\ DocumentsTyped' /\ RestTyped' /\ EditsAre(edits', Len(run'))
  BY <1>3, <1>4, TypedParts DEF RunsTyped, TrackerTyped, DocumentsTyped, RestTyped
<1> QED BY <1>3, <1>5, PartsTyped

(* The end of a run.                                                       *)
LEMMA EndStep ==
  ASSUME Typed, NEW r \in 1..MaxRuns, NEW reported \in {"no", "success", "failed"},
         RunEnds(r, reported)
  PROVE  LET h == [run[r] EXCEPT !.state = IF run[r].comms THEN "listening" ELSE "over",
                                 !.stream = NoOutput, !.reported = reported]
         IN  /\ r \in Runs /\ run[r].state = "executing" /\ run' = [run EXCEPT ![r] = h]
             /\ RunsTyped' /\ Len(run') = Len(run) /\ Runs' = Runs
             /\ run'[r] = h /\ \A q \in Runs \ {r} : run'[q] = run[q]
<1> DEFINE st == IF run[r].comms THEN "listening" ELSE "over"
           h == [run[r] EXCEPT !.state = st, !.stream = NoOutput, !.reported = reported]
<1>1. r \in Runs /\ run[r].state = "executing" /\ run' = [run EXCEPT ![r] = h]
  BY DEF RunEnds
<1>2. h \in Handler
  <2>1. run[r] \in Handler /\ NoOutput \in CellOutput \cup {NoOutput} /\ TRUE \in BOOLEAN
        /\ st \in {"clearing", "executing", "listening", "over"}
    BY <1>1, HandlerFields DEF Typed
  <2> HIDE DEF st
  <2> QED BY <2>1, HandlerChanges
<1> HIDE DEF h
<1>3. /\ run' \in Seq(Handler) /\ Len(run') = Len(run) /\ Runs' = Runs /\ Len(run') <= MaxRuns
      /\ run'[r] = h /\ \A q \in Runs \ {r} : run'[q] = run[q]
  BY <1>1, <1>2, RunStep
<1>4. active' \in {0} \cup Runs
  BY ActiveTyped DEF RunEnds
<1> QED BY <1>1, <1>3, <1>4 DEF RunsTyped, h

LEMMA CompletedSuccessfullyTyped ==
  ASSUME Typed, NEW r \in 1..MaxRuns, CompletedSuccessfully(r)
  PROVE  Typed' /\ Runs' = Runs
<1>1. PICK rep \in {"no", "success", "failed"} : RunEnds(r, rep)
  BY DEF CompletedSuccessfully
<1>2. RunsTyped' /\ Len(run') = Len(run) /\ Runs' = Runs
  BY <1>1, EndStep
<1>3. UNCHANGED <<tracked, lastDisplay, shown, edits, events, messages, meant, toClear,
                  stray, misled, spoiled>>
  BY DEF CompletedSuccessfully, trackerVars, documentVars, meaning
<1>4. TrackerTyped' /\ DocumentsTyped' /\ RestTyped' /\ EditsAre(edits', Len(run'))
  BY <1>2, <1>3, TypedParts DEF TrackerTyped, DocumentsTyped, RestTyped
<1> QED BY <1>2, <1>4, PartsTyped

LEMMA CompletedWithErrorsTyped ==
  ASSUME Typed, NEW r \in 1..MaxRuns, CompletedWithErrors(r)
  PROVE  Typed' /\ Runs' = Runs
<1>1. RunEnds(r, "failed")
  BY DEF CompletedWithErrors
<1>2. RunsTyped' /\ Len(run') = Len(run) /\ Runs' = Runs /\ r \in Runs
  BY <1>1, EndStep
<1>3. UNCHANGED <<tracked, lastDisplay, shown, events, toClear, stray, misled, spoiled>>
  BY DEF CompletedWithErrors, trackerVars
<1> DEFINE c == run[r].cell
           s == Append(meant[c], NewOutput(r, "error", NoDisplay))
<1>4. /\ meant' = [meant EXCEPT ![c] = s] /\ s \in Seq(CellOutput)
      /\ EditsAre(edits', Len(run)) /\ messages < MaxMessages
  BY <1>2, CompletedWithErrorsStep
<1>5. c \in Cells
  BY <1>2, HandlerFields DEF Typed
<1> HIDE DEF c, s
<1>6. DocumentsTyped'
  BY <1>3, <1>4, <1>5, MeantOfOne
<1>7. messages' \in 0..MaxMessages
  BY <1>2, <1>4, NewOutputType DEF CompletedWithErrors
<1>8. TrackerTyped' /\ RestTyped' /\ EditsAre(edits', Len(run'))
  BY <1>2, <1>3, <1>4, <1>7, TypedParts DEF TrackerTyped, RestTyped
<1> QED BY <1>2, <1>6, <1>8, PartsTyped

LEMMA StartTyped ==
  ASSUME Typed, NEW c \in Cells, Start(c)
  PROVE  Typed'
<1> DEFINE n == Len(run) + 1
<1>1. /\ EditsAre(edits', n) /\ n \in 1..MaxRuns
      /\ run' \in Seq(Handler) /\ Len(run') = n /\ Runs' = 1..n /\ Runs = 1..(n - 1)
  BY StartStep
<1>2. n \in Nat /\ n <= MaxRuns /\ n \in 1..n /\ Runs \subseteq Runs' /\ Len(run) = n - 1
  BY <1>1, OutputBounds, RunFacts DEF Typed
<1>3. active' = n /\ messages' = messages /\ shown' = shown /\ events' = events
      /\ toClear' = toClear /\ stray' = stray /\ misled' = misled
      /\ tracked' = tracked /\ lastDisplay' = lastDisplay
      /\ meant' = [meant EXCEPT ![c] = <<>>] /\ spoiled' = spoiled \ {c}
  BY DEF Start, trackerVars
<1> HIDE DEF n
<1>4. RunsTyped'
  BY <1>1, <1>2, <1>3 DEF RunsTyped
<1>5. DocumentsTyped'
  <2>1. <<>> \in Seq(CellOutput)
    OBVIOUS
  <2> QED BY <1>3, <2>1, MeantOfOne
<1>6. events \in Seq(Event(n))
  <2>1. Event(Len(run)) \subseteq Event(n)
    <3>1. 0..Len(run) \subseteq 0..n
      BY <1>2
    <3> QED BY <3>1 DEF Event
  <2>2. events \in Seq(Event(Len(run)))
    BY TypedParts DEF RestTyped
  <2> QED BY <2>1, <2>2
<1>7. TrackerTyped' /\ RestTyped'
  BY <1>1, <1>2, <1>3, <1>6, TypedParts DEF TrackerTyped, RestTyped
<1> QED BY <1>1, <1>4, <1>5, <1>7, PartsTyped

LEMMA UserClearsTyped ==
  ASSUME Typed, NEW c \in Cells, UserClears(c)
  PROVE  Typed' /\ Runs' = Runs
<1>1. shown' \in Documents
  BY UserClearsStep
<1> DEFINE e == [cleared |-> {c}, user |-> TRUE, start |-> 0]
<1>2. /\ run' = run /\ active' = active /\ tracked' = tracked /\ lastDisplay' = lastDisplay
      /\ edits' = edits /\ messages' = messages /\ toClear' = toClear /\ stray' = stray
      /\ misled' = misled /\ spoiled' = spoiled
      /\ meant' = [meant EXCEPT ![c] = <<>>] /\ events' = Append(events, e)
  BY DEF UserClears, trackerVars
<1>3. e \in Event(Len(run))
  BY RunFacts DEF Event, Typed
<1> HIDE DEF e
<1>4. events' \in Seq(Event(Len(run)))
  BY <1>2, <1>3, TypedParts DEF RestTyped
<1>5. meant' \in Documents
  BY <1>2, TypedParts DEF DocumentsTyped, Documents
<1>6. RunsTyped' /\ TrackerTyped' /\ DocumentsTyped' /\ RestTyped' /\ EditsAre(edits', Len(run'))
  BY <1>1, <1>2, <1>4, <1>5, TypedParts
     DEF RunsTyped, TrackerTyped, DocumentsTyped, RestTyped, Runs
<1> QED BY <1>2, <1>6, PartsTyped DEF Runs

LEMMA ApplyTyped ==
  ASSUME Typed, NEW n \in DOMAIN edits, ApplyEdits(n)
  PROVE  Typed' /\ Runs' = Runs
<1>1. shown' \in Documents /\ EditsAre(edits', Len(run))
  BY ApplyStep
<1>2. \E a, b \in Seq(Event(Len(run))) : events' = events \o a \o b
  BY ApplyStep
<1>3. events' \in Seq(Event(Len(run)))
  <2>1. events \in Seq(Event(Len(run)))
    BY TypedParts DEF RestTyped
  <2> QED BY <1>2, <2>1
<1>4. UNCHANGED <<run, active, tracked, lastDisplay, messages, meant, toClear, stray, misled, spoiled>>
  BY DEF ApplyEdits, trackerVars, meaning
<1>5. RunsTyped' /\ TrackerTyped' /\ DocumentsTyped' /\ RestTyped' /\ EditsAre(edits', Len(run'))
  BY <1>1, <1>3, <1>4, TypedParts DEF RunsTyped, TrackerTyped, DocumentsTyped, RestTyped, Runs
<1> QED BY <1>4, <1>5, PartsTyped DEF Runs

LEMMA TailOfEvents ==
  ASSUME Typed, events # <<>>
  PROVE  /\ Tail(events) \in Seq(Event(Len(run))) /\ Head(events) \in Event(Len(run))
         /\ Head(events) = events[1] /\ 1 \in DOMAIN events
         /\ DOMAIN events = 1..Len(events) /\ Len(events) \in Nat
         /\ Len(Tail(events)) = Len(events) - 1 /\ DOMAIN Tail(events) = 1..(Len(events) - 1)
         /\ \A i \in 1..(Len(events) - 1) : Tail(events)[i] = events[i + 1] /\ i + 1 \in DOMAIN events
<1>1. events \in Seq(Event(Len(run)))
  BY TypedParts DEF RestTyped
<1> QED BY <1>1

LEMMA ChangedTyped ==
  ASSUME Typed, OutputsChanged
  PROVE  Typed' /\ Runs' = Runs
<1>1. /\ TrackerTyped' /\ stray' \subseteq {0} \cup Chunks
      /\ run' \in Seq(Handler) /\ Len(run') = Len(run) /\ Runs' = Runs /\ events # <<>>
  BY ChangedStep
<1>2. /\ active' = active /\ shown' = shown /\ edits' = edits /\ messages' = messages
      /\ meant' = meant /\ toClear' = toClear /\ spoiled' = spoiled /\ events' = Tail(events)
  BY DEF OutputsChanged
<1>3. misled' \subseteq Runs
  BY TypedParts DEF OutputsChanged, RestTyped
<1>4. Tail(events) \in Seq(Event(Len(run)))
  BY <1>1, TailOfEvents
<1>5. RunsTyped' /\ DocumentsTyped' /\ RestTyped' /\ EditsAre(edits', Len(run'))
  BY <1>1, <1>2, <1>3, <1>4, TypedParts, SMTT(20) DEF RunsTyped, DocumentsTyped, RestTyped
<1> QED BY <1>1, <1>5, PartsTyped

LEMMA RegisterStep ==
  ASSUME Typed, RegisterListener
  PROVE  LET r == Head(events).start
         IN  /\ events # <<>> /\ r \in Runs /\ r # 0 /\ Runs' = Runs
             /\ run' \in Seq(Handler) /\ Len(run') = Len(run)
             /\ \A q \in Runs :
                   run'[q] = IF q = r THEN [run[q] EXCEPT !.state = "executing"]
                             ELSE IF run[q].cell = run[r].cell
                             THEN [run[q] EXCEPT !.state = "over", !.stream = NoOutput]
                             ELSE run[q]
<1> DEFINE r == Head(events).start
           f == [q \in Runs |-> IF q = r THEN [run[q] EXCEPT !.state = "executing"]
                                ELSE IF run[q].cell = run[r].cell
                                THEN [run[q] EXCEPT !.state = "over", !.stream = NoOutput]
                                ELSE run[q]]
<1>1. events # <<>> /\ r # 0
  BY DEF RegisterListener
<1>2. run' = f
  <2>1. run' = [q \in Runs |->
                  IF q = r THEN [run[q] EXCEPT !.state = "executing"]
                  ELSE IF q \in {p \in Runs \ {r} : run[p].cell = run[r].cell}
                  THEN [run[q] EXCEPT !.state = "over", !.stream = NoOutput]
                  ELSE run[q]]
    BY DEF RegisterListener
  <2> HIDE DEF r
  <2>2. \A q \in Runs : q # r => (q \in {p \in Runs \ {r} : run[p].cell = run[r].cell}
                                   <=> run[q].cell = run[r].cell)
    OBVIOUS
  <2> QED BY <2>1, <2>2
<1>3. r \in Runs
  BY <1>1, TailOfEvents, RunFacts DEF Event, Typed
<1> HIDE DEF r
<1>4. f \in [Runs -> Handler]
  <2>1. ASSUME NEW q \in Runs
        PROVE  /\ run[q] \in Handler /\ [run[q] EXCEPT !.state = "executing"] \in Handler
               /\ [run[q] EXCEPT !.state = "over", !.stream = NoOutput] \in Handler
    <3>1. run[q] \in Handler /\ NoOutput \in CellOutput \cup {NoOutput} /\ TRUE \in BOOLEAN
          /\ "no" \in {"no", "success", "failed"}
          /\ "over" \in {"clearing", "executing", "listening", "over"}
          /\ "executing" \in {"clearing", "executing", "listening", "over"}
      BY HandlerFields DEF Typed
    <3> QED BY <3>1, HandlerChanges
  <2> QED BY <2>1
<1>5. \A q \in Runs : f[q] = IF q = r THEN [run[q] EXCEPT !.state = "executing"]
                             ELSE IF run[q].cell = run[r].cell
                             THEN [run[q] EXCEPT !.state = "over", !.stream = NoOutput]
                             ELSE run[q]
  OBVIOUS
<1> HIDE DEF f
<1>6. run' \in Seq(Handler) /\ Len(run') = Len(run) /\ Runs' = Runs
  BY <1>2, <1>4, RunChanges
<1> QED BY <1>1, <1>2, <1>3, <1>5, <1>6 DEF r

LEMMA RegisterTyped ==
  ASSUME Typed, RegisterListener
  PROVE  Typed' /\ Runs' = Runs
<1>1. /\ run' \in Seq(Handler) /\ Len(run') = Len(run) /\ Runs' = Runs /\ events # <<>>
  BY RegisterStep
<1>2. UNCHANGED <<active, tracked, lastDisplay, shown, edits, messages, meant, toClear, stray,
                  misled, spoiled>>
      /\ events' = Tail(events)
  BY DEF RegisterListener, trackerVars, meaning
<1>3. Tail(events) \in Seq(Event(Len(run)))
  BY <1>1, TailOfEvents
<1>4. RunsTyped' /\ TrackerTyped' /\ DocumentsTyped' /\ RestTyped' /\ EditsAre(edits', Len(run'))
  BY <1>1, <1>2, <1>3, TypedParts DEF RunsTyped, TrackerTyped, DocumentsTyped, RestTyped
<1> QED BY <1>1, <1>4, PartsTyped

-----------------------------------------------------------------------------
(* One handler for each cell.                                              *)
LEMMA HandlersStay ==
  ASSUME OneHandlerPerCell, Runs' = Runs,
         \A q \in Runs : run'[q].cell = run[q].cell,
         \A q \in Runs : run'[q].state \in {"executing", "listening"}
                           => run[q].state \in {"executing", "listening"}
  PROVE  OneHandlerPerCell'
<1> SUFFICES ASSUME NEW q \in Runs, NEW r \in Runs, Handles(q)', Handles(r)',
                    run'[q].cell = run'[r].cell
             PROVE  q = r
  BY DEF OneHandlerPerCell
<1>1. Handles(q) /\ Handles(r)
  BY DEF Handles
<1> QED BY <1>1 DEF OneHandlerPerCell

LEMMA MessageStates ==
  ASSUME Typed, NEW r \in Runs, KernelMessage(r), NEW q \in Runs
  PROVE  run'[q].cell = run[q].cell /\ run'[q].state = run[q].state
<1> USE DEF Handler
<1>1. ASSUME NEW name \in Streams, Stream(r, name)
      PROVE  run'[q].cell = run[q].cell /\ run'[q].state = run[q].state
  <2> DEFINE h == [run[r] EXCEPT !.stream = StreamOutput(r, name), !.clearNext = FALSE]
  <2>1. run' = [run EXCEPT ![r] = h] /\ h \in Handler
    BY <1>1, StreamStep
  <2>2. h.cell = run[r].cell /\ h.state = run[r].state
    BY HandlerFields DEF Typed
  <2> HIDE DEF h
  <2> QED BY <2>1, <2>2, RunStep
<1>2. ASSUME NEW kind \in {"data", "error"}, NEW d \in Displays \cup {NoDisplay},
             AddToCellData(r, kind, d)
      PROVE  run'[q].cell = run[q].cell /\ run'[q].state = run[q].state
  <2> DEFINE h == HandlerAfter(r, kind)
  <2>1. run' = [run EXCEPT ![r] = h] /\ h \in Handler
    BY <1>2, AddStep
  <2>2. h.cell = run[r].cell /\ h.state = run[r].state
    BY HandlerAfterFields
  <2> HIDE DEF h
  <2> QED BY <2>1, <2>2, RunStep
<1>3. ASSUME NEW wait \in BOOLEAN, ClearOutput(r, wait)
      PROVE  run'[q].cell = run[q].cell /\ run'[q].state = run[q].state
  <2> DEFINE h == IF wait THEN [run[r] EXCEPT !.clearNext = TRUE] ELSE [run[r] EXCEPT !.stream = NoOutput]
  <2>1. run' = [run EXCEPT ![r] = h] /\ h \in Handler
    BY <1>3, ClearOutputStep
  <2>2. h.cell = run[r].cell /\ h.state = run[r].state
    BY HandlerFields DEF Typed
  <2> HIDE DEF h
  <2> QED BY <2>1, <2>2, RunStep
<1>4. ASSUME NEW d \in Displays, NEW chunk \in Chunks, UpdateDisplay(r, d, chunk)
      PROVE  run'[q].cell = run[q].cell /\ run'[q].state = run[q].state
  BY <1>4 DEF UpdateDisplay
<1>5. ASSUME CommOpen(r)
      PROVE  run'[q].cell = run[q].cell /\ run'[q].state = run[q].state
  <2>1. run' = [run EXCEPT ![r] = [run[r] EXCEPT !.comms = TRUE]] /\ run \in [Runs -> Handler]
    BY <1>5, RunFacts DEF CommOpen, Typed
  <2>2. run[r] \in Handler
    BY HandlerFields DEF Typed
  <2> QED BY <2>1, <2>2
<1>6. "data" \in {"data", "error"} /\ "error" \in {"data", "error"}
      /\ NoDisplay \in Displays \cup {NoDisplay}
  OBVIOUS
<1> HIDE DEF Handler
<1> QED BY <1>1, <1>2, <1>3, <1>4, <1>5, <1>6 DEF KernelMessage

LEMMA MessageHandlers ==
  ASSUME Typed, OneHandlerPerCell, NEW r \in Runs, KernelMessage(r)
  PROVE  Typed' /\ Runs' = Runs /\ OneHandlerPerCell'
<1>1. Typed' /\ Runs' = Runs
  <2>1. "data" \in {"data", "error"} /\ "error" \in {"data", "error"}
        /\ NoDisplay \in Displays \cup {NoDisplay}
    OBVIOUS
  <2> QED BY <2>1, StreamTyped, AddTyped, ClearOutputTyped, UpdateTyped, CommOpenTyped
          DEF KernelMessage
<1>2. \A q \in Runs : run'[q].cell = run[q].cell /\ run'[q].state = run[q].state
  BY MessageStates
<1> QED BY <1>1, <1>2, HandlersStay

LEMMA InitialHandlers ==
  ASSUME OutputsInit
  PROVE  Typed /\ OneHandlerPerCell
<1>1. /\ run = <<>> /\ active = 0 /\ edits = <<>> /\ events = <<>> /\ messages = 0
      /\ tracked = [d \in Displays |-> NoOutput] /\ lastDisplay = [c \in Cells |-> NoDisplay]
      /\ shown = [c \in Cells |-> <<>>] /\ meant = shown
      /\ toClear = {} /\ stray = {} /\ misled = {} /\ spoiled = {}
  BY DEF OutputsInit
<1>2. Runs = {} /\ run \in Seq(Handler) /\ Len(run) = 0
  BY <1>1 DEF Runs
<1>3. edits \in Seq([op : {"replace", "append", "items"}, cell : Cells,
                     outputs : Seq(CellOutput), start : {0} \cup Runs])
  BY <1>1
<1>4. events \in Seq([cleared : SUBSET Cells, user : BOOLEAN, start : {0} \cup Runs])
  BY <1>1
<1>5. EditsInv
  BY <1>1 DEF EditsInv
<1>6. 0 <= MaxRuns /\ 0 \in 0..MaxMessages
  BY OutputBounds
<1>7. shown \in [Cells -> Seq(CellOutput)] /\ meant \in [Cells -> Seq(CellOutput)]
  BY <1>1
<1>8. /\ tracked \in [Displays -> CellOutput \cup {NoOutput}]
      /\ lastDisplay \in [Cells -> Displays \cup {NoDisplay}]
  BY <1>1
<1>9. OutputsTypeOK
  BY <1>1, <1>2, <1>3, <1>4, <1>6, <1>7, <1>8 DEF OutputsTypeOK
<1> QED BY <1>2, <1>5, <1>9 DEF Typed, OneHandlerPerCell

LEMMA NextHandlers ==
  ASSUME Typed, OneHandlerPerCell, OutputsNext
  PROVE  Typed' /\ OneHandlerPerCell'
<1>1. ASSUME NEW n \in DOMAIN edits, ApplyEdits(n) PROVE Typed' /\ OneHandlerPerCell'
  <2>1. run' = run
    BY <1>1 DEF ApplyEdits
  <2>2. Typed' /\ Runs' = Runs
    BY <1>1, ApplyTyped
  <2> QED BY <2>1, <2>2, HandlersStay
<1>2. ASSUME NEW c \in Cells, UserClears(c) PROVE Typed' /\ OneHandlerPerCell'
  <2>1. run' = run
    BY <1>2 DEF UserClears
  <2>2. Typed' /\ Runs' = Runs
    BY <1>2, UserClearsTyped
  <2> QED BY <2>1, <2>2, HandlersStay
<1>3. ASSUME NEW c \in Cells, Start(c) PROVE Typed' /\ OneHandlerPerCell'
  <2> DEFINE n == Len(run) + 1
             h == [cell |-> c, state |-> "clearing", comms |-> FALSE, clearNext |-> FALSE,
                   stream |-> NoOutput, failed |-> FALSE, reported |-> "no"]
  <2>1. /\ Runs' = 1..n /\ Runs = 1..(n - 1) /\ run'[n] = h /\ n \in 1..MaxRuns
        /\ \A q \in Runs : run'[q] = run[q]
    BY <1>3, StartStep
  <2>2. \A q \in Runs' : q \in Runs \/ q = n
    BY <2>1
  <2>3. h.state = "clearing"
    OBVIOUS
  <2> HIDE DEF n, h
  <2>4. \A q \in Runs' : Handles(q)' => Handles(q) /\ run'[q].cell = run[q].cell
    BY <2>1, <2>2, <2>3 DEF Handles
  <2>5. OneHandlerPerCell'
    <3> SUFFICES ASSUME NEW q \in Runs', NEW r \in Runs', Handles(q)', Handles(r)',
                        run'[q].cell = run'[r].cell
                 PROVE  q = r
      BY DEF OneHandlerPerCell
    <3>1. Handles(q) /\ Handles(r) /\ run[q].cell = run[r].cell
      BY <2>4
    <3> QED BY <3>1 DEF OneHandlerPerCell, Handles
  <2> QED BY <1>3, <2>5, StartTyped
<1>4. ASSUME OutputsChanged PROVE Typed' /\ OneHandlerPerCell'
  <2> DEFINE listens(r) == run[r].cell \in Head(events).cleared
                           /\ run[r].state \in {"executing", "listening"}
  <2>1. \A r \in Runs : run'[r] = IF listens(r)
                                  THEN [run[r] EXCEPT !.stream = NoOutput, !.failed = FALSE]
                                  ELSE run[r]
    BY <1>4, ChangedStep
  <2> HIDE DEF listens
  <2>2. ASSUME NEW r \in Runs PROVE run'[r].cell = run[r].cell /\ run'[r].state = run[r].state
    <3>1. run[r] \in Handler
      BY HandlerFields DEF Typed
    <3> QED BY <2>1, <3>1 DEF Handler
  <2>3. Typed' /\ Runs' = Runs
    BY <1>4, ChangedTyped
  <2> QED BY <2>2, <2>3, HandlersStay
<1>5. ASSUME RegisterListener PROVE Typed' /\ OneHandlerPerCell'
  <2> DEFINE r == Head(events).start
  <2>1. /\ r \in Runs /\ Runs' = Runs
        /\ \A q \in Runs :
              run'[q] = IF q = r THEN [run[q] EXCEPT !.state = "executing"]
                        ELSE IF run[q].cell = run[r].cell
                        THEN [run[q] EXCEPT !.state = "over", !.stream = NoOutput]
                        ELSE run[q]
    BY <1>5, RegisterStep
  <2> HIDE DEF r
  <2>2. ASSUME NEW q \in Runs
        PROVE  /\ run'[q].cell = run[q].cell
               /\ q # r /\ run[q].cell = run[r].cell => ~ Handles(q)'
               /\ q # r /\ run[q].cell # run[r].cell => run'[q] = run[q]
    <3>1. run[q] \in Handler
      BY HandlerFields DEF Typed
    <3>2. CASE q = r
      BY <2>1, <3>1, <3>2 DEF Handler
    <3>3. CASE q # r /\ run[q].cell = run[r].cell
      <4>1. run'[q] = [run[q] EXCEPT !.state = "over", !.stream = NoOutput]
        BY <2>1, <3>3
      <4>2. run'[q].state = "over" /\ run'[q].cell = run[q].cell
        BY <3>1, <4>1 DEF Handler
      <4> QED BY <3>3, <4>2 DEF Handles
    <3>4. CASE q # r /\ run[q].cell # run[r].cell
      BY <2>1, <3>4
    <3> QED BY <3>2, <3>3, <3>4
  <2>3. OneHandlerPerCell'
    <3> SUFFICES ASSUME NEW p \in Runs, NEW q \in Runs, Handles(p)', Handles(q)',
                        run'[p].cell = run'[q].cell
                 PROVE  p = q
      BY <2>1 DEF OneHandlerPerCell
    <3>1. run[p].cell = run[q].cell
      BY <2>2
    <3>2. CASE p = r \/ q = r
      BY <2>1, <2>2, <3>1, <3>2
    <3>3. CASE p # r /\ q # r
      <4>1. run'[p] = run[p] /\ run'[q] = run[q]
        BY <2>2, <3>3
      <4>2. Handles(p) /\ Handles(q)
        BY <4>1 DEF Handles
      <4> QED BY <3>1, <4>2 DEF OneHandlerPerCell
    <3> QED BY <3>2, <3>3
  <2> QED BY <1>5, <2>3, RegisterTyped
<1>6. ASSUME NEW r \in 1..MaxRuns, NEW rep \in {"no", "success", "failed"}, RunEnds(r, rep)
      PROVE  /\ \A q \in Runs : run'[q].cell = run[q].cell
             /\ \A q \in Runs : run'[q].state \in {"executing", "listening"}
                                  => run[q].state \in {"executing", "listening"}
  <2> DEFINE h == [run[r] EXCEPT !.state = IF run[r].comms THEN "listening" ELSE "over",
                                 !.stream = NoOutput, !.reported = rep]
  <2>1. /\ r \in Runs /\ run[r].state = "executing"
        /\ run'[r] = h /\ \A q \in Runs \ {r} : run'[q] = run[q]
    BY <1>6, EndStep
  <2>2. h.cell = run[r].cell
    <3>1. run[r] \in Handler
      BY <2>1, HandlerFields DEF Typed
    <3> HIDE DEF h
    <3>2. \A st, rep2 : [run[r] EXCEPT !.state = st, !.stream = NoOutput, !.reported = rep2].cell
                           = run[r].cell
      BY <3>1 DEF Handler
    <3> QED BY <3>2 DEF h
  <2> HIDE DEF h
  <2> QED BY <2>1, <2>2
<1>7. ASSUME NEW r \in 1..MaxRuns, CompletedSuccessfully(r) PROVE Typed' /\ OneHandlerPerCell'
  <2>1. PICK rep \in {"no", "success", "failed"} : RunEnds(r, rep)
    BY <1>7 DEF CompletedSuccessfully
  <2>2. Typed' /\ Runs' = Runs
    BY <1>7, CompletedSuccessfullyTyped
  <2> QED BY <1>6, <2>1, <2>2, HandlersStay
<1>8. ASSUME NEW r \in 1..MaxRuns, CompletedWithErrors(r) PROVE Typed' /\ OneHandlerPerCell'
  <2>1. RunEnds(r, "failed")
    BY <1>8 DEF CompletedWithErrors
  <2>2. Typed' /\ Runs' = Runs
    BY <1>8, CompletedWithErrorsTyped
  <2> QED BY <1>6, <2>1, <2>2, HandlersStay
<1>9. ASSUME NEW r \in 1..MaxRuns, KernelMessage(r) PROVE Typed' /\ OneHandlerPerCell'
  <2>1. r \in Runs
    BY <1>9 DEF KernelMessage, Stream, AddToCellData, AddToCell, ClearOutput, UpdateDisplay,
                Message, Handles, CommOpen
  <2> QED BY <1>9, <2>1, MessageHandlers
<1> QED BY <1>1, <1>2, <1>3, <1>4, <1>5, <1>7, <1>8, <1>9 DEF OutputsNext

LEMMA SameHandlers ==
  ASSUME Typed, OneHandlerPerCell, UNCHANGED outputVars
  PROVE  Typed' /\ OneHandlerPerCell'
BY DEF outputVars, trackerVars, documentVars, meaning, Typed, OutputsTypeOK, EditsInv,
       OneHandlerPerCell, Handles, Runs

(* A cell has one message handler, that of its last run, whatever edits,   *)
(* clearings and widgets do meanwhile, and the state is well formed.       *)
THEOREM HandlersSound == OutputsSpec => []HandlersAreSound
<1>1. OutputsInit => Typed /\ OneHandlerPerCell
  BY InitialHandlers
<1>2. (Typed /\ OneHandlerPerCell) /\ [OutputsNext]_outputVars => (Typed /\ OneHandlerPerCell)'
  BY NextHandlers, SameHandlers
<1>3. Typed /\ OneHandlerPerCell => HandlersAreSound
  BY DEF Typed, HandlersAreSound
<1> QED BY <1>1, <1>2, <1>3, PTL DEF OutputsSpec

-----------------------------------------------------------------------------
(* The pieces of outputs: what View shows of each content, with the output *)
(* and the display it belongs to.  Text in a stream belongs to none.       *)
PieceSet == [chunk : Chunks, kind : Streams \cup {"data", "error"}, id : {0} \cup Chunks,
             display : Displays \cup {NoDisplay}]
Piece(o, j) == [chunk |-> o.text[j], kind |-> o.kind,
                id |-> IF o.kind \in Streams THEN 0 ELSE o.id, display |-> o.display]
PiecesOf(o) == [j \in DOMAIN o.text |-> Piece(o, j)]
Pieces(outputs) == Flattened([i \in DOMAIN outputs |-> PiecesOf(outputs[i])])

LEMMA PieceType ==
  ASSUME NEW o \in CellOutput, NEW j \in DOMAIN o.text
  PROVE  /\ Piece(o, j) \in PieceSet /\ Piece(o, j).chunk = o.text[j]
         /\ Piece(o, j).kind = o.kind /\ Piece(o, j).display = o.display
         /\ (o.kind \in Streams => Piece(o, j).id = 0)
         /\ (o.kind \notin Streams => Piece(o, j).id = o.id)
<1> DEFINE K == Streams \cup {"data", "error"}
           D == Displays \cup {NoDisplay}
           x == IF o.kind \in Streams THEN 0 ELSE o.id
<1>1. o.id \in Chunks /\ o.kind \in K /\ o.display \in D /\ o.text \in Seq(Chunks)
  BY DEF CellOutput
<1>2. o.text[j] \in Chunks
  BY <1>1
<1>3. x \in {0} \cup Chunks /\ (o.kind \in Streams => x = 0) /\ (o.kind \notin Streams => x = o.id)
  BY <1>1
<1> HIDE DEF x, K, D
<1>4. [chunk |-> o.text[j], kind |-> o.kind, id |-> x, display |-> o.display]
        \in [chunk : Chunks, kind : K, id : {0} \cup Chunks, display : D]
  BY <1>1, <1>2, <1>3
<1>5. Piece(o, j) = [chunk |-> o.text[j], kind |-> o.kind, id |-> x, display |-> o.display]
  BY DEF Piece, x
<1> QED BY <1>3, <1>4, <1>5 DEF PieceSet, K, D

LEMMA PiecesOfType ==
  ASSUME NEW o \in CellOutput
  PROVE  PiecesOf(o) \in Seq(PieceSet) /\ Len(PiecesOf(o)) = Len(o.text)
         /\ DOMAIN PiecesOf(o) = DOMAIN o.text
         /\ \A j \in DOMAIN o.text : PiecesOf(o)[j] = Piece(o, j)
<1>1. o.text \in Seq(Chunks)
  BY DEF CellOutput
<1>2. DOMAIN o.text = 1..Len(o.text) /\ Len(o.text) \in Nat
  BY <1>1
<1>3. \A j \in 1..Len(o.text) : Piece(o, j) \in PieceSet
  BY <1>2, PieceType
<1>4. PiecesOf(o) = [j \in 1..Len(o.text) |-> Piece(o, j)]
  BY <1>2 DEF PiecesOf
<1> HIDE DEF PieceSet
<1>5. PiecesOf(o) \in [1..Len(o.text) -> PieceSet]
  BY <1>3, <1>4
<1> QED BY <1>2, <1>4, <1>5

ToPieces(s) == [i \in DOMAIN s |-> PiecesOf(s[i])]

LEMMA ToPiecesType ==
  ASSUME NEW s \in Seq(CellOutput)
  PROVE  /\ ToPieces(s) \in Seq(Seq(PieceSet)) /\ Len(ToPieces(s)) = Len(s)
         /\ DOMAIN ToPieces(s) = DOMAIN s
         /\ \A i \in DOMAIN s : ToPieces(s)[i] = PiecesOf(s[i])
<1> DEFINE Q == Seq(PieceSet)
<1>1. DOMAIN s = 1..Len(s) /\ Len(s) \in Nat /\ \A i \in 1..Len(s) : s[i] \in CellOutput
  OBVIOUS
<1>2. \A i \in 1..Len(s) : PiecesOf(s[i]) \in Q
  BY <1>1, PiecesOfType
<1>3. ToPieces(s) = [i \in 1..Len(s) |-> PiecesOf(s[i])]
  BY <1>1 DEF ToPieces
<1> HIDE DEF Q
<1>4. ToPieces(s) \in [1..Len(s) -> Q]
  BY <1>2, <1>3
<1>5. ToPieces(s) \in Seq(Q)
  BY <1>1, <1>4
<1> QED BY <1>1, <1>3, <1>4, <1>5 DEF Q

LEMMA PiecesType ==
  ASSUME NEW s \in Seq(CellOutput)
  PROVE  Pieces(s) \in Seq(PieceSet) /\ Pieces(s) = Flattened(ToPieces(s))
<1>1. Pieces(s) = Flattened(ToPieces(s))
  BY DEF Pieces, ToPieces
<1> QED BY <1>1, ToPiecesType, FlattenedType

LEMMA PiecesEmpty == Pieces(<<>>) = <<>>
<1>1. [i \in DOMAIN <<>> |-> PiecesOf(<<>>[i])] = <<>>
  OBVIOUS
<1> QED BY <1>1, FlattenedEmpty DEF Pieces

LEMMA PiecesAppend ==
  ASSUME NEW s \in Seq(CellOutput), NEW o \in CellOutput
  PROVE  Pieces(Append(s, o)) = Pieces(s) \o PiecesOf(o)
<1> DEFINE more == Append(s, o)
           tt == ToPieces(s)
           uu == ToPieces(more)
<1>1. /\ more \in Seq(CellOutput) /\ DOMAIN more = 1..(Len(s) + 1) /\ more[Len(s) + 1] = o
      /\ DOMAIN s = 1..Len(s) /\ Len(s) \in Nat
      /\ \A i \in 1..Len(s) : more[i] = s[i]
  OBVIOUS
<1> HIDE DEF more
<1>2. /\ tt \in Seq(Seq(PieceSet)) /\ Len(tt) = Len(s)
      /\ \A i \in 1..Len(s) : tt[i] = PiecesOf(s[i])
  BY <1>1, ToPiecesType
<1>3. /\ uu \in Seq(Seq(PieceSet)) /\ Len(uu) = Len(s) + 1
      /\ \A i \in 1..(Len(s) + 1) : uu[i] = PiecesOf(more[i])
  <2>1. Len(more) = Len(s) + 1
    BY <1>1
  <2> QED BY <1>1, <2>1, ToPiecesType
<1>4. PiecesOf(o) \in Seq(PieceSet)
  BY PiecesOfType
<1> DEFINE Q == Seq(PieceSet)
<1> HIDE DEF tt, uu, Q
<1>5. uu = Append(tt, PiecesOf(o))
  <2>1. /\ Append(tt, PiecesOf(o)) \in Seq(Q) /\ Len(Append(tt, PiecesOf(o))) = Len(s) + 1
        /\ Append(tt, PiecesOf(o))[Len(s) + 1] = PiecesOf(o)
        /\ \A i \in 1..Len(s) : Append(tt, PiecesOf(o))[i] = tt[i]
    BY <1>2, <1>4 DEF Q
  <2>2. \A i \in 1..(Len(s) + 1) : i = Len(s) + 1 \/ i \in 1..Len(s)
    BY <1>1
  <2>3. \A i \in 1..(Len(s) + 1) : uu[i] = Append(tt, PiecesOf(o))[i]
    BY <1>1, <1>2, <1>3, <2>1, <2>2
  <2>4. uu \in Seq(Q)
    BY <1>3 DEF Q
  <2> HIDE DEF Q
  <2> QED BY <1>3, <2>1, <2>3, <2>4
<1>6. Flattened(uu) = Flattened(tt) \o PiecesOf(o)
  BY <1>2, <1>4, <1>5, FlattenedAppend
<1>7. Pieces(more) = Flattened(uu) /\ Pieces(s) = Flattened(tt)
  BY <1>1, PiecesType DEF uu, tt
<1> QED BY <1>6, <1>7 DEF more

LEMMA LastApart ==
  ASSUME NEW S, NEW s \in Seq(S), s # <<>>
  PROVE  \E pre \in Seq(S) :
            /\ s = Append(pre, s[Len(s)]) /\ Len(s) = Len(pre) + 1
            /\ s[Len(s)] \in S /\ Len(s) \in DOMAIN s
            /\ \A v \in S : [s EXCEPT ![Len(s)] = v] = Append(pre, v)
            /\ \A i \in DOMAIN pre : pre[i] = s[i] /\ i \in DOMAIN s
<1> DEFINE n == Len(s)
           pre == [i \in 1..(n - 1) |-> s[i]]
<1>1. n \in Nat /\ n > 0 /\ DOMAIN s = 1..n /\ \A i \in 1..n : s[i] \in S
  OBVIOUS
<1>2. pre \in Seq(S) /\ Len(pre) = n - 1 /\ DOMAIN pre = 1..(n - 1)
      /\ \A i \in 1..(n - 1) : pre[i] = s[i]
  <2> HIDE DEF n
  <2>1. n - 1 \in Nat /\ \A i \in 1..(n - 1) : i \in 1..n
    BY <1>1
  <2>2. pre \in [1..(n - 1) -> S]
    BY <1>1, <2>1
  <2> HIDE DEF pre
  <2>3. pre \in Seq(S) /\ Len(pre) = n - 1 /\ DOMAIN pre = 1..(n - 1)
    BY <2>1, <2>2
  <2> QED BY <2>3 DEF pre
<1>3. n \in DOMAIN s /\ s[n] \in S
  BY <1>1
<1> HIDE DEF pre
<1>4. ASSUME NEW v \in S PROVE [s EXCEPT ![n] = v] = Append(pre, v)
  <2> DEFINE t == [s EXCEPT ![n] = v]
             a == Append(pre, v)
  <2>1. t \in Seq(S) /\ Len(t) = n
    BY <1>3, ElementReplaced
  <2>2. t[n] = v /\ \A i \in 1..(n - 1) : t[i] = s[i]
    <3>1. s \in [1..n -> S]
      BY <1>1
    <3> HIDE DEF n
    <3>2. n \in 1..n /\ \A i \in 1..(n - 1) : i # n /\ i \in 1..n
      BY <1>1
    <3> QED BY <3>1, <3>2
  <2>3. a \in Seq(S) /\ Len(a) = Len(pre) + 1 /\ a[Len(pre) + 1] = v
        /\ \A i \in 1..Len(pre) : a[i] = pre[i]
    BY <1>2
  <2> HIDE DEF t, a, n
  <2>4. Len(pre) + 1 = n /\ \A i \in 1..n : i = n \/ i \in 1..(n - 1)
    BY <1>1, <1>2
  <2>5. \A i \in 1..n : t[i] = a[i]
    BY <1>2, <2>2, <2>3, <2>4
  <2>6. t = a
    BY <2>1, <2>3, <2>4, <2>5
  <2> QED BY <2>6 DEF t, a, n
<1>5. [s EXCEPT ![n] = s[n]] = s
  BY <1>1
<1>6. s = Append(pre, s[n])
  BY <1>3, <1>4, <1>5
<1>7. n = Len(pre) + 1 /\ \A i \in DOMAIN pre : pre[i] = s[i] /\ i \in DOMAIN s
  BY <1>1, <1>2
<1> QED BY <1>2, <1>3, <1>4, <1>6, <1>7 DEF n

(* Text that goes to the last output is one piece more.                    *)
TextPiece(kind, chunk) == [chunk |-> chunk, kind |-> kind, id |-> 0, display |-> NoDisplay]

LEMMA PiecesGrow ==
  ASSUME NEW s \in Seq(CellOutput), s # <<>>, NEW chunk \in Chunks,
         s[Len(s)].kind \in Streams, s[Len(s)].display = NoDisplay
  PROVE  Pieces([s EXCEPT ![Len(s)] = Grown(s[Len(s)], chunk)])
           = Append(Pieces(s), TextPiece(s[Len(s)].kind, chunk))
<1> DEFINE o == s[Len(s)]
           g == Grown(o, chunk)
           p == TextPiece(o.kind, chunk)
<1>1. PICK pre \in Seq(CellOutput) :
          /\ s = Append(pre, o) /\ o \in CellOutput
          /\ \A v \in CellOutput : [s EXCEPT ![Len(s)] = v] = Append(pre, v)
  BY LastApart
<1> HIDE DEF o
<1>2. /\ g \in CellOutput /\ g.kind = o.kind /\ g.id = o.id /\ g.display = o.display
      /\ g.text = Append(o.text, chunk)
  BY <1>1, GrownType
<1>3. o.kind \in Streams /\ o.display = NoDisplay
  BY DEF o
<1> HIDE DEF g
<1>4. o.text \in Seq(Chunks) /\ DOMAIN o.text = 1..Len(o.text) /\ Len(o.text) \in Nat
      /\ DOMAIN g.text = 1..(Len(o.text) + 1) /\ Len(g.text) = Len(o.text) + 1
      /\ g.text[Len(o.text) + 1] = chunk
      /\ \A j \in 1..Len(o.text) : g.text[j] = o.text[j]
  <2>1. o.text \in Seq(Chunks)
    BY <1>1 DEF CellOutput
  <2> QED BY <1>2, <2>1
<1>5. /\ PiecesOf(o) \in Seq(PieceSet) /\ Len(PiecesOf(o)) = Len(o.text)
      /\ \A j \in 1..Len(o.text) : PiecesOf(o)[j] = Piece(o, j)
  BY <1>1, <1>4, PiecesOfType
<1>6. /\ PiecesOf(g) \in Seq(PieceSet) /\ Len(PiecesOf(g)) = Len(o.text) + 1
      /\ \A j \in 1..(Len(o.text) + 1) : PiecesOf(g)[j] = Piece(g, j)
  BY <1>2, <1>4, PiecesOfType
<1>7. \A j \in 1..Len(o.text) : Piece(g, j) = Piece(o, j)
  BY <1>2, <1>4 DEF Piece
<1>8. Piece(g, Len(o.text) + 1) = p
  BY <1>2, <1>3, <1>4 DEF Piece, TextPiece
<1> HIDE DEF p
<1>9. PiecesOf(g) = Append(PiecesOf(o), p)
  <2>1. p \in PieceSet
    <3>1. Len(o.text) + 1 \in DOMAIN g.text
      BY <1>4
    <3> QED BY <1>2, <1>8, <3>1, PieceType
  <2> DEFINE a == PiecesOf(o)
             b == PiecesOf(g)
  <2>2. a \in Seq(PieceSet) /\ b \in Seq(PieceSet) /\ Len(b) = Len(a) + 1
        /\ \A j \in 1..Len(a) : b[j] = a[j]
    BY <1>4, <1>5, <1>6, <1>7
  <2>3. b[Len(a) + 1] = p
    BY <1>4, <1>5, <1>6, <1>8
  <2> HIDE DEF a, b
  <2>4. Append(a, p) \in Seq(PieceSet) /\ Len(Append(a, p)) = Len(a) + 1
        /\ Append(a, p)[Len(a) + 1] = p /\ \A j \in 1..Len(a) : Append(a, p)[j] = a[j]
        /\ Len(a) \in Nat
    BY <2>1, <2>2
  <2>5. \A j \in 1..(Len(a) + 1) : j = Len(a) + 1 \/ j \in 1..Len(a)
    BY <2>4
  <2>6. \A j \in 1..(Len(a) + 1) : b[j] = Append(a, p)[j]
    BY <2>2, <2>3, <2>4, <2>5
  <2>7. b = Append(a, p)
    BY <2>2, <2>4, <2>6
  <2> QED BY <2>7 DEF a, b
<1>10. Pieces(Append(pre, g)) = Pieces(pre) \o PiecesOf(g)
       /\ Pieces(s) = Pieces(pre) \o PiecesOf(o)
  BY <1>1, <1>2, PiecesAppend
<1>11. Pieces(pre) \in Seq(PieceSet)
  BY <1>1, PiecesType
<1>12. Pieces(pre) \o Append(PiecesOf(o), p) = Append(Pieces(pre) \o PiecesOf(o), p)
  <2> DEFINE a == Pieces(pre)
             b == PiecesOf(o)
  <2> HIDE DEF a, b
  <2>1. a \in Seq(PieceSet) /\ b \in Seq(PieceSet)
    BY <1>5, <1>11 DEF a, b
  <2>2. a \o Append(b, p) = Append(a \o b, p)
    BY <2>1
  <2> QED BY <2>2 DEF a, b
<1>13. [s EXCEPT ![Len(s)] = g] = Append(pre, g)
  BY <1>1, <1>2
<1>14. Pieces([s EXCEPT ![Len(s)] = g]) = Append(Pieces(s), p)
  BY <1>9, <1>10, <1>12, <1>13
<1> QED BY <1>14 DEF o, g, p

LEMMA PiecesLast ==
  ASSUME NEW s \in Seq(CellOutput), s # <<>>, s[Len(s)].text # <<>>
  PROVE  /\ Pieces(s) \in Seq(PieceSet) /\ Pieces(s) # <<>>
         /\ Pieces(s)[Len(Pieces(s))].kind = s[Len(s)].kind
<1> DEFINE o == s[Len(s)]
           b == PiecesOf(o)
<1>1. PICK pre \in Seq(CellOutput) : s = Append(pre, o) /\ o \in CellOutput
  BY LastApart
<1>2. o.text \in Seq(Chunks) /\ o.text # <<>>
  BY <1>1 DEF CellOutput
<1> HIDE DEF o
<1>3. Len(o.text) \in 1..Len(o.text) /\ DOMAIN o.text = 1..Len(o.text)
  BY <1>2
<1>4. b \in Seq(PieceSet) /\ Len(b) = Len(o.text) /\ b[Len(b)].kind = o.kind
  <2>1. /\ b \in Seq(PieceSet) /\ Len(b) = Len(o.text)
        /\ \A j \in DOMAIN o.text : b[j] = Piece(o, j)
    BY <1>1, PiecesOfType
  <2>2. Piece(o, Len(o.text)).kind = o.kind
    BY DEF Piece
  <2> HIDE DEF b
  <2> QED BY <1>3, <2>1, <2>2
<1> DEFINE a == Pieces(pre)
<1>5. Pieces(s) = a \o b /\ a \in Seq(PieceSet)
  BY <1>1, PiecesAppend, PiecesType
<1> HIDE DEF a, b
<1>6. /\ a \o b \in Seq(PieceSet) /\ Len(a \o b) = Len(a) + Len(b)
      /\ \A k \in 1..(Len(a) + Len(b)) : (a \o b)[k] = IF k <= Len(a) THEN a[k] ELSE b[k - Len(a)]
      /\ Len(a) \in Nat /\ Len(b) \in Nat
  BY <1>4, <1>5, Joined
<1>7. Len(b) > 0
  BY <1>3, <1>4
<1>8. (a \o b)[Len(a) + Len(b)] = b[Len(b)] /\ a \o b # <<>>
  <2>1. Len(a) + Len(b) \in 1..(Len(a) + Len(b)) /\ ~ (Len(a) + Len(b) <= Len(a))
        /\ (Len(a) + Len(b)) - Len(a) = Len(b)
    BY <1>6, <1>7
  <2>2. (a \o b)[Len(a) + Len(b)] = b[Len(b)]
    BY <1>6, <2>1
  <2>3. Len(a \o b) # 0
    BY <1>6, <1>7
  <2> QED BY <2>2, <2>3
<1> QED BY <1>4, <1>5, <1>6, <1>8 DEF o

LEMMA PiecesOrigin ==
  ASSUME NEW s \in Seq(CellOutput)
  PROVE  /\ \A k \in DOMAIN Pieces(s) :
              \E i \in DOMAIN s : \E j \in DOMAIN s[i].text : Pieces(s)[k] = Piece(s[i], j)
         /\ \A i \in DOMAIN s : \A j \in DOMAIN s[i].text :
              \E k \in DOMAIN Pieces(s) : Pieces(s)[k] = Piece(s[i], j)
<1> DEFINE t == ToPieces(s)
<1>1. /\ t \in Seq(Seq(PieceSet)) /\ DOMAIN t = DOMAIN s
      /\ \A i \in DOMAIN s : t[i] = PiecesOf(s[i])
      /\ Pieces(s) = Flattened(t)
  BY ToPiecesType, PiecesType
<1>2. \A i \in DOMAIN s : /\ DOMAIN PiecesOf(s[i]) = DOMAIN s[i].text
                          /\ \A j \in DOMAIN s[i].text : PiecesOf(s[i])[j] = Piece(s[i], j)
  <2>1. \A i \in DOMAIN s : s[i] \in CellOutput
    OBVIOUS
  <2> QED BY <2>1, PiecesOfType
<1> HIDE DEF t
<1>3. /\ \A k \in DOMAIN Flattened(t) :
           \E i \in DOMAIN t : \E j \in DOMAIN t[i] : Flattened(t)[k] = t[i][j]
      /\ \A i \in DOMAIN t : \A j \in DOMAIN t[i] :
           \E k \in DOMAIN Flattened(t) : Flattened(t)[k] = t[i][j]
  BY <1>1, FlattenedOrigin
<1>4. ASSUME NEW k \in DOMAIN Pieces(s)
      PROVE  \E i \in DOMAIN s : \E j \in DOMAIN s[i].text : Pieces(s)[k] = Piece(s[i], j)
  <2>1. PICK i \in DOMAIN t : \E j \in DOMAIN t[i] : Flattened(t)[k] = t[i][j]
    BY <1>1, <1>3
  <2>2. PICK j \in DOMAIN t[i] : Flattened(t)[k] = t[i][j]
    BY <2>1
  <2>3. i \in DOMAIN s /\ j \in DOMAIN s[i].text /\ Pieces(s)[k] = Piece(s[i], j)
    BY <1>1, <1>2, <2>1, <2>2
  <2> QED BY <2>3
<1>5. ASSUME NEW i \in DOMAIN s, NEW j \in DOMAIN s[i].text
      PROVE  \E k \in DOMAIN Pieces(s) : Pieces(s)[k] = Piece(s[i], j)
  <2>1. i \in DOMAIN t /\ j \in DOMAIN t[i] /\ t[i][j] = Piece(s[i], j)
    BY <1>1, <1>2
  <2> QED BY <1>1, <1>3, <2>1
<1> QED BY <1>4, <1>5

(* A display is updated, and what is shown of pieces: element by element.  *)
Update(d, chunk) ==
  [p \in PieceSet |-> IF p.display = d THEN [p EXCEPT !.chunk = chunk] ELSE p]
Shows == [p \in PieceSet |-> <<p.chunk, p.kind>>]

LEMMA UpdateMaps ==
  ASSUME NEW d, NEW chunk \in Chunks
  PROVE  Maps(Update(d, chunk), PieceSet, PieceSet)
<1> DEFINE K == Streams \cup {"data", "error"}
           D == Displays \cup {NoDisplay}
           I == {0} \cup Chunks
<1>1. \A p \in PieceSet : [p EXCEPT !.chunk = chunk] \in PieceSet
  <2>1. PieceSet = [chunk : Chunks, kind : K, id : I, display : D]
    BY DEF PieceSet
  <2> HIDE DEF K, D, I
  <2> QED BY <2>1
<1> QED BY <1>1 DEF Maps, Update

LEMMA PiecesMapped ==
  ASSUME NEW s \in Seq(CellOutput), NEW t \in Seq(CellOutput), DOMAIN t = DOMAIN s,
         NEW m, Maps(m, PieceSet, PieceSet),
         \A i \in DOMAIN s : PiecesOf(t[i]) = Mapped(m, PiecesOf(s[i]))
  PROVE  Pieces(t) = Mapped(m, Pieces(s))
<1> DEFINE ss == ToPieces(s)
<1>1. /\ ss \in Seq(Seq(PieceSet)) /\ DOMAIN ss = DOMAIN s
      /\ \A i \in DOMAIN s : ss[i] = PiecesOf(s[i])
      /\ Pieces(s) = Flattened(ss)
  BY ToPiecesType, PiecesType
<1>2. Pieces(t) = Flattened([i \in DOMAIN s |-> PiecesOf(t[i])])
  BY DEF Pieces
<1> HIDE DEF ss
<1>3. [i \in DOMAIN s |-> PiecesOf(t[i])] = [i \in DOMAIN ss |-> Mapped(m, ss[i])]
  BY <1>1
<1>4. Flattened([i \in DOMAIN ss |-> Mapped(m, ss[i])]) = Mapped(m, Flattened(ss))
  BY <1>1, FlattenedMapped
<1> QED BY <1>1, <1>2, <1>3, <1>4

LEMMA PiecesUpdated ==
  ASSUME NEW s \in Seq(CellOutput), NEW d, NEW chunk \in Chunks,
         \A i \in DOMAIN s : s[i].display = d => Len(s[i].text) = 1
  PROVE  Pieces(Updated(s, d, chunk)) = Mapped(Update(d, chunk), Pieces(s))
<1> DEFINE t == Updated(s, d, chunk)
           m == Update(d, chunk)
<1>1. /\ t \in Seq(CellOutput) /\ DOMAIN t = DOMAIN s
      /\ \A i \in DOMAIN s : t[i] = IF s[i].display = d
                                    THEN [s[i] EXCEPT !.text = <<chunk>>] ELSE s[i]
  <2>1. t \in Seq(CellOutput) /\ DOMAIN t = DOMAIN s
    BY UpdatedType
  <2> QED BY <2>1 DEF Updated
<1>2. Maps(m, PieceSet, PieceSet)
  BY UpdateMaps
<1>3. \A p \in PieceSet : m[p] = IF p.display = d THEN [p EXCEPT !.chunk = chunk] ELSE p
  BY DEF Update
<1> HIDE DEF t, m
<1>4. ASSUME NEW i \in DOMAIN s PROVE PiecesOf(t[i]) = Mapped(m, PiecesOf(s[i]))
  <2> DEFINE o == s[i]
             u == t[i]
  <2>1. o \in CellOutput
    OBVIOUS
  <2>2. /\ u.kind = o.kind /\ u.id = o.id /\ u.display = o.display /\ u \in CellOutput
        /\ o.display = d => u.text = <<chunk>> /\ Len(o.text) = 1
        /\ o.display # d => u = o
    <3>1. <<chunk>> \in Seq(Chunks)
      OBVIOUS
    <3>2. /\ [o EXCEPT !.text = <<chunk>>] \in CellOutput
          /\ [o EXCEPT !.text = <<chunk>>].text = <<chunk>>
          /\ [o EXCEPT !.text = <<chunk>>].id = o.id
          /\ [o EXCEPT !.text = <<chunk>>].kind = o.kind
          /\ [o EXCEPT !.text = <<chunk>>].display = o.display
      BY <2>1, <3>1, OutputFields
    <3>3. u = IF o.display = d THEN [o EXCEPT !.text = <<chunk>>] ELSE o
      BY <1>1
    <3>4. o.display = d => Len(o.text) = 1
      OBVIOUS
    <3> HIDE DEF o, u
    <3> QED BY <2>1, <3>2, <3>3, <3>4
  <2> HIDE DEF o, u
  <2>3. /\ PiecesOf(o) = [j \in DOMAIN o.text |-> Piece(o, j)]
        /\ PiecesOf(u) = [j \in DOMAIN u.text |-> Piece(u, j)]
    BY DEF PiecesOf
  <2>4. Mapped(m, PiecesOf(o)) = [j \in DOMAIN o.text |-> m[Piece(o, j)]]
    BY <2>3 DEF Mapped
  <2>5. \A j \in DOMAIN o.text : /\ Piece(o, j) \in PieceSet /\ Piece(o, j).display = o.display
    BY <2>1, PieceType
  <2>6. CASE o.display # d
    <3>1. \A j \in DOMAIN o.text : m[Piece(o, j)] = Piece(u, j)
      BY <1>3, <2>2, <2>5, <2>6
    <3> QED BY <2>2, <2>3, <2>4, <2>6, <3>1 DEF o, u
  <2>7. CASE o.display = d
    <3>1. o.text \in Seq(Chunks)
      BY <2>1 DEF CellOutput
    <3>2. DOMAIN o.text = {1} /\ DOMAIN u.text = {1} /\ u.text[1] = chunk
      BY <2>2, <2>7, <3>1
    <3>3. m[Piece(o, 1)] = [Piece(o, 1) EXCEPT !.chunk = chunk]
      BY <1>3, <2>5, <2>7, <3>2
    <3>4. [Piece(o, 1) EXCEPT !.chunk = chunk] = Piece(u, 1)
      BY <2>2, <3>2 DEF Piece
    <3>5. \A j \in {1} : m[Piece(o, j)] = Piece(u, j)
      BY <3>3, <3>4
    <3> QED BY <2>3, <2>4, <3>2, <3>5 DEF o, u
  <2> QED BY <2>6, <2>7
<1>5. Pieces(t) = Mapped(m, Pieces(s))
  BY <1>1, <1>2, <1>4, PiecesMapped
<1> QED BY <1>5 DEF t, m

LEMMA ViewOfPieces ==
  ASSUME NEW s \in Seq(CellOutput)
  PROVE  View(s) = Mapped(Shows, Pieces(s))
<1> DEFINE ss == ToPieces(s)
           R == Chunks \X (Streams \cup {"data", "error"})
<1>1. /\ ss \in Seq(Seq(PieceSet)) /\ DOMAIN ss = DOMAIN s
      /\ \A i \in DOMAIN s : ss[i] = PiecesOf(s[i])
      /\ Pieces(s) = Flattened(ss)
  BY ToPiecesType, PiecesType
<1>2. Maps(Shows, PieceSet, R)
  BY DEF Maps, Shows, PieceSet
<1>3. ASSUME NEW i \in DOMAIN s
      PROVE  [j \in DOMAIN s[i].text |-> <<s[i].text[j], s[i].kind>>] = Mapped(Shows, PiecesOf(s[i]))
  <2>1. s[i] \in CellOutput
    OBVIOUS
  <2>2. \A j \in DOMAIN s[i].text : /\ Piece(s[i], j) \in PieceSet
                                    /\ Piece(s[i], j).chunk = s[i].text[j]
                                    /\ Piece(s[i], j).kind = s[i].kind
    BY <2>1, PieceType
  <2>3. \A j \in DOMAIN s[i].text : Shows[Piece(s[i], j)] = <<s[i].text[j], s[i].kind>>
    BY <2>2 DEF Shows
  <2>4. PiecesOf(s[i]) = [j \in DOMAIN s[i].text |-> Piece(s[i], j)]
    BY DEF PiecesOf
  <2>5. Mapped(Shows, PiecesOf(s[i])) = [j \in DOMAIN s[i].text |-> Shows[Piece(s[i], j)]]
    BY <2>4 DEF Mapped
  <2> QED BY <2>3, <2>5
<1> HIDE DEF ss, R
<1>4. [i \in DOMAIN s |-> [j \in DOMAIN s[i].text |-> <<s[i].text[j], s[i].kind>>]]
        = [i \in DOMAIN ss |-> Mapped(Shows, ss[i])]
  BY <1>1, <1>3
<1>5. Flattened([i \in DOMAIN ss |-> Mapped(Shows, ss[i])]) = Mapped(Shows, Flattened(ss))
  BY <1>1, <1>2, FlattenedMapped
<1> QED BY <1>1, <1>4, <1>5 DEF View

-----------------------------------------------------------------------------
(* The invariant.  Of the document that results when all edits are there,  *)
(* and of what is meant, it says that outputs are made in the order of     *)
(* their messages, and each as its kind is made.                           *)
WellMade(o, n, R) == /\ o.kind \in Streams => o.display = NoDisplay /\ o.text # <<>>
                     /\ o.kind \notin Streams => Len(o.text) = 1
                     /\ o.id <= n /\ o.by \in R
Good(outputs, n, R) ==
  /\ \A i \in DOMAIN outputs : WellMade(outputs[i], n, R)
  /\ \A i, j \in DOMAIN outputs : i < j => outputs[i].id < outputs[j].id
MadeInv == \A c \in Cells : Good(Outcome[c], messages, Runs) /\ Good(meant[c], messages, Runs)

(* Unless an exception applies, a cell has outputs of its own runs, and    *)
(* piece by piece those that are meant.                                    *)
OwnInv == \A c \in Cells \ spoiled : \A i \in DOMAIN Outcome[c] : run[Outcome[c][i].by].cell = c
PiecesInv == \A c \in Cells \ spoiled : Pieces(Outcome[c]) = Pieces(meant[c])

(* What is tracked for a display is its last output; others are stray.     *)
TrackedInv == \A d \in Displays :
  /\ tracked[d].id <= messages
  /\ tracked[d] # NoOutput => tracked[d].display = d /\ tracked[d].kind \notin Streams
ShownTracked == \A d \in Displays, c \in Cells : \A i \in DOMAIN Outcome[c] :
  Outcome[c][i].id = tracked[d].id => Outcome[c][i].display = d
MeantTracked == \A d \in Displays, c \in Cells \ spoiled : \A i \in DOMAIN meant[c] :
  meant[c][i].display = d => meant[c][i].id \in stray \/ meant[c][i].id = tracked[d].id

(* The output a handler writes to is its own, and the last of its cell.    *)
StreamInv == \A r \in Runs :
  /\ run[r].state \in {"clearing", "over"} => run[r].stream = NoOutput
  /\ run[r].stream # NoOutput => /\ run[r].stream.kind \in Streams /\ run[r].stream.by = r
                                 /\ run[r].stream.id <= messages
                                 /\ run[r].stream.display = NoDisplay
StreamOwn == \A r \in Runs : run[r].stream # NoOutput =>
  \A c \in Cells : \A i \in DOMAIN Outcome[c] :
     Outcome[c][i].id = run[r].stream.id => Outcome[c][i].by = r /\ Outcome[c][i].kind \in Streams
LastIs(outputs, o) == outputs # <<>> /\ outputs[Len(outputs)] = o
StreamLast == \A r \in Runs :
  run[r].stream # NoOutput /\ run[r].cell \notin spoiled /\ ~ ClearedUnheard(r)
    => LastIs(Outcome[run[r].cell], run[r].stream)

ClearInv == toClear = {r \in Runs : run[r].clearNext}

(* What a handler knows of errors.                                         *)
NoneBefore == \A r \in Runs : run[r].state = "clearing" =>
  \A c \in Cells : \A i \in DOMAIN Outcome[c] : Outcome[c][i].by # r
ErrorInv == \A r \in Runs :
  run[r].state = "executing" /\ ErrorIsThere(r) /\ r \notin misled => run[r].failed

(* The start of a run is on its way to VS Code or back, once.              *)
StartInv ==
  /\ \A i \in DOMAIN edits : edits[i].start # 0 => run[edits[i].start].state = "clearing"
  /\ \A i \in DOMAIN events : events[i].start # 0 => run[events[i].start].state = "clearing"
  /\ \A i, j \in DOMAIN edits : edits[i].start # 0 /\ edits[j].start # 0 => i = j
  /\ \A i, j \in DOMAIN events : events[i].start # 0 /\ events[j].start # 0 => i = j
  /\ \A i \in DOMAIN edits, j \in DOMAIN events : edits[i].start = 0 \/ events[j].start = 0
  /\ \A i \in DOMAIN events : events[i].start # 0 => ~ events[i].user

(* One run is started or executed at a time.                               *)
Busy(r) == run[r].state \in {"clearing", "executing"}
OneBusy == \A q, r \in Runs : Busy(q) /\ Busy(r) => q = r

OutputsInv ==
  /\ Typed /\ OneHandlerPerCell /\ MadeInv /\ OwnInv /\ PiecesInv
  /\ TrackedInv /\ ShownTracked /\ MeantTracked
  /\ StreamInv /\ StreamOwn /\ StreamLast /\ ClearInv /\ NoneBefore /\ ErrorInv /\ StartInv /\ OneBusy

-----------------------------------------------------------------------------
(* What steps do to outputs.                                               *)
Like(o, p) == o.id = p.id /\ o.kind = p.kind /\ o.by = p.by /\ o.display = p.display

LEMMA MadeLater ==
  ASSUME NEW o \in CellOutput, NEW n \in Nat, NEW m \in Nat, NEW R, NEW Q, n <= m, R \subseteq Q,
         WellMade(o, n, R)
  PROVE  WellMade(o, m, Q)
<1>1. o.id \in Nat
  BY Sizes DEF CellOutput
<1> QED BY <1>1 DEF WellMade

LEMMA GoodLater ==
  ASSUME NEW s \in Seq(CellOutput), NEW n \in Nat, NEW m \in Nat, NEW R, NEW Q, n <= m,
         R \subseteq Q, Good(s, n, R)
  PROVE  Good(s, m, Q)
<1>1. \A i \in DOMAIN s : s[i] \in CellOutput
  OBVIOUS
<1> QED BY <1>1, MadeLater DEF Good

LEMMA GoodEmpty == \A n, R : Good(<<>>, n, R)
BY DEF Good

LEMMA GoodAppend ==
  ASSUME NEW s \in Seq(CellOutput), NEW n \in Nat, NEW R, Good(s, n, R),
         NEW o \in CellOutput, o.id = n + 1, WellMade(o, n + 1, R)
  PROVE  Good(Append(s, o), n + 1, R) /\ Good(<<o>>, n + 1, R)
<1> DEFINE t == Append(s, o)
<1>1. /\ DOMAIN t = 1..(Len(s) + 1) /\ t[Len(s) + 1] = o /\ DOMAIN s = 1..Len(s) /\ Len(s) \in Nat
      /\ \A i \in 1..Len(s) : t[i] = s[i] /\ s[i] \in CellOutput
  OBVIOUS
<1> HIDE DEF t
<1>2. \A i \in 1..(Len(s) + 1) : i = Len(s) + 1 \/ i \in 1..Len(s)
  BY <1>1
<1>3. \A i \in 1..Len(s) : WellMade(s[i], n + 1, R) /\ s[i].id <= n /\ s[i].id \in Nat
  <2>1. \A i \in 1..Len(s) : WellMade(s[i], n, R)
    BY <1>1 DEF Good
  <2>2. n + 1 \in Nat /\ n <= n + 1
    OBVIOUS
  <2>3. \A i \in 1..Len(s) : WellMade(s[i], n + 1, R)
    BY <1>1, <2>1, <2>2, MadeLater
  <2>4. \A i \in 1..Len(s) : s[i].id \in Nat
    BY <1>1, Sizes DEF CellOutput
  <2> QED BY <2>1, <2>3, <2>4 DEF WellMade
<1>4. \A i \in DOMAIN t : WellMade(t[i], n + 1, R)
  BY <1>1, <1>2, <1>3
<1>5. ASSUME NEW i \in DOMAIN t, NEW j \in DOMAIN t, i < j PROVE t[i].id < t[j].id
  <2>1. i \in 1..Len(s)
    BY <1>1, <1>5
  <2>2. CASE j \in 1..Len(s)
    <3>1. s[i].id < s[j].id
      BY <1>1, <1>5, <2>1, <2>2 DEF Good
    <3> QED BY <1>1, <2>1, <2>2, <3>1
  <2>3. CASE j = Len(s) + 1
    BY <1>1, <1>3, <2>1, <2>3
  <2> QED BY <1>1, <1>2, <2>2, <2>3
<1>6. Good(<<o>>, n + 1, R)
  BY DEF Good
<1> QED BY <1>4, <1>5, <1>6 DEF Good, t

(* Other text, in outputs that are like those before.                      *)
LEMMA GoodTexts ==
  ASSUME NEW s, NEW t, NEW n, NEW R, Good(s, n, R), DOMAIN t = DOMAIN s,
         \A i \in DOMAIN s : Like(t[i], s[i]),
         \A i \in DOMAIN s : t[i].text = s[i].text \/
            (IF s[i].kind \in Streams THEN t[i].text # <<>> ELSE Len(t[i].text) = 1)
  PROVE  Good(t, n, R)
<1>1. \A i \in DOMAIN t : WellMade(t[i], n, R)
  <2> TAKE i \in DOMAIN t
  <2>1. Like(t[i], s[i]) /\ WellMade(s[i], n, R)
    BY DEF Good
  <2>2. t[i].text = s[i].text \/
            (IF s[i].kind \in Streams THEN t[i].text # <<>> ELSE Len(t[i].text) = 1)
    OBVIOUS
  <2> QED BY <2>1, <2>2 DEF Like, WellMade
<1>2. \A i, j \in DOMAIN t : i < j => t[i].id < t[j].id
  BY DEF Good, Like
<1> QED BY <1>1, <1>2 DEF Good

LEMMA WithTextLike ==
  ASSUME NEW s \in Seq(CellOutput), NEW id, NEW text \in Seq(Chunks)
  PROVE  /\ DOMAIN WithText(s, id, text) = DOMAIN s
         /\ \A i \in DOMAIN s :
              /\ Like(WithText(s, id, text)[i], s[i])
              /\ s[i].id = id => WithText(s, id, text)[i].text = text
              /\ s[i].id # id => WithText(s, id, text)[i] = s[i]
<1> DEFINE t == WithText(s, id, text)
<1>1. DOMAIN t = DOMAIN s
  BY WithTextType
<1>2. \A i \in DOMAIN s : t[i] = IF s[i].id = id THEN [s[i] EXCEPT !.text = text] ELSE s[i]
  BY DEF WithText
<1> HIDE DEF t
<1>3. ASSUME NEW i \in DOMAIN s
      PROVE  /\ Like(t[i], s[i]) /\ (s[i].id = id => t[i].text = text)
             /\ (s[i].id # id => t[i] = s[i])
  <2>1. s[i] \in CellOutput
    OBVIOUS
  <2>2. CASE s[i].id = id
    <3>1. t[i] = [s[i] EXCEPT !.text = text]
      BY <1>2, <2>2
    <3>2. /\ [s[i] EXCEPT !.text = text].text = text /\ [s[i] EXCEPT !.text = text].id = s[i].id
          /\ [s[i] EXCEPT !.text = text].kind = s[i].kind /\ [s[i] EXCEPT !.text = text].by = s[i].by
          /\ [s[i] EXCEPT !.text = text].display = s[i].display
      BY <2>1, OutputFields
    <3> QED BY <2>2, <3>1, <3>2 DEF Like
  <2>3. CASE s[i].id # id
    <3>1. t[i] = s[i]
      BY <1>2, <2>3
    <3> QED BY <2>3, <3>1 DEF Like
  <2> QED BY <2>2, <2>3
<1> QED BY <1>1, <1>3 DEF t

LEMMA UpdatedLike ==
  ASSUME NEW s \in Seq(CellOutput), NEW d, NEW chunk \in Chunks
  PROVE  /\ DOMAIN Updated(s, d, chunk) = DOMAIN s
         /\ \A i \in DOMAIN s :
              /\ Like(Updated(s, d, chunk)[i], s[i])
              /\ s[i].display = d => Updated(s, d, chunk)[i].text = <<chunk>>
              /\ s[i].display # d => Updated(s, d, chunk)[i] = s[i]
<1> DEFINE t == Updated(s, d, chunk)
           text == <<chunk>>
<1>1. DOMAIN t = DOMAIN s /\ text \in Seq(Chunks)
  BY UpdatedType
<1>2. \A i \in DOMAIN s : t[i] = IF s[i].display = d THEN [s[i] EXCEPT !.text = text] ELSE s[i]
  BY DEF Updated
<1> HIDE DEF t, text
<1>3. ASSUME NEW i \in DOMAIN s
      PROVE  /\ Like(t[i], s[i]) /\ (s[i].display = d => t[i].text = text)
             /\ (s[i].display # d => t[i] = s[i])
  <2>1. s[i] \in CellOutput
    OBVIOUS
  <2>2. CASE s[i].display = d
    <3>1. t[i] = [s[i] EXCEPT !.text = text]
      BY <1>2, <2>2
    <3>2. /\ [s[i] EXCEPT !.text = text].text = text /\ [s[i] EXCEPT !.text = text].id = s[i].id
          /\ [s[i] EXCEPT !.text = text].kind = s[i].kind /\ [s[i] EXCEPT !.text = text].by = s[i].by
          /\ [s[i] EXCEPT !.text = text].display = s[i].display
      BY <1>1, <2>1, OutputFields
    <3> QED BY <2>2, <3>1, <3>2 DEF Like
  <2>3. CASE s[i].display # d
    <3>1. t[i] = s[i]
      BY <1>2, <2>3
    <3> QED BY <2>3, <3>1 DEF Like
  <2> QED BY <2>2, <2>3
<1> QED BY <1>1, <1>3 DEF t, text

(* The outputs of a state come from those of the state before, or are new. *)
From(new, old, t, news) ==
  \A c \in Cells : \A i \in DOMAIN new[c] :
    \/ \E j \in DOMAIN old[c] : Like(new[c][i], old[c][j])
    \/ c = t /\ \E o \in news : Like(new[c][i], o)

LEMMA FromSame == ASSUME NEW s, NEW t, NEW news PROVE From(s, s, t, news)
BY DEF From, Like

LEMMA FromEmptied ==
  ASSUME NEW s \in Documents, NEW c \in Cells, NEW t, NEW news
  PROVE  From([s EXCEPT ![c] = <<>>], s, t, news)
<1>1. \A x \in Cells : [s EXCEPT ![c] = <<>>][x] = IF x = c THEN <<>> ELSE s[x]
  BY DEF Documents
<1>2. DOMAIN <<>> = {}
  OBVIOUS
<1> QED BY <1>1, <1>2 DEF From, Like

LEMMA FromAppended ==
  ASSUME NEW s \in Documents, NEW t \in Cells, NEW o
  PROVE  /\ From([s EXCEPT ![t] = Append(s[t], o)], s, t, {o})
         /\ From([s EXCEPT ![t] = <<o>>], s, t, {o})
<1> DEFINE a == Append(s[t], o)
<1>1. s[t] \in Seq(CellOutput)
  BY DEF Documents
<1>2. /\ DOMAIN a = 1..(Len(s[t]) + 1) /\ a[Len(s[t]) + 1] = o /\ DOMAIN s[t] = 1..Len(s[t])
      /\ \A i \in 1..Len(s[t]) : a[i] = s[t][i]
      /\ Len(s[t]) \in Nat
  BY <1>1
<1> HIDE DEF a
<1>3. \A i \in DOMAIN a : i = Len(s[t]) + 1 \/ i \in DOMAIN s[t]
  BY <1>2
<1>4. \A x \in Cells : [s EXCEPT ![t] = a][x] = IF x = t THEN a ELSE s[x]
  BY DEF Documents
<1>5. \A x \in Cells : [s EXCEPT ![t] = <<o>>][x] = IF x = t THEN <<o>> ELSE s[x]
  BY DEF Documents
<1>6. From([s EXCEPT ![t] = a], s, t, {o})
  BY <1>2, <1>3, <1>4 DEF From, Like
<1>7. DOMAIN <<o>> = {1} /\ <<o>>[1] = o
  OBVIOUS
<1>8. From([s EXCEPT ![t] = <<o>>], s, t, {o})
  BY <1>5, <1>7 DEF From, Like
<1> QED BY <1>6, <1>8 DEF a

LEMMA FromWithText ==
  ASSUME NEW s \in Documents, NEW id, NEW text \in Seq(Chunks), NEW t, NEW news
  PROVE  From([c \in Cells |-> WithText(s[c], id, text)], s, t, news)
<1>1. ASSUME NEW c \in Cells
      PROVE  /\ DOMAIN WithText(s[c], id, text) = DOMAIN s[c]
             /\ \A i \in DOMAIN s[c] : Like(WithText(s[c], id, text)[i], s[c][i])
  <2>1. s[c] \in Seq(CellOutput)
    BY DEF Documents
  <2> QED BY <2>1, WithTextLike
<1> QED BY <1>1 DEF From

LEMMA FromUpdated ==
  ASSUME NEW s \in Documents, NEW d, NEW chunk \in Chunks, NEW t, NEW news
  PROVE  From([c \in Cells |-> Updated(s[c], d, chunk)], s, t, news)
<1>1. ASSUME NEW c \in Cells
      PROVE  /\ DOMAIN Updated(s[c], d, chunk) = DOMAIN s[c]
             /\ \A i \in DOMAIN s[c] : Like(Updated(s[c], d, chunk)[i], s[c][i])
  <2>1. s[c] \in Seq(CellOutput)
    BY DEF Documents
  <2> QED BY <2>1, UpdatedLike
<1> QED BY <1>1 DEF From

LEMMA GoodOne ==
  ASSUME NEW s \in Documents, NEW c \in Cells, NEW new, NEW n \in Nat, NEW m \in Nat, n <= m,
         NEW R, NEW Q, R \subseteq Q, \A x \in Cells : Good(s[x], n, R), Good(new, m, Q)
  PROVE  \A x \in Cells : Good([s EXCEPT ![c] = new][x], m, Q)
<1>1. \A x \in Cells : [s EXCEPT ![c] = new][x] = IF x = c THEN new ELSE s[x]
  BY DEF Documents
<1>2. ASSUME NEW x \in Cells PROVE Good(s[x], m, Q)
  <2>1. s[x] \in Seq(CellOutput) /\ Good(s[x], n, R)
    BY DEF Documents
  <2> QED BY <2>1, GoodLater
<1> QED BY <1>1, <1>2

LEMMA ShownFacts ==
  ASSUME Typed, MadeInv, NEW c \in Cells
  PROVE  /\ Outcome \in Documents /\ meant \in Documents
         /\ Outcome[c] \in Seq(CellOutput) /\ meant[c] \in Seq(CellOutput)
         /\ Good(Outcome[c], messages, Runs) /\ Good(meant[c], messages, Runs)
         /\ \A i \in DOMAIN Outcome[c] :
              /\ Outcome[c][i] \in CellOutput /\ WellMade(Outcome[c][i], messages, Runs)
              /\ Outcome[c][i].id \in Chunks /\ Outcome[c][i].id \in Nat
              /\ Outcome[c][i].id <= messages /\ Outcome[c][i].by \in Runs
         /\ \A i \in DOMAIN meant[c] :
              /\ meant[c][i] \in CellOutput /\ WellMade(meant[c][i], messages, Runs)
              /\ meant[c][i].id \in Chunks
<1>1. Outcome \in Documents /\ meant \in Documents
  BY OutcomeType DEF Typed
<1>2. Outcome[c] \in Seq(CellOutput) /\ meant[c] \in Seq(CellOutput)
  BY <1>1 DEF Documents
<1>3. Good(Outcome[c], messages, Runs) /\ Good(meant[c], messages, Runs)
  BY DEF MadeInv
<1>4. \A o \in CellOutput : o.id \in Chunks /\ o.id \in Nat
  BY Sizes DEF CellOutput
<1>5. ASSUME NEW i \in DOMAIN Outcome[c]
      PROVE  Outcome[c][i] \in CellOutput /\ WellMade(Outcome[c][i], messages, Runs)
  <2>1. Outcome[c][i] \in CellOutput
    BY <1>2
  <2> QED BY <1>3, <2>1 DEF Good
<1>6. ASSUME NEW i \in DOMAIN meant[c]
      PROVE  meant[c][i] \in CellOutput /\ WellMade(meant[c][i], messages, Runs)
  <2>1. meant[c][i] \in CellOutput
    BY <1>2
  <2> QED BY <1>3, <2>1 DEF Good
<1> QED BY <1>1, <1>2, <1>3, <1>4, <1>5, <1>6 DEF WellMade

LEMMA Counted == ASSUME Typed PROVE messages \in Nat
BY OutputBounds DEF Typed, OutputsTypeOK

LEMMA OwnKept ==
  ASSUME Typed, MadeInv, OwnInv, NEW t, NEW news, From(Outcome', Outcome, t, news),
         \A q \in Runs : run'[q].cell = run[q].cell,
         \A c \in Cells \ spoiled' : c \notin spoiled \/ Outcome'[c] = <<>>,
         \A o \in news : o.by \in Runs /\ (run[o.by].cell = t \/ t \in spoiled')
  PROVE  OwnInv'
<1> SUFFICES ASSUME NEW c \in Cells \ spoiled', NEW i \in DOMAIN Outcome'[c]
             PROVE  run'[Outcome'[c][i].by].cell = c
  BY DEF OwnInv
<1>1. c \in Cells /\ c \notin spoiled
  <2>1. Outcome'[c] # <<>>
    OBVIOUS
  <2> QED BY <2>1
<1>2. CASE \E j \in DOMAIN Outcome[c] : Like(Outcome'[c][i], Outcome[c][j])
  <2>1. PICK j \in DOMAIN Outcome[c] : Like(Outcome'[c][i], Outcome[c][j])
    BY <1>2
  <2>2. Outcome[c][j].by \in Runs
    BY <1>1, <2>1, ShownFacts
  <2>3. run[Outcome[c][j].by].cell = c
    BY <1>1, <2>1 DEF OwnInv
  <2> QED BY <2>1, <2>2, <2>3 DEF Like
<1>3. CASE c = t /\ \E o \in news : Like(Outcome'[c][i], o)
  BY <1>3 DEF Like
<1> QED BY <1>1, <1>2, <1>3 DEF From

LEMMA ShownTrackedKept ==
  ASSUME Typed, MadeInv, TrackedInv, ShownTracked, NEW t, NEW news,
         From(Outcome', Outcome, t, news),
         \A o \in news : o.id = messages + 1,
         \A d \in Displays : \/ tracked'[d] = tracked[d]
                             \/ tracked'[d] = NoOutput /\ news = {}
                             \/ /\ tracked'[d].id = messages + 1
                                /\ \A o \in news : o.display = d
  PROVE  ShownTracked'
<1> SUFFICES ASSUME NEW d \in Displays, NEW c \in Cells, NEW i \in DOMAIN Outcome'[c],
                    Outcome'[c][i].id = tracked'[d].id
             PROVE  Outcome'[c][i].display = d
  BY DEF ShownTracked
<1>1. messages \in Nat /\ tracked[d].id <= messages
  BY Counted DEF TrackedInv
<1>2. CASE \E j \in DOMAIN Outcome[c] : Like(Outcome'[c][i], Outcome[c][j])
  <2>1. PICK j \in DOMAIN Outcome[c] : Like(Outcome'[c][i], Outcome[c][j])
    BY <1>2
  <2>2. Outcome[c][j].id \in Chunks /\ Outcome[c][j].id \in Nat /\ Outcome[c][j].id <= messages
    BY <2>1, ShownFacts
  <2>3. Outcome[c][j].id = tracked'[d].id
    BY <2>1 DEF Like
  <2>4. tracked'[d].id # messages + 1
    BY <1>1, <2>2, <2>3
  <2>5. tracked'[d] # NoOutput
    BY <2>2, <2>3 DEF NoOutput, Chunks
  <2>6. tracked'[d] = tracked[d] \/ tracked'[d] = NoOutput \/ tracked'[d].id = messages + 1
    OBVIOUS
  <2>7. Outcome[c][j].id = tracked[d].id
    BY <2>3, <2>4, <2>5, <2>6
  <2>8. Outcome[c][j].display = d
    BY <2>7 DEF ShownTracked
  <2> QED BY <2>1, <2>8 DEF Like
<1>3. CASE c = t /\ \E o \in news : Like(Outcome'[c][i], o)
  <2>1. PICK o \in news : Like(Outcome'[c][i], o)
    BY <1>3
  <2>2. tracked'[d].id = messages + 1 /\ news # {}
    BY <2>1 DEF Like
  <2>3. tracked'[d] # tracked[d]
    <3>1. tracked[d].id \in Nat
      <4>1. tracked[d] \in CellOutput \cup {NoOutput}
        BY DEF Typed, OutputsTypeOK
      <4>2. \A x \in CellOutput : x.id \in Nat
        BY Sizes DEF CellOutput
      <4>3. NoOutput.id = 0
        BY DEF NoOutput
      <4> QED BY <4>1, <4>2, <4>3
    <3> QED BY <1>1, <2>2, <3>1
  <2>4. \A p \in news : p.display = d
    BY <2>2, <2>3
  <2> QED BY <2>1, <2>4 DEF Like
<1> QED BY <1>2, <1>3 DEF From

LEMMA MeantTrackedKept ==
  ASSUME Typed, MeantTracked, NEW t, NEW news, From(meant', meant, t, news),
         \A c \in Cells \ spoiled' : c \notin spoiled \/ meant'[c] = <<>>,
         stray \subseteq stray',
         \A d \in Displays : tracked'[d] = tracked[d] \/ tracked[d].id \in stray',
         \A o \in news : o.display \in Displays => tracked'[o.display].id = o.id
  PROVE  MeantTracked'
<1> SUFFICES ASSUME NEW d \in Displays, NEW c \in Cells \ spoiled', NEW i \in DOMAIN meant'[c],
                    meant'[c][i].display = d
             PROVE  meant'[c][i].id \in stray' \/ meant'[c][i].id = tracked'[d].id
  BY DEF MeantTracked
<1>1. c \in Cells /\ c \notin spoiled
  <2>1. meant'[c] # <<>>
    OBVIOUS
  <2> QED BY <2>1
<1>2. CASE \E j \in DOMAIN meant[c] : Like(meant'[c][i], meant[c][j])
  <2>1. PICK j \in DOMAIN meant[c] : Like(meant'[c][i], meant[c][j])
    BY <1>2
  <2>2. meant[c][j].id \in stray \/ meant[c][j].id = tracked[d].id
    BY <1>1, <2>1 DEF MeantTracked, Like
  <2> QED BY <2>1, <2>2 DEF Like
<1>3. CASE c = t /\ \E o \in news : Like(meant'[c][i], o)
  BY <1>3 DEF Like
<1> QED BY <1>1, <1>2, <1>3 DEF From

LEMMA StreamOwnKept ==
  ASSUME Typed, MadeInv, StreamInv, StreamOwn, NEW t, NEW news,
         From(Outcome', Outcome, t, news),
         \A o \in news : o.id = messages + 1,
         \A r \in Runs' : \/ run'[r].stream = NoOutput
                          \/ r \in Runs /\ run'[r].stream.id = run[r].stream.id
                             /\ run[r].stream # NoOutput
                          \/ run'[r].stream.id = messages + 1
                             /\ \A o \in news : o.by = r /\ o.kind \in Streams
  PROVE  StreamOwn'
<1> SUFFICES ASSUME NEW r \in Runs', run'[r].stream # NoOutput, NEW c \in Cells,
                    NEW i \in DOMAIN Outcome'[c], Outcome'[c][i].id = run'[r].stream.id
             PROVE  Outcome'[c][i].by = r /\ Outcome'[c][i].kind \in Streams
  BY DEF StreamOwn
<1>1. messages \in Nat
  BY Counted
<1>2. CASE \E j \in DOMAIN Outcome[c] : Like(Outcome'[c][i], Outcome[c][j])
  <2>1. PICK j \in DOMAIN Outcome[c] : Like(Outcome'[c][i], Outcome[c][j])
    BY <1>2
  <2>2. Outcome[c][j].id \in Nat /\ Outcome[c][j].id <= messages
    BY <2>1, ShownFacts
  <2>3. Outcome[c][j].id = run'[r].stream.id
    BY <2>1 DEF Like
  <2>4. run'[r].stream.id # messages + 1
    BY <1>1, <2>2, <2>3
  <2>5. r \in Runs /\ run'[r].stream.id = run[r].stream.id /\ run[r].stream # NoOutput
    BY <2>4
  <2>6. Outcome[c][j].by = r /\ Outcome[c][j].kind \in Streams
    BY <2>3, <2>5 DEF StreamOwn
  <2> QED BY <2>1, <2>6 DEF Like
<1>3. CASE c = t /\ \E o \in news : Like(Outcome'[c][i], o)
  <2>1. PICK o \in news : Like(Outcome'[c][i], o)
    BY <1>3
  <2>2. run'[r].stream.id = messages + 1
    BY <2>1 DEF Like
  <2>3. ~ (r \in Runs /\ run'[r].stream.id = run[r].stream.id /\ run[r].stream # NoOutput)
    <3> SUFFICES ASSUME r \in Runs, run'[r].stream.id = run[r].stream.id, run[r].stream # NoOutput
                 PROVE  FALSE
      OBVIOUS
    <3>1. run[r].stream.id <= messages /\ run[r].stream.id = messages + 1
      BY <2>2 DEF StreamInv
    <3> QED BY <1>1, <2>2, <3>1
  <2>4. \A p \in news : p.by = r /\ p.kind \in Streams
    BY <2>3
  <2> QED BY <2>1, <2>4 DEF Like
<1> QED BY <1>2, <1>3 DEF From

LEMMA NoneBeforeKept ==
  ASSUME Typed, MadeInv, NoneBefore, NEW t, NEW news, From(Outcome', Outcome, t, news),
         \A r \in Runs' : run'[r].state = "clearing" =>
            /\ r \notin Runs \/ run[r].state = "clearing"
            /\ \A o \in news : o.by # r
  PROVE  NoneBefore'
<1> SUFFICES ASSUME NEW r \in Runs', run'[r].state = "clearing", NEW c \in Cells,
                    NEW i \in DOMAIN Outcome'[c], Outcome'[c][i].by = r
             PROVE  FALSE
  BY DEF NoneBefore
<1>1. CASE \E j \in DOMAIN Outcome[c] : Like(Outcome'[c][i], Outcome[c][j])
  <2>1. PICK j \in DOMAIN Outcome[c] : Like(Outcome'[c][i], Outcome[c][j])
    BY <1>1
  <2>2. Outcome[c][j].by = r /\ r \in Runs
    BY <2>1, ShownFacts DEF Like
  <2> QED BY <2>1, <2>2 DEF NoneBefore
<1>2. CASE c = t /\ \E o \in news : Like(Outcome'[c][i], o)
  BY <1>2 DEF Like
<1> QED BY <1>1, <1>2 DEF From

(* An error that is there was there, or is new.                            *)
LEMMA ErrorFrom ==
  ASSUME Typed, NEW t, NEW news, From(Outcome', Outcome, t, news), NEW r \in Runs,
         run'[r].cell = run[r].cell, ErrorIsThere(r)'
  PROVE  ErrorIsThere(r) \/ \E o \in news : o.by = r /\ o.kind = "error"
<1> DEFINE c == run[r].cell
<1>1. c \in Cells
  BY HandlerFields DEF Typed
<1>2. PICK i \in DOMAIN Outcome'[c] : Outcome'[c][i].kind = "error" /\ Outcome'[c][i].by = r
  BY DEF ErrorIsThere
<1>3. CASE \E j \in DOMAIN Outcome[c] : Like(Outcome'[c][i], Outcome[c][j])
  BY <1>2, <1>3 DEF ErrorIsThere, Like
<1>4. CASE c = t /\ \E o \in news : Like(Outcome'[c][i], o)
  BY <1>2, <1>4 DEF Like
<1> QED BY <1>1, <1>2, <1>3, <1>4 DEF From

LEMMA ErrorKept ==
  ASSUME Typed, ErrorInv, NEW t, NEW news, From(Outcome', Outcome, t, news),
         \A r \in Runs' : run'[r].state = "executing" =>
            /\ r \in Runs /\ run[r].state = "executing" /\ run'[r].cell = run[r].cell
            /\ \/ run'[r].failed
               \/ /\ r \in misled => r \in misled'
                  /\ run[r].failed => run'[r].failed
                  /\ \A o \in news : o.by # r \/ o.kind # "error"
  PROVE  ErrorInv'
<1> SUFFICES ASSUME NEW r \in Runs', run'[r].state = "executing", ErrorIsThere(r)', r \notin misled',
                    ~ run'[r].failed
             PROVE  FALSE
  BY DEF ErrorInv
<1>1. /\ r \in Runs /\ run[r].state = "executing" /\ run'[r].cell = run[r].cell
      /\ r \notin misled /\ ~ run[r].failed /\ \A o \in news : o.by # r \/ o.kind # "error"
  OBVIOUS
<1>2. ErrorIsThere(r)
  BY <1>1, ErrorFrom
<1> QED BY <1>1, <1>2 DEF ErrorInv

-----------------------------------------------------------------------------
(* What most steps keep.                                                   *)
RunsSame == Runs' = Runs /\ \A q \in Runs : run'[q].cell = run[q].cell

LEMMA DocumentsKept ==
  ASSUME Typed, MadeInv, OwnInv, PiecesInv, Outcome' = Outcome, meant' = meant,
         spoiled' = spoiled, messages' \in Nat, messages <= messages', RunsSame
  PROVE  MadeInv' /\ OwnInv' /\ PiecesInv'
<1>1. ASSUME NEW c \in Cells
      PROVE  Good(Outcome[c], messages', Runs') /\ Good(meant[c], messages', Runs')
  <2>1. /\ Outcome[c] \in Seq(CellOutput) /\ meant[c] \in Seq(CellOutput)
        /\ Good(Outcome[c], messages, Runs) /\ Good(meant[c], messages, Runs)
    BY ShownFacts
  <2>2. messages \in Nat /\ messages' \in Nat /\ messages <= messages' /\ Runs \subseteq Runs'
    BY Counted DEF RunsSame
  <2> QED BY <2>1, <2>2, GoodLater
<1>2. MadeInv'
  BY <1>1 DEF MadeInv
<1>3. OwnInv'
  <2> SUFFICES ASSUME NEW c \in Cells \ spoiled', NEW i \in DOMAIN Outcome'[c]
               PROVE  run'[Outcome'[c][i].by].cell = c
    BY DEF OwnInv
  <2>1. c \in Cells /\ i \in DOMAIN Outcome[c]
    OBVIOUS
  <2>2. Outcome[c][i].by \in Runs
    BY <2>1, ShownFacts
  <2>3. run[Outcome[c][i].by].cell = c
    BY DEF OwnInv
  <2> QED BY <2>2, <2>3 DEF RunsSame
<1>4. PiecesInv'
  BY DEF PiecesInv
<1> QED BY <1>2, <1>3, <1>4

LEMMA ShownKept ==
  ASSUME ShownTracked, Outcome' = Outcome,
         \A d \in Displays : tracked'[d] = tracked[d] \/ tracked'[d] = NoOutput,
         Typed
  PROVE  ShownTracked'
<1> SUFFICES ASSUME NEW d \in Displays, NEW c \in Cells, NEW i \in DOMAIN Outcome'[c],
                    Outcome'[c][i].id = tracked'[d].id
             PROVE  Outcome'[c][i].display = d
  BY DEF ShownTracked
<1>1. Outcome[c][i].id # 0
  <2>1. Outcome[c] \in Seq(CellOutput)
    BY OutcomeType DEF Typed, Documents
  <2>2. Outcome[c][i] \in CellOutput
    BY <2>1
  <2>3. Outcome[c][i].id \in Chunks
    BY <2>2 DEF CellOutput
  <2> QED BY <2>3, Sizes
<1>2. tracked'[d] # NoOutput
  BY <1>1, Sizes
<1> QED BY <1>2 DEF ShownTracked

LEMMA TrackedKept ==
  ASSUME Typed, TrackedInv, messages' \in Nat, messages <= messages',
         \A d \in Displays : tracked'[d] = tracked[d] \/ tracked'[d] = NoOutput
  PROVE  TrackedInv'
<1> SUFFICES ASSUME NEW d \in Displays
             PROVE  /\ tracked'[d].id <= messages'
                    /\ tracked'[d] # NoOutput => tracked'[d].display = d /\ tracked'[d].kind \notin Streams
  BY DEF TrackedInv
<1>1. tracked[d].id \in Nat /\ NoOutput.id = 0
  <2>1. tracked[d] \in CellOutput \cup {NoOutput}
    BY DEF Typed, OutputsTypeOK
  <2>2. \A o \in CellOutput : o.id \in Nat
    BY Sizes DEF CellOutput
  <2> QED BY <2>1, <2>2, Sizes
<1>2. messages \in Nat
  BY Counted
<1>3. /\ tracked[d].id <= messages
      /\ tracked[d] # NoOutput => tracked[d].display = d /\ tracked[d].kind \notin Streams
  BY DEF TrackedInv
<1>4. CASE tracked'[d] = tracked[d]
  BY <1>1, <1>2, <1>3, <1>4
<1>5. CASE tracked'[d] = NoOutput
  BY <1>1, <1>5
<1> QED BY <1>4, <1>5

LEMMA StreamKept ==
  ASSUME Typed, StreamInv, messages' \in Nat, messages <= messages', Runs' = Runs,
         \A q \in Runs : /\ run'[q].stream \in {NoOutput, run[q].stream}
                         /\ run'[q].state \in {"clearing", "over"} => run'[q].stream = NoOutput
  PROVE  StreamInv'
<1> SUFFICES ASSUME NEW q \in Runs
             PROVE  /\ run'[q].state \in {"clearing", "over"} => run'[q].stream = NoOutput
                    /\ run'[q].stream # NoOutput
                         => /\ run'[q].stream.kind \in Streams /\ run'[q].stream.by = q
                            /\ run'[q].stream.id <= messages' /\ run'[q].stream.display = NoDisplay
  BY DEF StreamInv
<1>1. run[q].stream \in CellOutput \cup {NoOutput} /\ messages \in Nat
  BY Counted, HandlerFields DEF Typed
<1>2. \A o \in CellOutput : o.id \in Nat
  BY Sizes DEF CellOutput
<1>3. CASE run'[q].stream = NoOutput
  BY <1>3
<1>4. CASE run'[q].stream = run[q].stream /\ run[q].stream # NoOutput
  <2>1. /\ run[q].stream.kind \in Streams /\ run[q].stream.by = q
        /\ run[q].stream.id <= messages /\ run[q].stream.display = NoDisplay
    BY <1>4 DEF StreamInv
  <2>2. run[q].stream.id <= messages'
    BY <1>1, <1>2, <1>4, <2>1
  <2>3. run'[q].state \in {"clearing", "over"} => run'[q].stream = NoOutput
    OBVIOUS
  <2> QED BY <1>4, <2>1, <2>2, <2>3
<1> QED BY <1>3, <1>4

LEMMA UnheardSame ==
  ASSUME RunsSame, events' = events,
         \A q \in Runs : run'[q].state = "clearing" <=> run[q].state = "clearing"
  PROVE  \A q \in Runs : ClearedUnheard(q)' <=> ClearedUnheard(q)
<1> TAKE q \in Runs
<1>1. \A p \in Runs : run'[p].cell = run[p].cell
  BY DEF RunsSame
<1>2. Runs' = Runs
  BY DEF RunsSame
<1>3. (\E p \in Runs' : run'[p].state = "clearing" /\ run'[p].cell = run'[q].cell)
        <=> \E p \in Runs : run[p].state = "clearing" /\ run[p].cell = run[q].cell
  BY <1>1, <1>2
<1> QED BY <1>1, <1>3 DEF ClearedUnheard

(* Edits that are no start of a run.                                       *)
Quiet(new, old) ==
  \A k \in DOMAIN new : new[k].start = 0 \/ (k \in DOMAIN old /\ new[k] = old[k])

LEMMA QuietAppend ==
  ASSUME NEW S, NEW es \in Seq(S), NEW e, e.start = 0
  PROVE  Quiet(Append(es, e), es)
<1> DEFINE a == Append(es, e)
<1>1. /\ DOMAIN a = 1..(Len(es) + 1) /\ a[Len(es) + 1] = e /\ DOMAIN es = 1..Len(es)
      /\ \A i \in 1..Len(es) : a[i] = es[i]
      /\ Len(es) \in Nat
  OBVIOUS
<1> HIDE DEF a
<1>2. \A i \in DOMAIN a : i = Len(es) + 1 \/ i \in DOMAIN es
  BY <1>1
<1>3. ASSUME NEW k \in DOMAIN a PROVE a[k].start = 0 \/ (k \in DOMAIN es /\ a[k] = es[k])
  <2>1. CASE k = Len(es) + 1
    <3>1. a[k] = e
      BY <1>1, <2>1
    <3>2. a[k].start = e.start
      BY <3>1, Zenon
    <3> QED BY <3>2
  <2>2. CASE k \in DOMAIN es
    BY <1>1, <2>2
  <2> QED BY <1>2, <2>1, <2>2
<1> QED BY <1>3 DEF a, Quiet

LEMMA QuietSame == \A es : Quiet(es, es)
BY DEF Quiet

LEMMA StartKept ==
  ASSUME StartInv, Quiet(events', events), Quiet(edits', edits),
         \A q \in Runs : run[q].state = "clearing" => run'[q].state = "clearing", Typed
  PROVE  StartInv'
<1>1. \A k \in DOMAIN edits : edits[k].start # 0 => edits[k].start \in Runs
  BY EditsOf, RunFacts DEF Typed, EditsAre
<1>2. \A k \in DOMAIN events : events[k].start # 0 => events[k].start \in Runs
  <2>1. events \in Seq(Event(Len(run))) /\ Runs = 1..Len(run) /\ Len(run) \in Nat
    BY TypedParts, RunFacts DEF Typed, RestTyped
  <2>2. \A k \in DOMAIN events : events[k] \in Event(Len(run))
    BY <2>1
  <2>3. \A k \in DOMAIN events : events[k].start \in 0..Len(run)
    BY <2>2 DEF Event
  <2> QED BY <2>1, <2>3
<1>3. \A k \in DOMAIN edits' : edits'[k].start # 0 => k \in DOMAIN edits /\ edits'[k] = edits[k]
  BY DEF Quiet
<1>4. \A k \in DOMAIN events' : events'[k].start # 0 => k \in DOMAIN events /\ events'[k] = events[k]
  BY DEF Quiet
<1>5. \A k \in DOMAIN edits : edits[k].start # 0 => run[edits[k].start].state = "clearing"
  BY DEF StartInv
<1>6. \A k \in DOMAIN edits : edits[k].start # 0 => run'[edits[k].start].state = "clearing"
  BY <1>1, <1>5
<1>7. \A i \in DOMAIN edits' : edits'[i].start # 0 => run'[edits'[i].start].state = "clearing"
  BY <1>3, <1>6
<1>8. \A i \in DOMAIN events : events[i].start # 0 => run[events[i].start].state = "clearing"
  BY DEF StartInv
<1>9. \A i \in DOMAIN events : events[i].start # 0 => run'[events[i].start].state = "clearing"
  BY <1>2, <1>8
<1>10. \A i \in DOMAIN events' : events'[i].start # 0 => run'[events'[i].start].state = "clearing"
  BY <1>4, <1>9
<1>11. \A i, j \in DOMAIN edits' : edits'[i].start # 0 /\ edits'[j].start # 0 => i = j
  BY <1>3 DEF StartInv
<1>12. \A i \in DOMAIN edits', j \in DOMAIN events' : edits'[i].start = 0 \/ events'[j].start = 0
  BY <1>3, <1>4 DEF StartInv
<1>13. /\ \A i, j \in DOMAIN events' : events'[i].start # 0 /\ events'[j].start # 0 => i = j
       /\ \A i \in DOMAIN events' : events'[i].start # 0 => ~ events'[i].user
  BY <1>4 DEF StartInv
<1> QED BY <1>7, <1>10, <1>11, <1>12, <1>13 DEF StartInv

LEMMA BusyKept ==
  ASSUME OneBusy, Runs' = Runs,
         \A q \in Runs : run'[q].state \in {"clearing", "executing"}
                           => run[q].state \in {"clearing", "executing"}
  PROVE  OneBusy'
BY DEF OneBusy, Busy

(* The steps of handlers that change no output.                            *)
LEMMA KeptStep ==
  ASSUME OutputsInv, Typed', OneHandlerPerCell', RunsSame, Outcome' = Outcome,
         Quiet(edits', edits), events' = events, messages' \in Nat, messages <= messages',
         meant' = meant, stray' = stray, misled' = misled, spoiled' = spoiled, ClearInv',
         tracked' = tracked,
         \A q \in Runs :
            /\ run'[q].stream \in {NoOutput, run[q].stream}
            /\ run'[q].state \in {"clearing", "over"} => run'[q].stream = NoOutput
            /\ run'[q].state = "clearing" <=> run[q].state = "clearing"
            /\ run'[q].state = "executing" => run[q].state = "executing"
                                              /\ (run[q].failed => run'[q].failed)
  PROVE  OutputsInv'
<1>1. Runs' = Runs /\ \A q \in Runs : run'[q].cell = run[q].cell
  BY DEF RunsSame
<1>2. MadeInv' /\ OwnInv' /\ PiecesInv'
  BY <1>1, DocumentsKept DEF OutputsInv
<1>3. TrackedInv' /\ ShownTracked' /\ MeantTracked'
  <2>1. TrackedInv'
    BY <1>1, TrackedKept DEF OutputsInv
  <2>2. ShownTracked'
    BY ShownKept DEF OutputsInv
  <2>3. MeantTracked'
    BY DEF OutputsInv, MeantTracked
  <2> QED BY <2>1, <2>2, <2>3
<1>4. StreamInv'
  BY <1>1, StreamKept DEF OutputsInv
<1>5. StreamOwn'
  <2>1. StreamOwn
    BY DEF OutputsInv
  <2>2. \A q \in Runs : run'[q].stream \in {NoOutput, run[q].stream}
    OBVIOUS
  <2> QED BY <1>1, <2>1, <2>2 DEF StreamOwn
<1>6. StreamLast'
  <2>1. \A q \in Runs : ClearedUnheard(q)' <=> ClearedUnheard(q)
    BY UnheardSame
  <2>2. StreamLast
    BY DEF OutputsInv
  <2>3. \A q \in Runs : run'[q].stream \in {NoOutput, run[q].stream}
    OBVIOUS
  <2> QED BY <1>1, <2>1, <2>2, <2>3 DEF StreamLast
<1>7. NoneBefore'
  BY <1>1 DEF OutputsInv, NoneBefore
<1>8. ErrorInv'
  <2>1. ErrorInv
    BY DEF OutputsInv
  <2>2. \A q \in Runs : run'[q].state = "executing" => run[q].state = "executing"
                                              /\ (run[q].failed => run'[q].failed)
    OBVIOUS
  <2> QED BY <1>1, <2>1, <2>2 DEF ErrorInv, ErrorIsThere
<1>9. StartInv'
  <2>1. Quiet(edits', edits) /\ Quiet(events', events)
    BY QuietSame
  <2> QED BY <2>1, StartKept DEF OutputsInv
<1>10. OneBusy'
  BY <1>1, BusyKept DEF OutputsInv
<1> QED BY <1>2, <1>3, <1>4, <1>5, <1>6, <1>7, <1>8, <1>9, <1>10 DEF OutputsInv

LEMMA QuietStep ==
  ASSUME OutputsInv, Typed', OneHandlerPerCell', RunsSame, documentVars' = documentVars,
         messages' = messages, meaning' = meaning, tracked' = tracked,
         \A q \in Runs :
            /\ run'[q].stream \in {NoOutput, run[q].stream}
            /\ run'[q].state \in {"clearing", "over"} => run'[q].stream = NoOutput
            /\ run'[q].clearNext = run[q].clearNext
            /\ run'[q].state = "clearing" <=> run[q].state = "clearing"
            /\ run'[q].state = "executing" => run[q].state = "executing"
                                              /\ (run[q].failed => run'[q].failed)
  PROVE  OutputsInv'
<1>1. /\ shown' = shown /\ edits' = edits /\ events' = events /\ meant' = meant
      /\ toClear' = toClear /\ stray' = stray /\ misled' = misled /\ spoiled' = spoiled
  BY DEF documentVars, meaning
<1>2. Outcome' = Outcome /\ Quiet(edits', edits)
  BY <1>1, OutcomeKept, QuietSame
<1>3. messages' \in Nat /\ messages <= messages'
  BY Counted DEF OutputsInv
<1>4. ClearInv'
  BY <1>1 DEF OutputsInv, ClearInv, RunsSame
<1>5. \A q \in Runs :
        /\ run'[q].stream \in {NoOutput, run[q].stream}
        /\ run'[q].state \in {"clearing", "over"} => run'[q].stream = NoOutput
        /\ run'[q].state = "clearing" <=> run[q].state = "clearing"
        /\ run'[q].state = "executing" => run[q].state = "executing"
                                          /\ (run[q].failed => run'[q].failed)
  OBVIOUS
<1> QED BY <1>1, <1>2, <1>3, <1>4, <1>5, KeptStep

-----------------------------------------------------------------------------
(* The invariant holds at first, and each action keeps it.                 *)
LEMMA OutputsInitInv == ASSUME OutputsInit PROVE OutputsInv
<1>1. /\ run = <<>> /\ edits = <<>> /\ events = <<>> /\ messages = 0
      /\ tracked = [d \in Displays |-> NoOutput]
      /\ shown = [c \in Cells |-> <<>>] /\ meant = shown
      /\ toClear = {} /\ stray = {} /\ misled = {} /\ spoiled = {}
  BY DEF OutputsInit
<1>2. Typed /\ OneHandlerPerCell /\ Runs = {}
  BY <1>1, InitialHandlers DEF Runs
<1>3. Outcome = shown
  <2>1. shown \in Documents
    BY <1>2, OutcomeType DEF Typed
  <2> QED BY <1>1, <2>1, AppliedEmpty DEF Outcome
<1>4. \A c \in Cells : Outcome[c] = <<>> /\ meant[c] = <<>>
  BY <1>1, <1>3
<1>5. MadeInv
  BY <1>4, GoodEmpty DEF MadeInv
<1>6. OwnInv /\ PiecesInv
  BY <1>4 DEF OwnInv, PiecesInv
<1>7. TrackedInv
  BY <1>1, Sizes DEF TrackedInv
<1>8. ShownTracked /\ MeantTracked
  BY <1>4 DEF ShownTracked, MeantTracked
<1>9. StreamInv /\ StreamOwn /\ StreamLast /\ ClearInv /\ NoneBefore /\ ErrorInv /\ OneBusy
  BY <1>1, <1>2 DEF StreamInv, StreamOwn, StreamLast, ClearInv, NoneBefore, ErrorInv, OneBusy
<1>10. StartInv
  BY <1>1 DEF StartInv
<1> QED BY <1>2, <1>5, <1>6, <1>7, <1>8, <1>9, <1>10 DEF OutputsInv

LEMMA StutterInv == ASSUME OutputsInv, UNCHANGED outputVars PROVE OutputsInv'
<1>1. run' = run /\ tracked' = tracked /\ messages' = messages
      /\ documentVars' = documentVars /\ meaning' = meaning /\ Runs' = Runs
  BY DEF outputVars, documentVars, meaning, trackerVars, Runs
<1>2. Typed' /\ OneHandlerPerCell'
  BY SameHandlers DEF OutputsInv
<1>3. \A q \in Runs : run[q].state \in {"clearing", "over"} => run[q].stream = NoOutput
  BY DEF OutputsInv, StreamInv
<1> QED BY <1>1, <1>2, <1>3, QuietStep DEF RunsSame

LEMMA CompletedSuccessfullyInv ==
  ASSUME OutputsInv, Typed', OneHandlerPerCell', NEW r \in 1..MaxRuns, CompletedSuccessfully(r)
  PROVE  OutputsInv'
<1> DEFINE rep == IF run[r].failed THEN "failed" ELSE "success"
           h == [run[r] EXCEPT !.state = IF run[r].comms THEN "listening" ELSE "over",
                               !.stream = NoOutput, !.reported = rep]
<1>1. RunEnds(r, rep) /\ rep \in {"no", "success", "failed"}
      /\ tracked' = tracked /\ documentVars' = documentVars /\ messages' = messages
      /\ meaning' = meaning
  BY DEF CompletedSuccessfully, trackerVars
<1> HIDE DEF rep
<1>2. /\ r \in Runs /\ run[r].state = "executing" /\ Runs' = Runs
      /\ run'[r] = h /\ \A q \in Runs \ {r} : run'[q] = run[q]
  BY <1>1, EndStep DEF OutputsInv
<1>3. /\ h.cell = run[r].cell /\ h.stream = NoOutput /\ h.clearNext = run[r].clearNext
      /\ h.state \in {"listening", "over"}
  BY <1>2, HandlerFields DEF OutputsInv, Typed, Handler
<1> HIDE DEF h
<1>4. \A q \in Runs : run[q].state \in {"clearing", "over"} => run[q].stream = NoOutput
  BY DEF OutputsInv, StreamInv
<1>5. RunsSame
  BY <1>2, <1>3 DEF RunsSame
<1>6. ASSUME NEW q \in Runs
      PROVE /\ run'[q].stream \in {NoOutput, run[q].stream}
            /\ run'[q].state \in {"clearing", "over"} => run'[q].stream = NoOutput
            /\ run'[q].clearNext = run[q].clearNext
            /\ run'[q].state = "clearing" <=> run[q].state = "clearing"
            /\ run'[q].state = "executing" => run[q].state = "executing"
                                              /\ (run[q].failed => run'[q].failed)
  <2>1. CASE q = r
    BY <1>2, <1>3, <2>1
  <2>2. CASE q # r
    BY <1>2, <1>4, <2>2
  <2> QED BY <2>1, <2>2
<1> QED BY <1>1, <1>5, <1>6, QuietStep

LEMMA CommOpenInv ==
  ASSUME OutputsInv, Typed', OneHandlerPerCell', NEW r \in Runs, CommOpen(r)
  PROVE  OutputsInv'
<1> DEFINE h == [run[r] EXCEPT !.comms = TRUE]
<1>1. /\ run' = [run EXCEPT ![r] = h] /\ tracked' = tracked /\ documentVars' = documentVars
      /\ messages' = messages /\ meaning' = meaning
  <2>1. run' = [run EXCEPT ![r].comms = TRUE] /\ run \in [Runs -> Handler]
    BY RunFacts DEF CommOpen, OutputsInv, Typed
  <2> QED BY <2>1 DEF CommOpen, trackerVars
<1>2. run[r] \in Handler
  BY HandlerFields DEF OutputsInv, Typed
<1>3. /\ h.cell = run[r].cell /\ h.stream = run[r].stream /\ h.clearNext = run[r].clearNext
      /\ h.state = run[r].state /\ h.failed = run[r].failed /\ h \in Handler
  BY <1>2 DEF Handler
<1> HIDE DEF h
<1>4. Runs' = Runs /\ run'[r] = h /\ \A q \in Runs \ {r} : run'[q] = run[q]
  BY <1>1, <1>3, RunStep DEF OutputsInv
<1>5. \A q \in Runs : run[q].state \in {"clearing", "over"} => run[q].stream = NoOutput
  BY DEF OutputsInv, StreamInv
<1>6. RunsSame
  BY <1>3, <1>4 DEF RunsSame
<1>7. ASSUME NEW q \in Runs
      PROVE /\ run'[q].stream \in {NoOutput, run[q].stream}
            /\ run'[q].state \in {"clearing", "over"} => run'[q].stream = NoOutput
            /\ run'[q].clearNext = run[q].clearNext
            /\ run'[q].state = "clearing" <=> run[q].state = "clearing"
            /\ run'[q].state = "executing" => run[q].state = "executing"
                                              /\ (run[q].failed => run'[q].failed)
  <2>1. CASE q = r
    BY <1>3, <1>4, <1>5, <2>1
  <2>2. CASE q # r
    BY <1>4, <1>5, <2>2
  <2> QED BY <2>1, <2>2
<1> QED BY <1>1, <1>6, <1>7, QuietStep

(* A cell of the document is emptied, and one of what is meant.            *)
LEMMA EmptiedKept ==
  ASSUME OutputsInv, NEW c \in Cells, NEW e \in Cells,
         Outcome' = [Outcome EXCEPT ![c] = <<>>], meant' = [meant EXCEPT ![e] = <<>>],
         c # e => c \in spoiled' /\ e \in spoiled',
         \A x \in Cells \ spoiled' : x \notin spoiled \/ (x = c /\ x = e),
         messages' \in Nat, messages <= messages', Runs \subseteq Runs',
         \A q \in Runs : run'[q].cell = run[q].cell, tracked' = tracked, stray' = stray
  PROVE  /\ MadeInv' /\ OwnInv' /\ PiecesInv' /\ ShownTracked' /\ MeantTracked'
         /\ \A t, news : From(Outcome', Outcome, t, news)
<1>1. Outcome \in Documents /\ meant \in Documents /\ messages \in Nat
  BY OutcomeType, Counted DEF OutputsInv, Typed
<1>2. \A x \in Cells : /\ Outcome'[x] = IF x = c THEN <<>> ELSE Outcome[x]
                       /\ meant'[x] = IF x = e THEN <<>> ELSE meant[x]
  BY <1>1 DEF Documents
<1>3. \A t, news : From(Outcome', Outcome, t, news) /\ From(meant', meant, t, news)
  BY <1>1, FromEmptied
<1>4. MadeInv'
  <2>1. \A x \in Cells : Good(Outcome[x], messages, Runs) /\ Good(meant[x], messages, Runs)
    BY DEF OutputsInv, MadeInv
  <2>2. \A x \in Cells : Good(Outcome'[x], messages', Runs')
    BY <1>1, <2>1, GoodEmpty, GoodOne
  <2>3. \A x \in Cells : Good(meant'[x], messages', Runs')
    BY <1>1, <2>1, GoodEmpty, GoodOne
  <2> QED BY <2>2, <2>3 DEF MadeInv
<1> DEFINE none == {}
<1>0. /\ Typed /\ MadeInv /\ OwnInv /\ TrackedInv /\ ShownTracked /\ MeantTracked
      /\ \A x \in none : FALSE
      /\ From(Outcome', Outcome, c, none) /\ From(meant', meant, c, none)
  BY <1>3 DEF OutputsInv
<1> HIDE DEF none
<1>5. OwnInv'
  <2>1. \A x \in Cells \ spoiled' : x \notin spoiled \/ Outcome'[x] = <<>>
    BY <1>2
  <2>2. \A o \in none : o.by \in Runs /\ (run[o.by].cell = c \/ c \in spoiled')
    BY <1>0
  <2> QED BY <1>0, <2>1, <2>2, OwnKept
<1>6. PiecesInv'
  BY <1>2 DEF PiecesInv, OutputsInv
<1>7. ShownTracked'
  <2>1. \A o \in none : o.id = messages + 1
    BY <1>0
  <2>2. \A d \in Displays : \/ tracked'[d] = tracked[d]
                            \/ tracked'[d] = NoOutput /\ none = {}
                            \/ /\ tracked'[d].id = messages + 1
                               /\ \A o \in none : o.display = d
    OBVIOUS
  <2> QED BY <1>0, <2>1, <2>2, ShownTrackedKept
<1>8. MeantTracked'
  <2>1. \A x \in Cells \ spoiled' : x \notin spoiled \/ meant'[x] = <<>>
    BY <1>2
  <2>2. \A o \in none : o.display \in Displays => tracked'[o.display].id = o.id
    BY <1>0
  <2>3. \A d \in Displays : tracked'[d] = tracked[d] \/ tracked[d].id \in stray'
    OBVIOUS
  <2> QED BY <1>0, <2>1, <2>2, <2>3, MeantTrackedKept
<1> QED BY <1>3, <1>4, <1>5, <1>6, <1>7, <1>8

LEMMA UserClearsInv ==
  ASSUME OutputsInv, Typed', OneHandlerPerCell', NEW c \in Cells, UserClears(c)
  PROVE  OutputsInv'
<1> DEFINE e == [cleared |-> {c}, user |-> TRUE, start |-> 0]
           none == {}
<1>1. /\ run' = run /\ Runs' = Runs /\ tracked' = tracked /\ messages' = messages
      /\ edits' = edits /\ toClear' = toClear /\ stray' = stray /\ misled' = misled
      /\ spoiled' = spoiled /\ events' = Append(events, e)
      /\ meant' = [meant EXCEPT ![c] = <<>>]
  BY DEF UserClears, trackerVars, Runs
<1>2. Outcome' = [Outcome EXCEPT ![c] = <<>>] /\ Outcome \in Documents /\ messages \in Nat
  BY UserClearsStep, OutcomeType, Counted DEF OutputsInv, Typed
<1>3. /\ MadeInv' /\ OwnInv' /\ PiecesInv' /\ ShownTracked' /\ MeantTracked'
      /\ From(Outcome', Outcome, c, none)
  <2>1. messages' \in Nat /\ messages <= messages'
    BY <1>1, <1>2
  <2>2. Runs \subseteq Runs' /\ \A q \in Runs : run'[q].cell = run[q].cell
    BY <1>1
  <2>3. \A x \in Cells \ spoiled' : x \notin spoiled \/ (x = c /\ x = c)
    BY <1>1
  <2>4. c # c => c \in spoiled' /\ c \in spoiled'
    OBVIOUS
  <2>5. /\ MadeInv' /\ OwnInv' /\ PiecesInv' /\ ShownTracked' /\ MeantTracked'
        /\ \A t, news : From(Outcome', Outcome, t, news)
    BY <1>1, <1>2, <2>1, <2>2, <2>3, <2>4, EmptiedKept
  <2> QED BY <2>5
<1>4. \A x \in none : FALSE
  OBVIOUS
<1> HIDE DEF none
<1>5. /\ Typed /\ MadeInv /\ StreamInv /\ StreamOwn /\ StreamLast /\ NoneBefore /\ ErrorInv
      /\ StartInv /\ TrackedInv /\ ClearInv /\ OneBusy
  BY DEF OutputsInv
<1>6. TrackedInv' /\ StreamInv' /\ ClearInv' /\ OneBusy'
  BY <1>1, <1>5 DEF TrackedInv, StreamInv, ClearInv, OneBusy, Busy
<1>7. StreamOwn'
  <2>1. \A o \in none : o.id = messages + 1
    BY <1>4
  <2>2. \A r \in Runs' : \/ run'[r].stream = NoOutput
                         \/ r \in Runs /\ run'[r].stream.id = run[r].stream.id
                            /\ run[r].stream # NoOutput
                         \/ run'[r].stream.id = messages + 1
                            /\ \A o \in none : o.by = r /\ o.kind \in Streams
    BY <1>1
  <2> QED BY <1>3, <1>5, <2>1, <2>2, StreamOwnKept
<1>8. events \in Seq(Event(Len(run))) /\ e.start = 0 /\ e.cleared = {c} /\ e.user = TRUE
  BY <1>5, TypedParts DEF RestTyped
<1> HIDE DEF e
<1>9. /\ Len(events) + 1 \in DOMAIN events' /\ events'[Len(events) + 1] = e
      /\ \A i \in DOMAIN events : i \in DOMAIN events' /\ events'[i] = events[i]
  <2>1. /\ DOMAIN Append(events, e) = 1..(Len(events) + 1) /\ Append(events, e)[Len(events) + 1] = e
        /\ DOMAIN events = 1..Len(events) /\ Len(events) \in Nat
        /\ \A i \in 1..Len(events) : Append(events, e)[i] = events[i]
    BY <1>8
  <2>2. \A i \in 1..Len(events) : i \in 1..(Len(events) + 1)
    BY <2>1
  <2>3. Len(events) + 1 \in 1..(Len(events) + 1)
    BY <2>1
  <2> QED BY <1>1, <2>1, <2>2, <2>3
<1>10. StreamLast'
  <2> SUFFICES ASSUME NEW q \in Runs, run[q].stream # NoOutput, run[q].cell \notin spoiled,
                      ~ ClearedUnheard(q)'
               PROVE  LastIs(Outcome'[run[q].cell], run[q].stream)
    BY <1>1 DEF StreamLast
  <2>1. run[q].cell \in Cells
    BY <1>5, HandlerFields DEF Typed
  <2>2. run[q].cell # c
    BY <1>1, <1>8, <1>9 DEF ClearedUnheard
  <2>3. ~ ClearedUnheard(q)
    BY <1>1, <1>9 DEF ClearedUnheard
  <2>4. Outcome'[run[q].cell] = Outcome[run[q].cell]
    BY <1>2, <2>1, <2>2 DEF Documents
  <2> QED BY <1>5, <2>3, <2>4 DEF StreamLast
<1>11. NoneBefore'
  <2>1. \A r \in Runs' : run'[r].state = "clearing" =>
            /\ r \notin Runs \/ run[r].state = "clearing"
            /\ \A o \in none : o.by # r
    BY <1>1, <1>4
  <2> QED BY <1>3, <1>5, <2>1, NoneBeforeKept
<1>12. ErrorInv'
  <2>1. \A r \in Runs' : run'[r].state = "executing" =>
            /\ r \in Runs /\ run[r].state = "executing" /\ run'[r].cell = run[r].cell
            /\ \/ run'[r].failed
               \/ /\ r \in misled => r \in misled'
                  /\ run[r].failed => run'[r].failed
                  /\ \A o \in none : o.by # r \/ o.kind # "error"
    BY <1>1, <1>4
  <2> QED BY <1>3, <1>5, <2>1, ErrorKept
<1>13. StartInv'
  <2>1. Quiet(events', events)
    BY <1>1, <1>8, QuietAppend
  <2>2. Quiet(edits', edits)
    BY <1>1, QuietSame
  <2> QED BY <1>1, <1>5, <2>1, <2>2, StartKept
<1> QED BY <1>3, <1>6, <1>7, <1>10, <1>11, <1>12, <1>13 DEF OutputsInv

LEMMA StartActionInv ==
  ASSUME OutputsInv, Typed', OneHandlerPerCell', NEW c \in Cells, Start(c)
  PROVE  OutputsInv'
<1> DEFINE n == Len(run) + 1
           h == [cell |-> c, state |-> "clearing", comms |-> FALSE, clearNext |-> FALSE,
                 stream |-> NoOutput, failed |-> FALSE, reported |-> "no"]
           e == [Replace(c, <<>>) EXCEPT !.start = n]
           none == {}
<1>1. /\ tracked' = tracked /\ messages' = messages /\ events' = events
      /\ edits' = Append(edits, e) /\ toClear' = toClear /\ stray' = stray /\ misled' = misled
      /\ spoiled' = spoiled \ {c} /\ meant' = [meant EXCEPT ![c] = <<>>]
      /\ \A q \in Runs : run[q].state \in {"listening", "over"}
  BY DEF Start, trackerVars
<1>2. /\ Outcome' = [Outcome EXCEPT ![c] = <<>>] /\ n \in 1..MaxRuns
      /\ Runs' = 1..n /\ Runs = 1..(n - 1) /\ run'[n] = h
      /\ \A q \in Runs : run'[q] = run[q] /\ q \in Runs'
  BY StartStep DEF OutputsInv
<1>3. h.state = "clearing" /\ h.stream = NoOutput /\ h.cell = c /\ h.clearNext = FALSE
  OBVIOUS
<1>4. e.start = n /\ n # 0
  BY <1>2 DEF Replace
<1> HIDE DEF h, n, e
<1>5. n \in Nat /\ n \in Runs' /\ n \notin Runs /\ \A q \in Runs' : q \in Runs \/ q = n
  BY <1>2
<1>6. Outcome \in Documents /\ messages \in Nat /\ edits \in Seq(GoodEdits)
  BY OutcomeType, Counted DEF OutputsInv, Typed
<1>7. /\ MadeInv' /\ OwnInv' /\ PiecesInv' /\ ShownTracked' /\ MeantTracked'
      /\ From(Outcome', Outcome, c, none)
  <2>1. \A x \in Cells \ spoiled' : x \notin spoiled \/ (x = c /\ x = c)
    BY <1>1
  <2>2. Runs \subseteq Runs' /\ \A q \in Runs : run'[q].cell = run[q].cell
    BY <1>2
  <2>3. messages' \in Nat /\ messages <= messages'
    BY <1>1, <1>6
  <2>4. c # c => c \in spoiled' /\ c \in spoiled'
    OBVIOUS
  <2>5. /\ MadeInv' /\ OwnInv' /\ PiecesInv' /\ ShownTracked' /\ MeantTracked'
        /\ \A t, news : From(Outcome', Outcome, t, news)
    BY <1>1, <1>2, <2>1, <2>2, <2>3, <2>4, EmptiedKept
  <2> QED BY <2>5
<1>8. \A x \in none : FALSE
  OBVIOUS
<1> HIDE DEF none
<1>9. /\ Typed /\ MadeInv /\ StreamInv /\ StreamOwn /\ StreamLast /\ NoneBefore /\ ErrorInv
      /\ StartInv /\ TrackedInv /\ ClearInv /\ OneBusy
  BY DEF OutputsInv
<1>10. TrackedInv'
  BY <1>1, <1>9 DEF TrackedInv
<1>11. StreamInv'
  BY <1>1, <1>2, <1>3, <1>5, <1>9 DEF StreamInv
<1>12. ClearInv'
  BY <1>1, <1>2, <1>3, <1>5, <1>9 DEF ClearInv
<1>13. OneBusy'
  BY <1>1, <1>2, <1>5 DEF OneBusy, Busy
<1>14. StreamOwn'
  <2>1. \A o \in none : o.id = messages + 1
    BY <1>8
  <2>2. \A r \in Runs' : \/ run'[r].stream = NoOutput
                         \/ r \in Runs /\ run'[r].stream.id = run[r].stream.id
                            /\ run[r].stream # NoOutput
                         \/ run'[r].stream.id = messages + 1
                            /\ \A o \in none : o.by = r /\ o.kind \in Streams
    BY <1>2, <1>3, <1>5
  <2> QED BY <1>7, <1>9, <2>1, <2>2, StreamOwnKept
<1>15. StreamLast'
  <2> SUFFICES ASSUME NEW q \in Runs', run'[q].stream # NoOutput, run'[q].cell \notin spoiled',
                      ~ ClearedUnheard(q)'
               PROVE  LastIs(Outcome'[run'[q].cell], run'[q].stream)
    BY DEF StreamLast
  <2>1. q \in Runs /\ run'[q] = run[q]
    BY <1>2, <1>3, <1>5
  <2>2. run[q].cell \in Cells
    BY <1>9, <2>1, HandlerFields DEF Typed
  <2>3. run[q].cell # c
    BY <1>2, <1>3, <1>5, <2>1 DEF ClearedUnheard
  <2>4. ~ ClearedUnheard(q)
    BY <1>1, <1>2, <2>1 DEF ClearedUnheard
  <2>5. Outcome'[run[q].cell] = Outcome[run[q].cell]
    BY <1>6, <1>2, <2>2, <2>3 DEF Documents
  <2>6. run[q].cell \notin spoiled
    BY <1>1, <2>1, <2>3
  <2> QED BY <1>9, <2>1, <2>4, <2>5, <2>6 DEF StreamLast
<1>16. NoneBefore'
  <2>1. \A r \in Runs' : run'[r].state = "clearing" =>
            /\ r \notin Runs \/ run[r].state = "clearing"
            /\ \A o \in none : o.by # r
    BY <1>2, <1>8
  <2> QED BY <1>7, <1>9, <2>1, NoneBeforeKept
<1>17. ErrorInv'
  <2>1. \A r \in Runs' : run'[r].state # "executing"
    BY <1>1, <1>2, <1>3, <1>5
  <2> QED BY <2>1 DEF ErrorInv
<1>18. StartInv'
  <2>1. \A i \in DOMAIN edits : edits[i].start = 0
    <3>1. \A i \in DOMAIN edits : edits[i].start # 0 => edits[i].start \in Runs
      BY <1>9, EditsOf, RunFacts DEF Typed, EditsAre
    <3> QED BY <1>1, <1>9, <3>1 DEF StartInv
  <2>2. \A i \in DOMAIN events : events[i].start = 0
    <3>1. events \in Seq(Event(Len(run))) /\ Runs = 1..Len(run) /\ Len(run) \in Nat
      BY <1>9, TypedParts, RunFacts DEF Typed, RestTyped
    <3>2. \A k \in DOMAIN events : events[k] \in Event(Len(run))
      BY <3>1
    <3>3. \A k \in DOMAIN events : events[k].start \in 0..Len(run)
      BY <3>2 DEF Event
    <3>4. \A k \in DOMAIN events : events[k].start # 0 => events[k].start \in Runs
      BY <3>1, <3>3
    <3> QED BY <1>1, <1>9, <3>4 DEF StartInv
  <2>3. \A i \in DOMAIN edits' : edits'[i].start = 0 \/ (i = Len(edits) + 1 /\ edits'[i] = e)
    <3>1. /\ DOMAIN Append(edits, e) = 1..(Len(edits) + 1) /\ Append(edits, e)[Len(edits) + 1] = e
          /\ DOMAIN edits = 1..Len(edits) /\ Len(edits) \in Nat
          /\ \A i \in 1..Len(edits) : Append(edits, e)[i] = edits[i]
      BY <1>6
    <3>2. \A i \in 1..(Len(edits) + 1) : i = Len(edits) + 1 \/ i \in 1..Len(edits)
      BY <3>1
    <3> QED BY <1>1, <2>1, <3>1, <3>2
  <2>4. run'[e.start].state = "clearing"
    BY <1>2, <1>3, <1>4
  <2> QED BY <1>1, <2>2, <2>3, <2>4 DEF StartInv
<1> QED BY <1>7, <1>10, <1>11, <1>12, <1>13, <1>14, <1>15, <1>16, <1>17, <1>18 DEF OutputsInv

(* A message of a handler, for the other handlers.                         *)
LEMMA MessageRuns ==
  ASSUME OutputsInv, NEW r \in Runs, NEW h \in Handler, run' = [run EXCEPT ![r] = h],
         h.cell = run[r].cell, h.state = run[r].state, events' = events
  PROVE  /\ RunsSame /\ Runs' = Runs /\ run'[r] = h /\ \A q \in Runs \ {r} : run'[q] = run[q]
         /\ \A q \in Runs : run'[q].cell = run[q].cell /\ run'[q].state = run[q].state
         /\ \A q \in Runs : ClearedUnheard(q)' <=> ClearedUnheard(q)
         /\ OneBusy'
<1>1. Runs' = Runs /\ run'[r] = h /\ \A q \in Runs \ {r} : run'[q] = run[q]
  BY RunStep DEF OutputsInv
<1>2. ASSUME NEW q \in Runs PROVE run'[q].cell = run[q].cell /\ run'[q].state = run[q].state
  <2>1. CASE q = r
    BY <1>1, <2>1
  <2>2. CASE q # r
    BY <1>1, <2>2
  <2> QED BY <2>1, <2>2
<1>3. RunsSame
  BY <1>1, <1>2 DEF RunsSame
<1>4. \A q \in Runs : ClearedUnheard(q)' <=> ClearedUnheard(q)
  <2>1. \A q \in Runs : run'[q].state = "clearing" <=> run[q].state = "clearing"
    BY <1>2
  <2> QED BY <1>3, <2>1, UnheardSame
<1>5. OneBusy'
  <2>1. \A q \in Runs : run'[q].state \in {"clearing", "executing"}
                           => run[q].state \in {"clearing", "executing"}
    BY <1>2
  <2> QED BY <1>1, <2>1, BusyKept DEF OutputsInv
<1> QED BY <1>1, <1>2, <1>3, <1>4, <1>5

LEMMA OtherHandlers ==
  ASSUME OutputsInv, NEW r \in Runs, Handles(r), NEW q \in Runs, q # r,
         run[q].stream # NoOutput, run[q].cell \notin Misplaced(r)
  PROVE  run[q].cell # TaskCell(r) /\ run[q].cell # run[r].cell /\ run[q].cell \in Cells
<1>1. run[q].state \in {"executing", "listening"} /\ run[q].cell \in Cells
  BY HandlerFields DEF OutputsInv, Typed, StreamInv
<1>2. run[q].cell # run[r].cell
  BY <1>1 DEF OutputsInv, OneHandlerPerCell, Handles
<1>3. TaskCell(r) # run[r].cell => TaskCell(r) \in Misplaced(r)
  BY TaskCellType DEF OutputsInv
<1> QED BY <1>1, <1>2, <1>3

LEMMA ClearOutputInv ==
  ASSUME OutputsInv, Typed', OneHandlerPerCell', NEW r \in Runs, NEW wait \in BOOLEAN,
         ClearOutput(r, wait)
  PROVE  OutputsInv'
<1> DEFINE h == IF wait THEN [run[r] EXCEPT !.clearNext = TRUE]
                ELSE [run[r] EXCEPT !.stream = NoOutput]
           c == TaskCell(r)
           e == run[r].cell
           none == {}
<1>1. /\ run' = [run EXCEPT ![r] = h] /\ h \in Handler /\ Handles(r)
      /\ Outcome' = IF wait THEN Outcome ELSE [Outcome EXCEPT ![TaskCell(r)] = <<>>]
  BY ClearOutputStep DEF OutputsInv
<1>2. run[r] \in Handler /\ run[r].cell \in Cells
  BY HandlerFields DEF OutputsInv, Typed
<1>3. /\ h.cell = run[r].cell /\ h.state = run[r].state /\ h.failed = run[r].failed
      /\ wait => h.stream = run[r].stream /\ h.clearNext = TRUE
      /\ ~ wait => h.stream = NoOutput /\ h.clearNext = run[r].clearNext
  BY <1>2 DEF Handler
<1> HIDE DEF h
<1>4. /\ tracked' = tracked /\ messages' = messages + 1 /\ events' = events
      /\ stray' = stray /\ misled' = misled
  BY DEF ClearOutput, Message, trackerVars
<1>5. /\ RunsSame /\ Runs' = Runs /\ run'[r] = h /\ \A q \in Runs \ {r} : run'[q] = run[q]
      /\ \A q \in Runs : run'[q].cell = run[q].cell /\ run'[q].state = run[q].state
      /\ \A q \in Runs : ClearedUnheard(q)' <=> ClearedUnheard(q)
      /\ OneBusy'
  BY <1>1, <1>3, <1>4, MessageRuns
<1>6. /\ Typed /\ MadeInv /\ StreamInv /\ StreamOwn /\ StreamLast /\ NoneBefore /\ ErrorInv
      /\ StartInv /\ TrackedInv /\ ClearInv /\ OneBusy /\ OneHandlerPerCell
  BY DEF OutputsInv
<1>7. messages \in Nat /\ messages' \in Nat /\ messages <= messages'
  BY <1>4, <1>6, Counted
<1>8. ASSUME NEW q \in Runs
      PROVE /\ run'[q].stream \in {NoOutput, run[q].stream}
            /\ run'[q].state \in {"clearing", "over"} => run'[q].stream = NoOutput
            /\ run'[q].state = "clearing" <=> run[q].state = "clearing"
            /\ run'[q].state = "executing" => run[q].state = "executing"
                                              /\ (run[q].failed => run'[q].failed)
  <2>1. run[q].state \in {"clearing", "over"} => run[q].stream = NoOutput
    BY <1>6 DEF StreamInv
  <2>2. CASE q = r
    BY <1>3, <1>5, <2>1, <2>2
  <2>3. CASE q # r
    BY <1>5, <2>1, <2>3
  <2> QED BY <2>2, <2>3
<1>9. CASE wait
  <2>1. /\ toClear' = toClear \cup {r} /\ edits' = edits /\ meant' = meant /\ spoiled' = spoiled
    BY <1>9 DEF ClearOutput
  <2>2. ClearInv'
    BY <1>3, <1>5, <1>6, <1>9, <2>1 DEF ClearInv
  <2>3. Outcome' = Outcome /\ Quiet(edits', edits)
    BY <1>1, <1>9, <2>1, QuietSame
  <2> QED BY <1>4, <1>5, <1>7, <1>8, <2>1, <2>2, <2>3, KeptStep
<1>10. CASE ~ wait
  <2>1. /\ edits' = Append(edits, Replace(c, <<>>)) /\ toClear' = toClear
        /\ meant' = [meant EXCEPT ![e] = <<>>] /\ spoiled' = spoiled \cup Misplaced(r)
    BY <1>10 DEF ClearOutput
  <2>2. Outcome' = [Outcome EXCEPT ![c] = <<>>] /\ Outcome \in Documents
    BY <1>1, <1>6, <1>10, OutcomeType DEF Typed
  <2>3. /\ c \in Cells /\ e \in Cells /\ Misplaced(r) \subseteq Cells
        /\ c # e => c \in spoiled' /\ e \in spoiled'
    BY <1>2, <1>6, <2>1, TaskCellType
  <2> HIDE DEF c, e
  <2>4. \A x \in Cells \ spoiled' : x \notin spoiled \/ (x = c /\ x = e)
    BY <2>1
  <2>5. Runs \subseteq Runs' /\ \A q \in Runs : run'[q].cell = run[q].cell
    BY <1>5
  <2>6. /\ MadeInv' /\ OwnInv' /\ PiecesInv' /\ ShownTracked' /\ MeantTracked'
        /\ \A t, news : From(Outcome', Outcome, t, news)
    BY <1>4, <1>7, <2>1, <2>2, <2>3, <2>4, <2>5, EmptiedKept
  <2>7. From(Outcome', Outcome, c, none) /\ \A x \in none : FALSE
    BY <2>6
  <2> HIDE DEF none
  <2>8. TrackedInv' /\ StreamInv'
    BY <1>4, <1>5, <1>6, <1>7, <1>8, TrackedKept, StreamKept
  <2>9. ClearInv'
    <3>1. \A q \in Runs : run'[q].clearNext = run[q].clearNext
      BY <1>3, <1>5, <1>10
    <3> QED BY <1>5, <1>6, <2>1, <3>1 DEF ClearInv
  <2>10. StreamOwn'
    <3>1. \A o \in none : o.id = messages + 1
      BY <2>7
    <3>2. \A q \in Runs' : \/ run'[q].stream = NoOutput
                           \/ q \in Runs /\ run'[q].stream.id = run[q].stream.id
                              /\ run[q].stream # NoOutput
                           \/ run'[q].stream.id = messages + 1
                              /\ \A o \in none : o.by = q /\ o.kind \in Streams
      BY <1>5, <1>8
    <3> QED BY <1>6, <2>7, <3>1, <3>2, StreamOwnKept
  <2>11. StreamLast'
    <3> SUFFICES ASSUME NEW q \in Runs, run'[q].stream # NoOutput, run'[q].cell \notin spoiled',
                        ~ ClearedUnheard(q)'
                 PROVE  LastIs(Outcome'[run'[q].cell], run'[q].stream)
      BY <1>5 DEF StreamLast
    <3>1. q # r /\ run'[q] = run[q]
      BY <1>3, <1>5, <1>10
    <3>2. run[q].cell \notin Misplaced(r) /\ run[q].cell \notin spoiled
      BY <2>1, <3>1
    <3>3. run[q].cell # c /\ run[q].cell \in Cells
      BY <1>1, <3>1, <3>2, OtherHandlers DEF c
    <3>4. Outcome'[run[q].cell] = Outcome[run[q].cell]
      BY <2>2, <3>3 DEF Documents
    <3>5. ~ ClearedUnheard(q)
      BY <1>5
    <3> QED BY <1>6, <3>1, <3>2, <3>4, <3>5 DEF StreamLast
  <2>12. NoneBefore'
    <3>1. \A q \in Runs' : run'[q].state = "clearing" =>
              /\ q \notin Runs \/ run[q].state = "clearing"
              /\ \A o \in none : o.by # q
      BY <1>5, <2>7
    <3> QED BY <1>6, <2>7, <3>1, NoneBeforeKept
  <2>13. ErrorInv'
    <3>1. \A q \in Runs' : run'[q].state = "executing" =>
              /\ q \in Runs /\ run[q].state = "executing" /\ run'[q].cell = run[q].cell
              /\ \/ run'[q].failed
                 \/ /\ q \in misled => q \in misled'
                    /\ run[q].failed => run'[q].failed
                    /\ \A o \in none : o.by # q \/ o.kind # "error"
      BY <1>4, <1>5, <1>8, <2>7
    <3> QED BY <1>6, <2>7, <3>1, ErrorKept
  <2>14. StartInv'
    <3>1. Quiet(edits', edits)
      <4>1. Replace(c, <<>>).start = 0 /\ edits \in Seq(GoodEdits)
        BY <1>6, OutcomeType DEF Replace, Typed
      <4> QED BY <2>1, <4>1, QuietAppend
    <3>2. Quiet(events', events) /\ \A q \in Runs : run[q].state = "clearing" => run'[q].state = "clearing"
      BY <1>4, <1>5, QuietSame
    <3> QED BY <1>6, <3>1, <3>2, StartKept
  <2> QED BY <1>5, <2>6, <2>8, <2>9, <2>10, <2>11, <2>12, <2>13, <2>14 DEF OutputsInv
<1> QED BY <1>9, <1>10

LEMMA EventsGrow ==
  ASSUME NEW S, NEW es \in Seq(S), NEW a \in Seq(S), NEW b \in Seq(S), Len(b) <= 1,
         NEW new, new = es \o a \o b
  PROVE  /\ \A k \in DOMAIN es : k \in DOMAIN new /\ new[k] = es[k]
         /\ \A k \in DOMAIN new : \/ k \in DOMAIN es /\ new[k] = es[k]
                                  \/ \E i \in DOMAIN a : new[k] = a[i]
                                  \/ b # <<>> /\ new[k] = b[1] /\ k = Len(es) + Len(a) + 1
<1> DEFINE f == es \o a
<1>1. /\ f \in Seq(S) /\ DOMAIN es = 1..Len(es) /\ DOMAIN a = 1..Len(a)
      /\ Len(es) \in Nat /\ Len(a) \in Nat /\ Len(f) = Len(es) + Len(a)
      /\ DOMAIN f = 1..(Len(es) + Len(a))
      /\ \A k \in 1..(Len(es) + Len(a)) :
            f[k] = IF k <= Len(es) THEN es[k] ELSE a[k - Len(es)]
      /\ \A k \in 1..(Len(es) + Len(a)) : ~ (k <= Len(es)) => k - Len(es) \in 1..Len(a)
  BY Joined
<1> HIDE DEF f
<1>2. /\ DOMAIN f = 1..Len(f) /\ DOMAIN b = 1..Len(b)
      /\ Len(f) \in Nat /\ Len(b) \in Nat
      /\ DOMAIN (f \o b) = 1..(Len(f) + Len(b))
      /\ \A k \in 1..(Len(f) + Len(b)) : (f \o b)[k] = IF k <= Len(f) THEN f[k] ELSE b[k - Len(f)]
      /\ \A k \in 1..(Len(f) + Len(b)) : ~ (k <= Len(f)) => k - Len(f) \in 1..Len(b)
  <2>1. f \in Seq(S) /\ b \in Seq(S)
    BY <1>1
  <2> QED BY <2>1, Joined
<1>3. new = f \o b
  BY DEF f
<1>4. ASSUME NEW k \in DOMAIN es PROVE k \in DOMAIN new /\ new[k] = es[k]
  <2>1. k \in 1..(Len(es) + Len(a)) /\ k <= Len(es) /\ k <= Len(f) /\ k \in 1..(Len(f) + Len(b))
    BY <1>1, <1>2
  <2>2. f[k] = es[k]
    BY <1>1, <2>1
  <2> QED BY <1>2, <1>3, <2>1, <2>2
<1>5. ASSUME NEW k \in DOMAIN new
      PROVE  \/ k \in DOMAIN es /\ new[k] = es[k]
             \/ \E i \in DOMAIN a : new[k] = a[i]
             \/ b # <<>> /\ new[k] = b[1] /\ k = Len(es) + Len(a) + 1
  <2>1. k \in 1..(Len(f) + Len(b))
    BY <1>2, <1>3
  <2>2. CASE k <= Len(f)
    <3>1. new[k] = f[k] /\ k \in 1..(Len(es) + Len(a))
      BY <1>1, <1>2, <1>3, <2>1, <2>2
    <3>2. CASE k <= Len(es)
      <4>1. k \in DOMAIN es /\ f[k] = es[k]
        BY <1>1, <3>1, <3>2
      <4> QED BY <3>1, <4>1
    <3>3. CASE ~ (k <= Len(es))
      <4>1. k - Len(es) \in DOMAIN a /\ f[k] = a[k - Len(es)]
        BY <1>1, <3>1, <3>3
      <4> QED BY <3>1, <4>1
    <3> QED BY <3>2, <3>3
  <2>3. CASE ~ (k <= Len(f))
    <3>1. new[k] = b[k - Len(f)] /\ k - Len(f) \in 1..Len(b)
      BY <1>2, <1>3, <2>1, <2>3
    <3>2. k - Len(f) = 1 /\ b # <<>>
      BY <1>2, <3>1
    <3>3. k = Len(f) + 1
      BY <1>2, <2>1, <3>2
    <3> QED BY <1>1, <3>1, <3>2, <3>3
  <2> QED BY <2>2, <2>3
<1> QED BY <1>4, <1>5

LEMMA ApplyInv ==
  ASSUME OutputsInv, Typed', OneHandlerPerCell', NEW n \in DOMAIN edits, ApplyEdits(n)
  PROVE  OutputsInv'
<1> DEFINE started == {edits[k].start : k \in 1..n} \ {0}
<1>1. /\ run' = run /\ Runs' = Runs /\ tracked' = tracked /\ messages' = messages
      /\ meant' = meant /\ toClear' = toClear /\ stray' = stray /\ misled' = misled
      /\ spoiled' = spoiled
  BY DEF ApplyEdits, trackerVars, meaning, Runs
<1>2. /\ Outcome' = Outcome /\ Len(edits') = Len(edits) - n
      /\ \A k \in DOMAIN edits' : edits'[k] = edits[n + k]
      /\ EditsAre(edits', Len(run))
      /\ \E a, b \in Seq(Event(Len(run))) :
            /\ events' = events \o a \o b
            /\ \A i \in DOMAIN a : a[i].start = 0 /\ ~ a[i].user
            /\ b = <<>> <=> started = {}
            /\ Len(b) <= 1
            /\ b # <<>> => b[1].start \in started /\ ~ b[1].user
  BY ApplyStep DEF OutputsInv
<1>3. PICK a, b \in Seq(Event(Len(run))) :
            /\ events' = events \o a \o b
            /\ \A i \in DOMAIN a : a[i].start = 0 /\ ~ a[i].user
            /\ b = <<>> <=> started = {}
            /\ Len(b) <= 1
            /\ b # <<>> => b[1].start \in started /\ ~ b[1].user
  BY <1>2
<1>4. /\ Typed /\ MadeInv /\ OwnInv /\ PiecesInv /\ StreamInv /\ StreamOwn /\ StreamLast
      /\ NoneBefore /\ ErrorInv /\ StartInv /\ TrackedInv /\ ShownTracked /\ MeantTracked
      /\ ClearInv /\ OneBusy
  BY DEF OutputsInv
<1>5. events \in Seq(Event(Len(run))) /\ edits \in Seq(GoodEdits) /\ edits' \in Seq(GoodEdits)
  BY <1>2, <1>4, TypedParts, OutcomeType DEF RestTyped, EditsAre, Typed
<1>6. /\ \A k \in DOMAIN events : k \in DOMAIN events' /\ events'[k] = events[k]
      /\ \A k \in DOMAIN events' : \/ k \in DOMAIN events /\ events'[k] = events[k]
                                   \/ \E i \in DOMAIN a : events'[k] = a[i]
                                   \/ b # <<>> /\ events'[k] = b[1] /\ k = Len(events) + Len(a) + 1
  <2>1. events' = events \o a \o b /\ Len(b) <= 1 /\ a \in Seq(Event(Len(run)))
        /\ b \in Seq(Event(Len(run)))
    BY <1>3
  <2>2. events \in Seq(Event(Len(run)))
    BY <1>5
  <2> HIDE <1>3
  <2> QED BY <2>1, <2>2, EventsGrow, SMTT(20)
<1>7. \A q \in Runs : ClearedUnheard(q) => ClearedUnheard(q)'
  BY <1>1, <1>6 DEF ClearedUnheard
<1>8. /\ MadeInv' /\ OwnInv' /\ PiecesInv' /\ StreamInv' /\ StreamOwn'
      /\ NoneBefore' /\ TrackedInv' /\ ShownTracked' /\ MeantTracked'
      /\ ClearInv' /\ OneBusy'
  BY <1>1, <1>2, <1>4 DEF MadeInv, OwnInv, PiecesInv, StreamInv, StreamOwn,
     NoneBefore, TrackedInv, ShownTracked, MeantTracked, ClearInv, OneBusy, Busy
<1>9. ErrorInv' /\ StreamLast'
  BY <1>1, <1>2, <1>4, <1>7 DEF ErrorInv, ErrorIsThere, StreamLast
<1>10. \A k \in DOMAIN edits' : n + k \in DOMAIN edits /\ edits'[k] = edits[n + k] /\ k > 0
  <2>1. Len(edits) \in Nat /\ n \in 1..Len(edits) /\ DOMAIN edits' = 1..(Len(edits) - n)
        /\ DOMAIN edits = 1..Len(edits)
    BY <1>2, <1>5
  <2> QED BY <1>2, <2>1
<1>11. n \in Nat /\ \A k \in DOMAIN edits' : k \in Nat
  BY <1>5
<1>12. \A k \in DOMAIN edits' : edits'[k].start # 0
          => n + k \in DOMAIN edits /\ edits[n + k].start # 0
  BY <1>10
<1>13. \A i, j \in DOMAIN edits' : edits'[i].start # 0 /\ edits'[j].start # 0 => i = j
  <2> SUFFICES ASSUME NEW i \in DOMAIN edits', NEW j \in DOMAIN edits',
                      edits'[i].start # 0, edits'[j].start # 0
               PROVE  i = j
    OBVIOUS
  <2>1. n + i = n + j
    BY <1>4, <1>12 DEF StartInv
  <2> QED BY <1>11, <2>1
<1>14. \A i \in DOMAIN edits' : edits'[i].start # 0 => run'[edits'[i].start].state = "clearing"
  BY <1>1, <1>4, <1>10 DEF StartInv
<1>15. CASE started = {}
  <2>1. \A k \in DOMAIN events' : \/ k \in DOMAIN events /\ events'[k] = events[k]
                                  \/ events'[k].start = 0
    BY <1>3, <1>6, <1>15
  <2>2. \A i \in DOMAIN edits', j \in DOMAIN events' : edits'[i].start = 0 \/ events'[j].start = 0
    BY <1>4, <1>12, <2>1 DEF StartInv
  <2>3. StartInv'
    BY <1>1, <1>4, <1>13, <1>14, <2>1, <2>2 DEF StartInv
  <2> QED BY <1>8, <1>9, <2>3 DEF OutputsInv
<1>16. CASE started # {}
  <2>1. PICK m \in 1..n : edits[m].start # 0
    BY <1>16
  <2>2. m \in DOMAIN edits
    BY <1>5
  <2>3. \A k \in DOMAIN events : events[k].start = 0
    BY <1>4, <2>1, <2>2 DEF StartInv
  <2>4. \A k \in DOMAIN edits' : edits'[k].start = 0
    <3> SUFFICES ASSUME NEW k \in DOMAIN edits', edits'[k].start # 0 PROVE FALSE
      OBVIOUS
    <3>1. n + k = m
      BY <1>4, <1>12, <2>1, <2>2 DEF StartInv
    <3> QED BY <1>10, <1>11, <2>1, <3>1
  <2>5. b[1].start \in started /\ ~ b[1].user
    BY <1>3, <1>16
  <2>6. \A s \in started : run[s].state = "clearing"
    <3>1. \A k \in 1..n : k \in DOMAIN edits
      BY <1>5
    <3> QED BY <1>4, <3>1 DEF StartInv
  <2>7. \A k \in DOMAIN events' : events'[k].start # 0
           => events'[k] = b[1] /\ k = Len(events) + Len(a) + 1
    BY <1>3, <1>6, <2>3, SMTT(20)
  <2>8. StartInv'
    BY <1>1, <2>4, <2>5, <2>6, <2>7 DEF StartInv
  <2> QED BY <1>8, <1>9, <2>8 DEF OutputsInv
<1> QED BY <1>15, <1>16

(* Sequences of outputs with the same pieces have the same displays.       *)
LEMMA SamePieces ==
  ASSUME NEW s \in Seq(CellOutput), NEW t \in Seq(CellOutput), Pieces(s) = Pieces(t),
         NEW i \in DOMAIN s, s[i].kind \notin Streams, s[i].text # <<>>
  PROVE  \E k \in DOMAIN t : /\ t[k].id = s[i].id /\ t[k].display = s[i].display
                             /\ t[k].kind = s[i].kind
                             /\ \E j \in DOMAIN t[k].text : t[k].text[j] = s[i].text[1]
<1>1. s[i] \in CellOutput /\ s[i].text \in Seq(Chunks) /\ s[i].id \in Chunks
  <2>1. s[i] \in CellOutput
    OBVIOUS
  <2> QED BY <2>1 DEF CellOutput
<1>2. 1 \in DOMAIN s[i].text
  BY <1>1
<1>3. PICK n \in DOMAIN Pieces(s) : Pieces(s)[n] = Piece(s[i], 1)
  BY <1>2, PiecesOrigin
<1>4. PICK k \in DOMAIN t : \E j \in DOMAIN t[k].text : Pieces(t)[n] = Piece(t[k], j)
  BY <1>3, PiecesOrigin
<1>5. PICK j \in DOMAIN t[k].text : Pieces(t)[n] = Piece(t[k], j)
  BY <1>4
<1>6. t[k] \in CellOutput
  OBVIOUS
<1>7. Piece(t[k], j) = Piece(s[i], 1)
  BY <1>3, <1>5
<1>8. /\ Piece(s[i], 1).chunk = s[i].text[1]
      /\ Piece(s[i], 1).kind = s[i].kind /\ Piece(s[i], 1).display = s[i].display
      /\ Piece(s[i], 1).id = s[i].id
  BY <1>1, <1>2, PieceType
<1>9. /\ Piece(t[k], j).chunk = t[k].text[j]
      /\ Piece(t[k], j).kind = t[k].kind /\ Piece(t[k], j).display = t[k].display
      /\ t[k].kind \notin Streams => Piece(t[k], j).id = t[k].id
  BY <1>5, <1>6, PieceType
<1> QED BY <1>7, <1>8, <1>9

(* The first event is handled.                                             *)
LEMMA TailUnheard ==
  ASSUME Typed, events # <<>>, events' = Tail(events), RunsSame, NEW q \in Runs,
         ~ ClearedUnheard(q)', ~ (Head(events).user /\ run[q].cell \in Head(events).cleared),
         \A p \in Runs : run[p].cell = run[q].cell /\ run[p].state = "clearing"
                           => run'[p].state = "clearing"
  PROVE  ~ ClearedUnheard(q)
<1>1. /\ Head(events) = events[1] /\ DOMAIN events = 1..Len(events) /\ Len(events) \in Nat
      /\ DOMAIN Tail(events) = 1..(Len(events) - 1)
      /\ \A i \in 1..(Len(events) - 1) : Tail(events)[i] = events[i + 1]
  BY TailOfEvents
<1>2. run'[q].cell = run[q].cell /\ Runs' = Runs /\ \A p \in Runs : run'[p].cell = run[p].cell
  BY DEF RunsSame
<1>3. ASSUME NEW i \in DOMAIN events, events[i].user, run[q].cell \in events[i].cleared
      PROVE  FALSE
  <2>1. i # 1
    BY <1>1, <1>3
  <2>2. i - 1 \in DOMAIN events' /\ events'[i - 1] = events[i]
    BY <1>1, <2>1
  <2> QED BY <1>2, <1>3, <2>2 DEF ClearedUnheard
<1>4. ASSUME NEW p \in Runs, run[p].state = "clearing", run[p].cell = run[q].cell
      PROVE  FALSE
  <2>1. run'[p].state = "clearing" /\ run'[p].cell = run'[q].cell
    BY <1>2, <1>4
  <2> QED BY <1>2, <2>1 DEF ClearedUnheard
<1> QED BY <1>3, <1>4 DEF ClearedUnheard

LEMMA TailStarts ==
  ASSUME Typed, StartInv, events # <<>>, events' = Tail(events), edits' = edits, Runs' = Runs,
         \A p \in Runs : run[p].state = "clearing" /\ p # Head(events).start
                           => run'[p].state = "clearing"
  PROVE  StartInv'
<1>1. /\ Head(events) = events[1] /\ 1 \in DOMAIN events
      /\ DOMAIN events = 1..Len(events) /\ Len(events) \in Nat
      /\ DOMAIN Tail(events) = 1..(Len(events) - 1)
      /\ \A i \in 1..(Len(events) - 1) : Tail(events)[i] = events[i + 1] /\ i + 1 \in DOMAIN events
      /\ events \in Seq(Event(Len(run)))
  BY TailOfEvents, TypedParts DEF RestTyped
<1>2. \A i \in DOMAIN events' : /\ i + 1 \in DOMAIN events /\ events'[i] = events[i + 1]
                                /\ i + 1 # 1 /\ i \in Nat
  BY <1>1
<1>3. \A k \in DOMAIN events : events[k].start # 0
                                  => events[k].start \in Runs /\ run[events[k].start].state = "clearing"
  <2>1. Runs = 1..Len(run) /\ Len(run) \in Nat
    BY RunFacts DEF Typed
  <2>2. \A k \in DOMAIN events : events[k] \in Event(Len(run))
    BY <1>1
  <2>3. \A k \in DOMAIN events : events[k].start \in 0..Len(run)
    BY <2>2 DEF Event
  <2> QED BY <2>1, <2>3 DEF StartInv
<1>4. \A k \in DOMAIN edits : edits[k].start # 0
                                 => edits[k].start \in Runs /\ run[edits[k].start].state = "clearing"
  BY EditsOf, RunFacts DEF Typed, EditsAre, StartInv
<1>5. CASE Head(events).start = 0
  <2>1. \A p \in Runs : run[p].state = "clearing" => run'[p].state = "clearing"
    <3>1. \A p \in Runs : p # 0
      BY RunFacts DEF Typed
    <3> QED BY <1>5, <3>1
  <2>2. /\ \A i \in DOMAIN events' : events'[i].start # 0 => run'[events'[i].start].state = "clearing"
        /\ \A i \in DOMAIN edits' : edits'[i].start # 0 => run'[edits'[i].start].state = "clearing"
    BY <1>2, <1>3, <1>4, <2>1
  <2>3. \A i, j \in DOMAIN events' : events'[i].start # 0 /\ events'[j].start # 0 => i = j
    <3> SUFFICES ASSUME NEW i \in DOMAIN events', NEW j \in DOMAIN events',
                        events'[i].start # 0, events'[j].start # 0
                 PROVE  i = j
      OBVIOUS
    <3>1. i + 1 = j + 1
      BY <1>2 DEF StartInv
    <3> QED BY <1>2, <3>1
  <2> QED BY <1>2, <2>2, <2>3 DEF StartInv
<1>6. CASE Head(events).start # 0
  <2>1. \A i \in DOMAIN edits : edits[i].start = 0
    BY <1>1, <1>6 DEF StartInv
  <2>2. \A i \in DOMAIN events' : events'[i].start = 0
    <3> SUFFICES ASSUME NEW i \in DOMAIN events', events'[i].start # 0 PROVE FALSE
      OBVIOUS
    <3>1. i + 1 = 1
      BY <1>1, <1>2, <1>6 DEF StartInv
    <3> QED BY <1>2, <3>1
  <2> QED BY <2>1, <2>2 DEF StartInv
<1> QED BY <1>5, <1>6

LEMMA ChangedInv ==
  ASSUME OutputsInv, Typed', OneHandlerPerCell', OutputsChanged
  PROVE  OutputsInv'
<1> DEFINE cleared == Head(events).cleared
           removed == {lastDisplay[c] : c \in cleared} \cap Displays
           listens(r) == run[r].cell \in cleared /\ run[r].state \in {"executing", "listening"}
<1>1. /\ messages' = messages /\ meant' = meant /\ toClear' = toClear /\ spoiled' = spoiled
      /\ edits' = edits /\ events' = Tail(events)
      /\ misled' = misled \cup {r \in {q \in Runs : listens(q)} : run[r].failed /\ ErrorIsThere(r)}
  BY DEF OutputsChanged
<1>2. /\ events # <<>> /\ Head(events).start = 0
      /\ Outcome' = Outcome /\ stray \subseteq stray'
      /\ \A d \in Displays \ removed : tracked'[d] = tracked[d]
      /\ \A d \in removed : /\ tracked'[d] = NoOutput
                            /\ IsThere(tracked[d]) => tracked[d].id \in stray'
      /\ Runs' = Runs
      /\ \A r \in Runs :
            run'[r] = IF listens(r) THEN [run[r] EXCEPT !.stream = NoOutput, !.failed = FALSE]
                      ELSE run[r]
  BY ChangedStep DEF OutputsInv
<1>3. ASSUME NEW q \in Runs
      PROVE  /\ run'[q].cell = run[q].cell /\ run'[q].state = run[q].state
             /\ run'[q].clearNext = run[q].clearNext
             /\ listens(q) => run'[q].stream = NoOutput
             /\ ~ listens(q) => run'[q] = run[q]
  <2>1. run[q] \in Handler
    BY HandlerFields DEF OutputsInv, Typed
  <2>2. CASE listens(q)
    <3>1. run'[q] = [run[q] EXCEPT !.stream = NoOutput, !.failed = FALSE]
      BY <1>2, <2>2
    <3> QED BY <2>1, <2>2, <3>1 DEF Handler
  <2>3. CASE ~ listens(q)
    BY <1>2, <2>3
  <2> QED BY <2>2, <2>3
<1>4. /\ Typed /\ MadeInv /\ OwnInv /\ PiecesInv /\ StreamInv /\ StreamOwn /\ StreamLast
      /\ NoneBefore /\ ErrorInv /\ StartInv /\ TrackedInv /\ ShownTracked /\ MeantTracked
      /\ ClearInv /\ OneBusy
  BY DEF OutputsInv
<1>5. RunsSame
  BY <1>2, <1>3 DEF RunsSame
<1>6. messages' \in Nat /\ messages <= messages'
  BY <1>1, <1>4, Counted
<1>7. MadeInv' /\ OwnInv' /\ PiecesInv'
  BY <1>1, <1>2, <1>4, <1>5, <1>6, DocumentsKept
<1>8. \A d \in Displays : tracked'[d] = tracked[d] \/ tracked'[d] = NoOutput
  BY <1>2
<1>9. TrackedInv' /\ ShownTracked'
  BY <1>2, <1>4, <1>6, <1>8, TrackedKept, ShownKept
<1>10. MeantTracked'
  <2> SUFFICES ASSUME NEW d \in Displays, NEW c \in Cells \ spoiled, NEW i \in DOMAIN meant[c],
                      meant[c][i].display = d, meant[c][i].id \notin stray'
               PROVE  meant[c][i].id = tracked'[d].id
    BY <1>1 DEF MeantTracked
  <2>1. meant[c][i].id = tracked[d].id
    BY <1>2, <1>4 DEF MeantTracked
  <2>2. CASE d \notin removed
    BY <1>2, <2>1, <2>2
  <2>3. CASE d \in removed
    <3>1. /\ Outcome[c] \in Seq(CellOutput) /\ meant[c] \in Seq(CellOutput)
          /\ WellMade(meant[c][i], messages, Runs)
      BY <1>4, ShownFacts
    <3>2. meant[c][i].kind \notin Streams /\ meant[c][i].text # <<>>
      <4>1. meant[c][i].display # NoDisplay
        BY Sizes
      <4>2. meant[c][i].kind \notin Streams /\ Len(meant[c][i].text) = 1
        BY <3>1, <4>1 DEF WellMade
      <4>3. Len(<<>>) = 0
        OBVIOUS
      <4> QED BY <4>2, <4>3
    <3>3. Pieces(meant[c]) = Pieces(Outcome[c])
      BY <1>4 DEF PiecesInv
    <3>4. \E k \in DOMAIN Outcome[c] : Outcome[c][k].id = meant[c][i].id
      BY <3>1, <3>2, <3>3, SamePieces
    <3>5. IsThere(tracked[d])
      BY <2>1, <3>4 DEF IsThere
    <3> QED BY <1>2, <2>1, <2>3, <3>5
  <2> QED BY <2>2, <2>3
<1>11. StreamInv'
  <2>1. \A q \in Runs : /\ run'[q].stream \in {NoOutput, run[q].stream}
                        /\ run'[q].state \in {"clearing", "over"} => run'[q].stream = NoOutput
    BY <1>3, <1>4 DEF StreamInv
  <2> QED BY <1>2, <1>4, <1>6, <2>1, StreamKept
<1>12. StreamOwn'
  <2>1. StreamOwn
    BY <1>4
  <2>2. \A q \in Runs : run'[q].stream \in {NoOutput, run[q].stream}
    BY <1>3
  <2>3. Runs' = Runs /\ Outcome' = Outcome
    BY <1>2
  <2> QED BY <2>1, <2>2, <2>3 DEF StreamOwn
<1>13. StreamLast'
  <2> SUFFICES ASSUME NEW q \in Runs, run'[q].stream # NoOutput, run'[q].cell \notin spoiled',
                      ~ ClearedUnheard(q)'
               PROVE  LastIs(Outcome'[run'[q].cell], run'[q].stream)
    BY <1>2 DEF StreamLast
  <2>1. ~ listens(q) /\ run'[q] = run[q]
    BY <1>3
  <2>2. run[q].state \in {"executing", "listening"}
    BY <1>4, <2>1, HandlerFields DEF Typed, StreamInv
  <2>3. ~ (Head(events).user /\ run[q].cell \in Head(events).cleared)
    BY <2>1, <2>2
  <2>4. \A p \in Runs : run[p].cell = run[q].cell /\ run[p].state = "clearing"
                           => run'[p].state = "clearing"
    BY <1>3
  <2>5. ~ ClearedUnheard(q)
    BY <1>1, <1>2, <1>4, <1>5, <2>3, <2>4, TailUnheard
  <2> QED BY <1>1, <1>2, <1>4, <2>1, <2>5 DEF StreamLast
<1>14. ClearInv'
  BY <1>1, <1>2, <1>3, <1>4 DEF ClearInv
<1>15. NoneBefore'
  <2> SUFFICES ASSUME NEW r \in Runs, run'[r].state = "clearing", NEW c \in Cells,
                      NEW i \in DOMAIN Outcome[c]
               PROVE  Outcome[c][i].by # r
    <3>1. Runs' = Runs /\ Outcome' = Outcome
      BY <1>2
    <3> QED BY <3>1 DEF NoneBefore
  <2>1. run[r].state = "clearing"
    BY <1>3
  <2> QED BY <1>4, <2>1 DEF NoneBefore
<1>16. ErrorInv'
  <2> SUFFICES ASSUME NEW q \in Runs, run'[q].state = "executing", ErrorIsThere(q)', q \notin misled'
               PROVE  run'[q].failed
    BY <1>2 DEF ErrorInv
  <2>1. run[q].state = "executing" /\ ErrorIsThere(q) /\ q \notin misled
    BY <1>1, <1>2, <1>3 DEF ErrorIsThere
  <2>2. run[q].failed
    BY <1>4, <2>1 DEF ErrorInv
  <2>3. ~ listens(q)
    BY <1>1, <2>1, <2>2
  <2> QED BY <1>3, <2>2, <2>3
<1>17. StartInv'
  BY <1>1, <1>2, <1>3, <1>4, TailStarts
<1>18. OneBusy'
  BY <1>2, <1>3, <1>4 DEF OneBusy, Busy
<1> QED BY <1>7, <1>9, <1>10, <1>11, <1>12, <1>13, <1>14, <1>15, <1>16, <1>17, <1>18 DEF OutputsInv

LEMMA RegisterInv ==
  ASSUME OutputsInv, Typed', OneHandlerPerCell', RegisterListener
  PROVE  OutputsInv'
<1> DEFINE r == Head(events).start
<1>1. /\ messages' = messages /\ meant' = meant /\ toClear' = toClear /\ spoiled' = spoiled
      /\ edits' = edits /\ events' = Tail(events) /\ misled' = misled /\ stray' = stray
      /\ tracked' = tracked /\ shown' = shown
  BY DEF RegisterListener, trackerVars, meaning
<1>2. /\ events # <<>> /\ r \in Runs /\ r # 0 /\ Runs' = Runs
      /\ \A q \in Runs :
            run'[q] = IF q = r THEN [run[q] EXCEPT !.state = "executing"]
                      ELSE IF run[q].cell = run[r].cell
                      THEN [run[q] EXCEPT !.state = "over", !.stream = NoOutput]
                      ELSE run[q]
  BY RegisterStep DEF OutputsInv
<1>3. /\ Typed /\ MadeInv /\ OwnInv /\ PiecesInv /\ StreamInv /\ StreamOwn /\ StreamLast
      /\ NoneBefore /\ ErrorInv /\ StartInv /\ TrackedInv /\ ShownTracked /\ MeantTracked
      /\ ClearInv /\ OneBusy
  BY DEF OutputsInv
<1>4. run[r].state = "clearing" /\ run[r].stream = NoOutput /\ ~ Head(events).user
  <2>1. Head(events) = events[1] /\ 1 \in DOMAIN events
    BY <1>2, <1>3, TailOfEvents
  <2>2. events[1].start = r /\ r # 0
    BY <1>2, <2>1
  <2>3. \A i \in DOMAIN events : events[i].start # 0
           => run[events[i].start].state = "clearing" /\ ~ events[i].user
    BY <1>3 DEF StartInv
  <2>4. run[events[1].start].state = "clearing" /\ ~ events[1].user
    BY <2>1, <2>2, <2>3
  <2>5. run[r].state = "clearing" /\ ~ Head(events).user
    BY <2>1, <2>2, <2>4
  <2> QED BY <1>2, <1>3, <2>5 DEF StreamInv
<1> HIDE DEF r
<1>5. ASSUME NEW q \in Runs
      PROVE  /\ run'[q].cell = run[q].cell /\ run'[q].clearNext = run[q].clearNext
             /\ q = r => run'[q].state = "executing" /\ run'[q].stream = NoOutput
             /\ q # r /\ run[q].cell = run[r].cell
                  => run'[q].state = "over" /\ run'[q].stream = NoOutput
             /\ q # r /\ run[q].cell # run[r].cell => run'[q] = run[q]
  <2>1. run[q] \in Handler
    BY <1>3, HandlerFields DEF Typed
  <2>2. CASE q = r
    <3>1. run'[q] = [run[q] EXCEPT !.state = "executing"]
      BY <1>2, <2>2
    <3> QED BY <1>4, <2>1, <2>2, <3>1 DEF Handler
  <2>3. CASE q # r /\ run[q].cell = run[r].cell
    <3>1. run'[q] = [run[q] EXCEPT !.state = "over", !.stream = NoOutput]
      BY <1>2, <2>3
    <3> QED BY <2>1, <2>3, <3>1 DEF Handler
  <2>4. CASE q # r /\ run[q].cell # run[r].cell
    BY <1>2, <2>4
  <2> QED BY <2>2, <2>3, <2>4
<1>6. RunsSame
  BY <1>2, <1>5 DEF RunsSame
<1>7. messages' \in Nat /\ messages <= messages' /\ Outcome' = Outcome
  BY <1>1, <1>3, Counted, OutcomeKept
<1>8. MadeInv' /\ OwnInv' /\ PiecesInv'
  BY <1>1, <1>3, <1>6, <1>7, DocumentsKept
<1>9. TrackedInv' /\ ShownTracked' /\ MeantTracked'
  BY <1>1, <1>3, <1>7 DEF TrackedInv, ShownTracked, MeantTracked
<1>10. \A q \in Runs : /\ run'[q].stream \in {NoOutput, run[q].stream}
                       /\ run'[q].state \in {"clearing", "over"} => run'[q].stream = NoOutput
  <2> TAKE q \in Runs
  <2>1. run[q].state \in {"clearing", "over"} => run[q].stream = NoOutput
    BY <1>3 DEF StreamInv
  <2> QED BY <1>5, <2>1
<1>11. StreamInv'
  BY <1>2, <1>3, <1>7, <1>10, StreamKept
<1>12. StreamOwn'
  <2>1. StreamOwn
    BY <1>3
  <2>2. \A q \in Runs : run'[q].stream \in {NoOutput, run[q].stream}
    BY <1>10
  <2>3. Runs' = Runs /\ Outcome' = Outcome
    BY <1>2, <1>7
  <2> QED BY <2>1, <2>2, <2>3 DEF StreamOwn
<1>13. StreamLast'
  <2> SUFFICES ASSUME NEW q \in Runs, run'[q].stream # NoOutput, run'[q].cell \notin spoiled',
                      ~ ClearedUnheard(q)'
               PROVE  LastIs(Outcome'[run'[q].cell], run'[q].stream)
    BY <1>2 DEF StreamLast
  <2>1. q # r /\ run[q].cell # run[r].cell /\ run'[q] = run[q]
    BY <1>5
  <2>2. \A p \in Runs : run[p].cell = run[q].cell /\ run[p].state = "clearing"
                           => run'[p].state = "clearing"
    BY <1>5, <2>1
  <2>3. ~ ClearedUnheard(q)
    BY <1>1, <1>2, <1>3, <1>4, <1>6, <2>2, TailUnheard
  <2> QED BY <1>1, <1>3, <1>7, <2>1, <2>3 DEF StreamLast
<1>14. ClearInv'
  BY <1>1, <1>2, <1>3, <1>5 DEF ClearInv
<1>15. NoneBefore'
  <2>1. \A q \in Runs : run'[q].state = "clearing" => run[q].state = "clearing"
    BY <1>5
  <2> QED BY <1>2, <1>3, <1>7, <2>1 DEF NoneBefore
<1>16. ErrorInv'
  <2> SUFFICES ASSUME NEW q \in Runs, run'[q].state = "executing", ErrorIsThere(q)', q \notin misled'
               PROVE  run'[q].failed
    BY <1>2 DEF ErrorInv
  <2>1. ErrorIsThere(q) /\ run[q].cell \in Cells
    BY <1>3, <1>5, <1>7, HandlerFields DEF ErrorIsThere, Typed
  <2>2. q # r
    BY <1>3, <1>4, <2>1 DEF NoneBefore, ErrorIsThere
  <2>3. run'[q] = run[q]
    BY <1>5, <2>2
  <2> QED BY <1>1, <1>3, <2>1, <2>3 DEF ErrorInv
<1>17. StartInv'
  <2>1. \A p \in Runs : run[p].state = "clearing" /\ p # Head(events).start
                           => run'[p].state = "clearing"
    <3> SUFFICES ASSUME NEW p \in Runs, run[p].state = "clearing", p # r PROVE FALSE
      BY DEF r
    <3> QED BY <1>2, <1>3, <1>4 DEF OneBusy, Busy
  <2> QED BY <1>1, <1>2, <1>3, <2>1, TailStarts
<1>18. OneBusy'
  <2>1. \A q \in Runs : run'[q].state \in {"clearing", "executing"}
                           => run[q].state \in {"clearing", "executing"}
    BY <1>4, <1>5
  <2> QED BY <1>2, <1>3, <2>1, BusyKept
<1> QED BY <1>8, <1>9, <1>11, <1>12, <1>13, <1>14, <1>15, <1>16, <1>17, <1>18 DEF OutputsInv

-----------------------------------------------------------------------------
(* Messages that make outputs.                                             *)
LEMMA TextPieces ==
  ASSUME NEW o \in CellOutput, NEW n \in Chunks, o.text = <<n>>, o.kind \in Streams,
         o.display = NoDisplay
  PROVE  PiecesOf(o) = <<TextPiece(o.kind, n)>>
<1>1. /\ PiecesOf(o) \in Seq(PieceSet) /\ Len(PiecesOf(o)) = Len(o.text)
      /\ DOMAIN PiecesOf(o) = DOMAIN o.text
      /\ \A j \in DOMAIN o.text : PiecesOf(o)[j] = Piece(o, j)
  BY PiecesOfType
<1>2. DOMAIN o.text = {1} /\ Len(o.text) = 1 /\ o.text[1] = n
  OBVIOUS
<1>3. PiecesOf(o)[1] = TextPiece(o.kind, n)
  BY <1>1, <1>2 DEF Piece, TextPiece
<1>4. PiecesOf(o) = <<PiecesOf(o)[1]>>
  BY <1>1, <1>2
<1> QED BY <1>3, <1>4

LEMMA WithTextNone ==
  ASSUME NEW s \in Seq(CellOutput), NEW id, NEW text \in Seq(Chunks),
         \A i \in DOMAIN s : s[i].id # id
  PROVE  WithText(s, id, text) = s
<1>1. /\ WithText(s, id, text) \in Seq(CellOutput)
      /\ Len(WithText(s, id, text)) = Len(s) /\ DOMAIN WithText(s, id, text) = DOMAIN s
      /\ \A i \in DOMAIN s : WithText(s, id, text)[i] = s[i]
  <2>1. \A i \in DOMAIN s : WithText(s, id, text)[i] = IF s[i].id = id
                                                       THEN [s[i] EXCEPT !.text = text] ELSE s[i]
    BY WithTextType
  <2>2. \A i \in DOMAIN s : WithText(s, id, text)[i] = s[i]
    BY <2>1
  <2> QED BY <2>2, WithTextType
<1> QED BY <1>1

LEMMA WithTextLast ==
  ASSUME NEW s \in Seq(CellOutput), s # <<>>, NEW n, NEW R, Good(s, n, R), NEW chunk \in Chunks,
         NEW o, o = s[Len(s)]
  PROVE  WithText(s, o.id, Append(o.text, chunk)) = [s EXCEPT ![Len(s)] = Grown(o, chunk)]
<1> DEFINE text == Append(o.text, chunk)
           t == WithText(s, o.id, text)
           u == [s EXCEPT ![Len(s)] = Grown(o, chunk)]
<1>1. Len(s) \in DOMAIN s /\ DOMAIN s = 1..Len(s) /\ Len(s) \in Nat /\ o \in CellOutput
  OBVIOUS
<1>2. /\ Grown(o, chunk) \in CellOutput /\ Grown(o, chunk) = [o EXCEPT !.text = text]
      /\ text \in Seq(Chunks)
  BY <1>1, GrownType DEF Grown
<1>3. /\ t \in Seq(CellOutput) /\ Len(t) = Len(s) /\ DOMAIN t = DOMAIN s
      /\ \A i \in DOMAIN s : t[i] = IF s[i].id = o.id THEN [s[i] EXCEPT !.text = text] ELSE s[i]
  <2> DEFINE id == o.id
  <2>1. text \in Seq(Chunks) /\ t = WithText(s, id, text)
    BY <1>2
  <2>2. \A i \in DOMAIN s : (s[i].id = id <=> s[i].id = o.id)
    OBVIOUS
  <2> HIDE DEF text, t, id
  <2>3. /\ WithText(s, id, text) \in Seq(CellOutput)
        /\ Len(WithText(s, id, text)) = Len(s) /\ DOMAIN WithText(s, id, text) = DOMAIN s
        /\ \A i \in DOMAIN s : WithText(s, id, text)[i] = IF s[i].id = id
                                            THEN [s[i] EXCEPT !.text = text] ELSE s[i]
    BY <2>1, WithTextType
  <2> QED BY <2>1, <2>3 DEF id
<1>4. /\ u \in Seq(CellOutput) /\ Len(u) = Len(s) /\ DOMAIN u = DOMAIN s
      /\ \A i \in DOMAIN s : u[i] = IF i = Len(s) THEN Grown(o, chunk) ELSE s[i]
  BY <1>1, <1>2
<1>5. \A i \in DOMAIN s : s[i].id = o.id => i = Len(s)
  <2> SUFFICES ASSUME NEW i \in DOMAIN s, i # Len(s) PROVE s[i].id # o.id
    OBVIOUS
  <2>1. i < Len(s)
    BY <1>1
  <2>2. s[i].id < s[Len(s)].id
    BY <1>1, <2>1 DEF Good
  <2>3. s[i] \in CellOutput
    OBVIOUS
  <2>4. s[i].id \in Nat /\ s[Len(s)].id \in Nat
    BY <1>1, <2>3, Sizes DEF CellOutput
  <2> QED BY <2>2, <2>4
<1> HIDE DEF text, t, u
<1>6. ASSUME NEW i \in DOMAIN s PROVE t[i] = u[i]
  <2>1. CASE i = Len(s)
    BY <1>1, <1>2, <1>3, <1>4, <2>1
  <2>2. CASE i # Len(s)
    BY <1>3, <1>4, <1>5, <2>2
  <2> QED BY <2>1, <2>2
<1>7. t = u
  BY <1>3, <1>4, <1>6
<1> QED BY <1>7 DEF t, u, text

(* The outputs that a stream message means, after those that were meant.   *)
LEMMA MeantText ==
  ASSUME Typed, NEW R, messages < MaxMessages, NEW was \in Seq(CellOutput), Good(was, messages, R),
         NEW new \in CellOutput, new.kind \in Streams, new.display = NoDisplay,
         new.id = messages + 1, new.text = <<messages + 1>>, new.by \in R
  PROVE  LET w == MeantWithText(was, new)
         IN  /\ Pieces(w) = Append(Pieces(was), TextPiece(new.kind, messages + 1))
             /\ Good(w, messages + 1, R)
             /\ \A i \in DOMAIN w : (\E j \in DOMAIN was : Like(w[i], was[j])) \/ Like(w[i], new)
<1> DEFINE w == MeantWithText(was, new)
           m == messages + 1
<1>1. messages \in Nat /\ m \in Chunks /\ m \in Nat /\ messages <= m
  BY Counted, OutputBounds DEF Chunks
<1>2. CASE was # <<>> /\ was[Len(was)].kind = new.kind
  <2> DEFINE l == was[Len(was)]
             g == Grown(l, m)
  <2>1. Len(was) \in DOMAIN was /\ DOMAIN was = 1..Len(was) /\ Len(was) \in Nat /\ l \in CellOutput
    BY <1>2
  <2>2. w = [was EXCEPT ![Len(was)] = g]
    <3>1. w = [was EXCEPT ![Len(was)].text = Append(@, m)]
      BY <1>2 DEF MeantWithText
    <3> QED BY <2>1, <3>1 DEF Grown
  <2>3. WellMade(l, messages, R)
    BY <2>1 DEF Good
  <2>4. l.kind \in Streams /\ l.display = NoDisplay /\ l.kind = new.kind
    BY <1>2, <2>3 DEF WellMade
  <2>5. Pieces(w) = Append(Pieces(was), TextPiece(new.kind, m))
    <3>1. Pieces([was EXCEPT ![Len(was)] = Grown(was[Len(was)], m)])
            = Append(Pieces(was), TextPiece(was[Len(was)].kind, m))
      BY <1>1, <1>2, <2>4, PiecesGrow
    <3> QED BY <2>2, <2>4, <3>1
  <2>6. /\ g \in CellOutput /\ g.id = l.id /\ g.kind = l.kind /\ g.by = l.by
        /\ g.display = l.display /\ g.text = Append(l.text, m) /\ l.text \in Seq(Chunks)
    BY <1>1, <2>1, GrownType DEF CellOutput
  <2> HIDE DEF g, w
  <2>7. DOMAIN w = DOMAIN was /\ \A i \in DOMAIN was : w[i] = IF i = Len(was) THEN g ELSE was[i]
    BY <2>1, <2>2
  <2>8. ASSUME NEW i \in DOMAIN was
        PROVE  /\ Like(w[i], was[i])
               /\ w[i].text = was[i].text \/
                  (IF was[i].kind \in Streams THEN w[i].text # <<>> ELSE Len(w[i].text) = 1)
    <3>1. CASE i = Len(was)
      <4>1. w[i] = g /\ was[i] = l
        BY <2>7, <3>1
      <4>2. g.text # <<>>
        BY <1>1, <2>6
      <4> QED BY <2>4, <2>6, <4>1, <4>2 DEF Like
    <3>2. CASE i # Len(was)
      <4>1. w[i] = was[i]
        BY <2>7, <3>2
      <4> QED BY <4>1 DEF Like
    <3> QED BY <3>1, <3>2
  <2>9. w \in Seq(CellOutput)
    BY <2>1, <2>2, <2>6
  <2>10. Good(w, messages, R)
    BY <2>7, <2>8, GoodTexts
  <2>11. Good(w, m, R)
    <3>1. R \subseteq R
      OBVIOUS
    <3> QED BY <1>1, <2>9, <2>10, <3>1, GoodLater
  <2> QED BY <2>5, <2>7, <2>8, <2>11 DEF w
<1>3. CASE ~ (was # <<>> /\ was[Len(was)].kind = new.kind)
  <2>1. w = Append(was, new)
    BY <1>3 DEF MeantWithText
  <2>2. Pieces(w) = Append(Pieces(was), TextPiece(new.kind, m))
    <3>1. Pieces(Append(was, new)) = Pieces(was) \o PiecesOf(new)
      BY PiecesAppend
    <3>2. PiecesOf(new) = <<TextPiece(new.kind, m)>>
      BY <1>1, TextPieces
    <3>3. Pieces(was) \in Seq(PieceSet)
      BY PiecesType
    <3>4. PiecesOf(new) \in Seq(PieceSet)
      BY PiecesOfType
    <3> DEFINE p == Pieces(was)
               q == TextPiece(new.kind, m)
    <3>5. q \in PieceSet
      <4>1. <<q>> \in Seq(PieceSet)
        BY <3>2, <3>4
      <4> QED BY <4>1
    <3> HIDE DEF p, q
    <3>6. p \o <<q>> = Append(p, q)
      BY <3>3, <3>5 DEF p
    <3> QED BY <2>1, <3>1, <3>2, <3>6 DEF p, q
  <2>3. Good(w, m, R)
    <3>1. WellMade(new, m, R)
      <4>1. new.text # <<>>
        OBVIOUS
      <4> QED BY <1>1, <4>1 DEF WellMade
    <3> QED BY <1>1, <2>1, <3>1, GoodAppend
  <2>4. /\ DOMAIN w = 1..(Len(was) + 1) /\ w[Len(was) + 1] = new /\ DOMAIN was = 1..Len(was)
        /\ \A i \in 1..Len(was) : w[i] = was[i]
        /\ Len(was) \in Nat
    BY <2>1
  <2> HIDE DEF w
  <2>5. \A i \in DOMAIN w : i = Len(was) + 1 \/ i \in DOMAIN was
    BY <2>4
  <2>6. \A i \in DOMAIN w : (\E j \in DOMAIN was : Like(w[i], was[j])) \/ Like(w[i], new)
    BY <2>4, <2>5 DEF Like
  <2> QED BY <2>2, <2>3, <2>6 DEF w
<1> QED BY <1>2, <1>3

LEMMA QuietJoined ==
  ASSUME NEW S, NEW es \in Seq(S), NEW a \in Seq(S), \A i \in DOMAIN a : a[i].start = 0
  PROVE  Quiet(es \o a, es)
<1>1. /\ DOMAIN es = 1..Len(es) /\ DOMAIN a = 1..Len(a) /\ Len(es) \in Nat /\ Len(a) \in Nat
      /\ DOMAIN (es \o a) = 1..(Len(es) + Len(a))
      /\ \A k \in 1..(Len(es) + Len(a)) : (es \o a)[k] = IF k <= Len(es) THEN es[k] ELSE a[k - Len(es)]
      /\ \A k \in 1..(Len(es) + Len(a)) : ~ (k <= Len(es)) => k - Len(es) \in 1..Len(a)
  BY Joined
<1>2. ASSUME NEW k \in DOMAIN (es \o a)
      PROVE  (es \o a)[k].start = 0 \/ (k \in DOMAIN es /\ (es \o a)[k] = es[k])
  <2>1. CASE k <= Len(es)
    BY <1>1, <2>1
  <2>2. CASE ~ (k <= Len(es))
    BY <1>1, <2>2
  <2> QED BY <2>1, <2>2
<1> QED BY <1>2 DEF Quiet

LEMMA QuietTwice ==
  ASSUME NEW a, NEW b, NEW c, Quiet(a, b), Quiet(b, c)
  PROVE  Quiet(a, c)
BY DEF Quiet

LEMMA MessageKept ==
  ASSUME OutputsInv, NEW r \in Runs, RunsSame, messages' = messages + 1,
         NEW new \in CellOutput, new.by = r, NEW t \in Cells,
         \A c \in Cells : Good(Outcome'[c], messages + 1, Runs) /\ Good(meant'[c], messages + 1, Runs),
         From(Outcome', Outcome, t, {new}),
         \A c \in Cells \ spoiled' : c # run[r].cell => Outcome'[c] = Outcome[c] /\ meant'[c] = meant[c],
         t # run[r].cell => t \in spoiled', spoiled \subseteq spoiled',
         run[r].cell \notin spoiled' => Pieces(Outcome'[run[r].cell]) = Pieces(meant'[run[r].cell])
  PROVE  MadeInv' /\ OwnInv' /\ PiecesInv'
<1>1. Typed /\ MadeInv /\ OwnInv /\ PiecesInv
  BY DEF OutputsInv
<1>2. Runs' = Runs /\ \A q \in Runs : run'[q].cell = run[q].cell
  BY DEF RunsSame
<1>3. MadeInv'
  BY <1>2 DEF MadeInv
<1>4. OwnInv'
  <2> DEFINE news == {new}
  <2>1. From(Outcome', Outcome, t, news)
    OBVIOUS
  <2>2. \A o \in news : o.by \in Runs /\ (run[o.by].cell = t \/ t \in spoiled')
    OBVIOUS
  <2>3. \A c \in Cells \ spoiled' : c \notin spoiled \/ Outcome'[c] = <<>>
    OBVIOUS
  <2> HIDE DEF news
  <2> QED BY <1>1, <1>2, <2>1, <2>2, <2>3, OwnKept
<1>5. PiecesInv'
  <2> SUFFICES ASSUME NEW c \in Cells \ spoiled' PROVE Pieces(Outcome'[c]) = Pieces(meant'[c])
    BY DEF PiecesInv
  <2>1. CASE c = run[r].cell
    BY <2>1
  <2>2. CASE c # run[r].cell
    <3>1. Outcome'[c] = Outcome[c] /\ meant'[c] = meant[c] /\ c \notin spoiled
      BY <2>2
    <3> QED BY <1>1, <3>1 DEF PiecesInv
  <2> QED BY <2>1, <2>2
<1> QED BY <1>3, <1>4, <1>5

(* An output with new text, where it is the last of its cell.              *)
LEMMA StreamGrows ==
  ASSUME OutputsInv, NEW r \in Runs, Handles(r), NEW chunk \in Chunks, chunk = messages + 1,
         NEW before \in CellOutput, before = run[r].stream, NEW o, o = Grown(before, chunk),
         Outcome' = [c \in Cells |-> WithText(Outcome[c], o.id, o.text)],
         NEW new, NEW t
  PROVE  /\ \A c \in Cells : Good(Outcome'[c], chunk, Runs)
         /\ From(Outcome', Outcome, t, {new})
         /\ \A c \in Cells \ spoiled : c # run[r].cell => Outcome'[c] = Outcome[c]
         /\ run[r].cell \notin spoiled /\ ~ ClearedUnheard(r)
              => /\ LastIs(Outcome'[run[r].cell], o)
                 /\ Pieces(Outcome'[run[r].cell])
                      = Append(Pieces(Outcome[run[r].cell]), TextPiece(before.kind, chunk))
<1>1. /\ Typed /\ MadeInv /\ OwnInv /\ StreamInv /\ StreamOwn /\ StreamLast
      /\ Outcome \in Documents /\ run[r].cell \in Cells /\ messages \in Nat
  BY OutcomeType, HandlerFields, Counted DEF OutputsInv, Typed
<1>2. /\ o.id = before.id /\ o.kind = before.kind /\ o \in CellOutput
      /\ o.text = Append(before.text, chunk) /\ o.text \in Seq(Chunks) /\ o.text # <<>>
  <2>1. before.text \in Seq(Chunks)
    BY DEF CellOutput
  <2> DEFINE g == Grown(before, chunk)
  <2>2. /\ g \in CellOutput /\ g.id = before.id /\ g.kind = before.kind
        /\ g.text = Append(before.text, chunk) /\ Append(before.text, chunk) \in Seq(Chunks)
    BY GrownType
  <2>3. o = g
    OBVIOUS
  <2> HIDE DEF g
  <2>4. Append(before.text, chunk) # <<>>
    BY <2>1
  <2> QED BY <2>2, <2>3, <2>4
<1>3. run[r].stream # NoOutput /\ before.kind \in Streams /\ before.display = NoDisplay
  BY <1>1, Sizes DEF StreamInv
<1>4. \A c \in Cells : Outcome'[c] = WithText(Outcome[c], o.id, o.text)
  OBVIOUS
<1>5. ASSUME NEW c \in Cells PROVE Good(Outcome'[c], chunk, Runs)
  <2> DEFINE s == Outcome[c]
             u == WithText(s, o.id, o.text)
  <2>1. /\ s \in Seq(CellOutput) /\ Good(s, messages, Runs)
        /\ \A i \in DOMAIN s : s[i] \in CellOutput /\ s[i].id = o.id => s[i].kind \in Streams
    BY <1>1, <1>2, <1>3, ShownFacts DEF StreamOwn
  <2>2. /\ DOMAIN u = DOMAIN s
        /\ \A i \in DOMAIN s : /\ Like(u[i], s[i])
                               /\ s[i].id = o.id => u[i].text = o.text
                               /\ s[i].id # o.id => u[i] = s[i]
        /\ u \in Seq(CellOutput)
    <3>1. s \in Seq(CellOutput) /\ o.text \in Seq(Chunks)
      BY <1>2, <2>1
    <3> QED BY <3>1, WithTextLike, WithTextType
  <2> HIDE DEF s, u
  <2>3. \A i \in DOMAIN s : s[i].id = o.id => s[i].kind \in Streams
    <3>1. \A i \in DOMAIN s : s[i] \in CellOutput
      BY <2>1
    <3> QED BY <2>1, <3>1
  <2>4. \A i \in DOMAIN s : u[i].text = s[i].text \/
            (IF s[i].kind \in Streams THEN u[i].text # <<>> ELSE Len(u[i].text) = 1)
    BY <1>2, <2>2, <2>3
  <2>5. Good(u, messages, Runs)
    BY <2>1, <2>2, <2>4, GoodTexts
  <2>6. messages <= chunk /\ chunk \in Nat /\ Runs \subseteq Runs
    BY <1>1
  <2>7. Good(u, chunk, Runs)
    BY <1>1, <2>2, <2>5, <2>6, GoodLater
  <2> QED BY <1>4, <2>7 DEF s, u
<1>6. From(Outcome', Outcome, t, {new})
  <2>1. o.text \in Seq(Chunks)
    BY <1>2
  <2> QED BY <1>1, <2>1, FromWithText
<1>7. ASSUME NEW c \in Cells \ spoiled, c # run[r].cell PROVE Outcome'[c] = Outcome[c]
  <2>1. \A i \in DOMAIN Outcome[c] : Outcome[c][i].id # o.id
    <3> SUFFICES ASSUME NEW i \in DOMAIN Outcome[c], Outcome[c][i].id = run[r].stream.id PROVE FALSE
      BY <1>2
    <3>1. Outcome[c][i].by = r
      BY <1>1, <1>3 DEF StreamOwn
    <3>2. run[Outcome[c][i].by].cell = c
      BY <1>1 DEF OwnInv
    <3> QED BY <1>7, <3>1, <3>2
  <2>2. Outcome[c] \in Seq(CellOutput) /\ o.text \in Seq(Chunks) /\ c \in Cells
    BY <1>1, <1>2 DEF Documents
  <2>3. WithText(Outcome[c], o.id, o.text) = Outcome[c]
    BY <2>1, <2>2, WithTextNone
  <2> QED BY <1>4, <2>3
<1>8. ASSUME run[r].cell \notin spoiled, ~ ClearedUnheard(r)
      PROVE  /\ LastIs(Outcome'[run[r].cell], o)
             /\ Pieces(Outcome'[run[r].cell])
                      = Append(Pieces(Outcome[run[r].cell]), TextPiece(before.kind, chunk))
  <2> DEFINE s == Outcome[run[r].cell]
  <2>1. s # <<>> /\ s[Len(s)] = before
    BY <1>1, <1>3, <1>8 DEF StreamLast, LastIs
  <2>2. s \in Seq(CellOutput) /\ Good(s, messages, Runs)
    BY <1>1, ShownFacts
  <2>3. Outcome'[run[r].cell] = WithText(s, before.id, Append(before.text, chunk))
    BY <1>1, <1>2, <1>4
  <2> HIDE DEF s
  <2>4. WithText(s, before.id, Append(before.text, chunk)) = [s EXCEPT ![Len(s)] = Grown(before, chunk)]
    BY <2>1, <2>2, WithTextLast
  <2>5. Pieces([s EXCEPT ![Len(s)] = Grown(s[Len(s)], chunk)])
           = Append(Pieces(s), TextPiece(s[Len(s)].kind, chunk))
    BY <1>3, <2>1, <2>2, PiecesGrow
  <2>6. LET u == [s EXCEPT ![Len(s)] = o] IN u # <<>> /\ u[Len(u)] = o
    <3>1. Len(s) \in DOMAIN s /\ o \in CellOutput
      BY <1>2, <2>1, <2>2
    <3>2. /\ [s EXCEPT ![Len(s)] = o] \in Seq(CellOutput)
          /\ Len([s EXCEPT ![Len(s)] = o]) = Len(s)
      BY <2>2, <3>1, ElementReplaced
    <3>3. [s EXCEPT ![Len(s)] = o][Len(s)] = o /\ Len(s) > 0
      BY <2>1, <2>2, <3>1
    <3> QED BY <3>2, <3>3
  <2> QED BY <2>1, <2>3, <2>4, <2>5, <2>6 DEF s, LastIs
<1> QED BY <1>5, <1>6, <1>7, <1>8

(* A new output, after those of its cell or instead of them.               *)
LEMMA OutputAdded ==
  ASSUME OutputsInv, NEW t \in Cells, NEW new \in CellOutput,
         new.id = messages + 1, WellMade(new, messages + 1, Runs),
         NEW document \in Documents, \A x \in Cells : Good(document[x], messages, Runs)
  PROVE  /\ \A x \in Cells : Good([document EXCEPT ![t] = <<new>>][x], messages + 1, Runs)
         /\ \A x \in Cells : Good([document EXCEPT ![t] = Append(document[t], new)][x],
                                  messages + 1, Runs)
         /\ [document EXCEPT ![t] = <<new>>][t] = <<new>>
         /\ [document EXCEPT ![t] = Append(document[t], new)][t] = Append(document[t], new)
         /\ LastIs(<<new>>, new) /\ LastIs(Append(document[t], new), new)
         /\ \A x \in Cells : x # t => /\ [document EXCEPT ![t] = <<new>>][x] = document[x]
                                      /\ [document EXCEPT ![t] = Append(document[t], new)][x]
                                           = document[x]
<1>1. messages \in Nat /\ messages + 1 \in Nat /\ messages <= messages + 1 /\ Runs \subseteq Runs
  BY Counted DEF OutputsInv
<1>2. document[t] \in Seq(CellOutput) /\ Good(document[t], messages, Runs)
  BY DEF Documents
<1>3. Good(Append(document[t], new), messages + 1, Runs) /\ Good(<<new>>, messages + 1, Runs)
  BY <1>1, <1>2, GoodAppend
<1>4. /\ \A x \in Cells : Good([document EXCEPT ![t] = <<new>>][x], messages + 1, Runs)
      /\ \A x \in Cells : Good([document EXCEPT ![t] = Append(document[t], new)][x],
                                  messages + 1, Runs)
  BY <1>1, <1>3, GoodOne
<1>5. LastIs(<<new>>, new) /\ LastIs(Append(document[t], new), new)
  BY <1>2 DEF LastIs
<1>6. \A a : /\ [document EXCEPT ![t] = a][t] = a
             /\ \A x \in Cells : x # t => [document EXCEPT ![t] = a][x] = document[x]
  BY DEF Documents
<1> QED BY <1>4, <1>5, <1>6

LEMMA StreamInvariant ==
  ASSUME OutputsInv, Typed', OneHandlerPerCell', NEW r \in Runs, NEW name \in Streams,
         Stream(r, name)
  PROVE  OutputsInv'
<1> DEFINE before == run[r].stream
           mine == run[r].cell
           t == TaskCell(r)
           grows == before.kind = name /\ ~ run[r].clearNext
           o == StreamOutput(r, name)
           new == NewOutput(r, name, NoDisplay)
           m == messages + 1
           h == [run[r] EXCEPT !.stream = o, !.clearNext = FALSE]
           was == MeantBefore(r)
           w == MeantWithText(was, new)
           p == TextPiece(name, m)
<1>1. /\ o \in CellOutput /\ (grows => before \in CellOutput)
      /\ run' = [run EXCEPT ![r] = h] /\ h \in Handler
      /\ Outcome' = IF grows THEN [c \in Cells |-> WithText(Outcome[c], o.id, o.text)]
                    ELSE IF run[r].clearNext THEN [Outcome EXCEPT ![t] = <<o>>]
                    ELSE [Outcome EXCEPT ![t] = Append(Outcome[t], o)]
      /\ meant' = [meant EXCEPT ![mine] = w]
      /\ was \in Seq(CellOutput) /\ w \in Seq(CellOutput) /\ Handles(r)
  BY StreamStep DEF OutputsInv
<1>2. /\ messages < MaxMessages /\ messages' = m /\ events' = events /\ tracked' = tracked
      /\ stray' = stray /\ misled' = misled /\ toClear' = toClear \ {r}
      /\ spoiled' = spoiled \cup Misplaced(r)
                          \cup (IF grows /\ ClearedUnheard(r) THEN {mine} ELSE {})
  BY DEF Stream, Message, trackerVars
<1>3. /\ Typed /\ MadeInv /\ OwnInv /\ PiecesInv /\ StreamInv /\ StreamOwn /\ StreamLast
      /\ NoneBefore /\ ErrorInv /\ StartInv /\ TrackedInv /\ ShownTracked /\ MeantTracked
      /\ ClearInv /\ OneBusy
  BY DEF OutputsInv
<1>4. /\ m \in Chunks /\ messages \in Nat /\ m \in Nat /\ messages <= m
      /\ new \in CellOutput /\ new.id = m /\ new.kind = name /\ new.by = r
      /\ new.display = NoDisplay /\ new.text = <<m>>
  <2>1. name \in Streams \cup {"data", "error"} /\ NoDisplay \in Displays \cup {NoDisplay}
    OBVIOUS
  <2>2. /\ messages \in Nat /\ m \in Chunks /\ new \in CellOutput
        /\ new.id = m /\ new.kind = name /\ new.by = r
        /\ new.display = NoDisplay /\ new.text = <<m>>
    BY <1>2, <1>3, <2>1, NewOutputType
  <2> HIDE DEF new
  <2> QED BY <2>2
<1>5. /\ mine \in Cells /\ t \in Cells /\ run[r] \in Handler
      /\ t # mine => mine \in Misplaced(r) /\ t \in Misplaced(r)
  BY <1>3, HandlerFields, TaskCellType DEF Typed
<1>6. /\ grows => o = Grown(before, m)
      /\ ~ grows => o = new
  BY DEF StreamOutput
<1>7. h.cell = mine /\ h.state = run[r].state /\ h.failed = run[r].failed
      /\ h.stream = o /\ h.clearNext = FALSE
  BY <1>5 DEF Handler
<1>8. Outcome \in Documents /\ meant \in Documents
  BY <1>3, OutcomeType DEF Typed
<1>9. WellMade(new, m, Runs)
  <2> HIDE DEF new, m
  <2>1. <<m>> # <<>>
    OBVIOUS
  <2> QED BY <1>4, <2>1 DEF WellMade
<1> HIDE DEF before, mine, t, o, new, m, h, was, w, p, grows
<1>10. /\ RunsSame /\ Runs' = Runs /\ run'[r] = h /\ \A q \in Runs \ {r} : run'[q] = run[q]
       /\ \A q \in Runs : run'[q].cell = run[q].cell /\ run'[q].state = run[q].state
       /\ \A q \in Runs : ClearedUnheard(q)' <=> ClearedUnheard(q)
       /\ OneBusy'
  BY <1>1, <1>2, <1>7, MessageRuns DEF mine
<1>11. /\ \A c \in Cells : Good(Outcome'[c], m, Runs)
       /\ From(Outcome', Outcome, t, {new})
       /\ \A c \in Cells \ spoiled' : c # mine => Outcome'[c] = Outcome[c]
       /\ mine \notin spoiled'
            => /\ LastIs(Outcome'[mine], o)
               /\ Pieces(Outcome'[mine])
                    = Append(IF run[r].clearNext THEN <<>> ELSE Pieces(Outcome[mine]), p)
  <2>1. CASE grows
    <3>1. /\ \A c \in Cells : Good(Outcome'[c], m, Runs)
          /\ From(Outcome', Outcome, t, {new})
          /\ \A c \in Cells \ spoiled : c # run[r].cell => Outcome'[c] = Outcome[c]
          /\ run[r].cell \notin spoiled /\ ~ ClearedUnheard(r)
              => /\ LastIs(Outcome'[run[r].cell], o)
                 /\ Pieces(Outcome'[run[r].cell])
                      = Append(Pieces(Outcome[run[r].cell]), TextPiece(before.kind, m))
      <4>1. /\ Handles(r) /\ m \in Chunks /\ m = messages + 1 /\ before \in CellOutput
            /\ before = run[r].stream /\ o = Grown(before, m)
            /\ Outcome' = [c \in Cells |-> WithText(Outcome[c], o.id, o.text)]
        BY <1>1, <1>4, <1>6, <2>1 DEF before, m
      <4> QED BY <4>1, StreamGrows
    <3>2. before.kind = name /\ ~ run[r].clearNext
      BY <2>1 DEF grows
    <3>3. mine \notin spoiled' => run[r].cell \notin spoiled /\ ~ ClearedUnheard(r)
      BY <1>2, <2>1 DEF mine
    <3>4. \A c \in Cells \ spoiled' : c \in Cells \ spoiled
      BY <1>2
    <3> QED BY <3>1, <3>2, <3>3, <3>4 DEF mine, p
  <2>2. CASE ~ grows
    <3>1. o = new /\ new.id = messages + 1 /\ WellMade(new, messages + 1, Runs)
          /\ \A x \in Cells : Good(Outcome[x], messages, Runs)
      BY <1>3, <1>4, <1>6, <1>9, <2>2 DEF m, MadeInv
    <3>2. /\ \A x \in Cells : Good([Outcome EXCEPT ![t] = <<new>>][x], messages + 1, Runs)
          /\ \A x \in Cells : Good([Outcome EXCEPT ![t] = Append(Outcome[t], new)][x],
                                  messages + 1, Runs)
          /\ [Outcome EXCEPT ![t] = <<new>>][t] = <<new>>
          /\ [Outcome EXCEPT ![t] = Append(Outcome[t], new)][t] = Append(Outcome[t], new)
          /\ LastIs(<<new>>, new) /\ LastIs(Append(Outcome[t], new), new)
          /\ \A x \in Cells : x # t => /\ [Outcome EXCEPT ![t] = <<new>>][x] = Outcome[x]
                                      /\ [Outcome EXCEPT ![t] = Append(Outcome[t], new)][x]
                                           = Outcome[x]
      BY <1>4, <1>5, <1>8, <3>1, OutputAdded
    <3>3. /\ From([Outcome EXCEPT ![t] = Append(Outcome[t], new)], Outcome, t, {new})
          /\ From([Outcome EXCEPT ![t] = <<new>>], Outcome, t, {new})
      BY <1>5, <1>8, FromAppended
    <3>4. mine \notin spoiled' => t = mine
      BY <1>2, <1>5
    <3>5. \A c \in Cells \ spoiled' : c # mine => c # t
      BY <1>2, <1>5
    <3>6. PiecesOf(new) = <<p>>
      BY <1>4, TextPieces DEF p
    <3>7. CASE run[r].clearNext
      <4>1. Outcome' = [Outcome EXCEPT ![t] = <<new>>]
        BY <1>1, <2>2, <3>1, <3>7
      <4>2. Pieces(<<new>>) = Append(<<>>, p)
        <5>1. Append(<<>>, new) = <<new>> /\ <<>> \in Seq(CellOutput)
          OBVIOUS
        <5>2. Pieces(Append(<<>>, new)) = Pieces(<<>>) \o PiecesOf(new)
          BY <1>4, <5>1, PiecesAppend
        <5>3. <<>> \o <<p>> = Append(<<>>, p)
          OBVIOUS
        <5> QED BY <3>6, <5>1, <5>2, <5>3, PiecesEmpty
      <4> QED BY <3>1, <3>2, <3>3, <3>4, <3>5, <3>7, <4>1, <4>2 DEF m
    <3>8. CASE ~ run[r].clearNext
      <4>1. Outcome' = [Outcome EXCEPT ![t] = Append(Outcome[t], new)]
        BY <1>1, <2>2, <3>1, <3>8
      <4>2. Pieces(Append(Outcome[t], new)) = Append(Pieces(Outcome[t]), p)
        <5>1. Outcome[t] \in Seq(CellOutput)
          BY <1>5, <1>8 DEF Documents
        <5>2. Pieces(Append(Outcome[t], new)) = Pieces(Outcome[t]) \o PiecesOf(new)
          BY <1>4, <5>1, PiecesAppend
        <5>3. Pieces(Outcome[t]) \in Seq(PieceSet) /\ PiecesOf(new) \in Seq(PieceSet)
          BY <1>4, <5>1, PiecesType, PiecesOfType
        <5> DEFINE a == Pieces(Outcome[t])
        <5>4. a \in Seq(PieceSet) /\ <<p>> \in Seq(PieceSet)
          BY <3>6, <5>3
        <5> HIDE DEF a
        <5>5. p \in PieceSet
          BY <5>4
        <5>6. a \o <<p>> = Append(a, p)
          BY <5>4, <5>5
        <5> QED BY <3>6, <5>2, <5>6 DEF a
      <4> QED BY <3>1, <3>2, <3>3, <3>4, <3>5, <3>8, <4>1, <4>2 DEF m
    <3> QED BY <3>7, <3>8
  <2> QED BY <2>1, <2>2
<1>12. run[r].clearNext <=> r \in toClear
  BY <1>3 DEF ClearInv
<1>13. /\ Good(was, messages, Runs)
       /\ was = IF run[r].clearNext THEN <<>> ELSE meant[mine]
  <2>1. was = IF run[r].clearNext THEN <<>> ELSE meant[mine]
    BY <1>12 DEF was, MeantBefore, mine
  <2>2. Good(meant[mine], messages, Runs)
    BY <1>3, <1>5 DEF MadeInv
  <2> QED BY <2>1, <2>2, GoodEmpty
<1>14. /\ Pieces(w) = Append(Pieces(was), p)
       /\ Good(w, m, Runs)
       /\ \A i \in DOMAIN w : (\E j \in DOMAIN was : Like(w[i], was[j])) \/ Like(w[i], new)
  <2>1. /\ new.kind \in Streams /\ new.display = NoDisplay /\ new.id = messages + 1
        /\ new.text = <<messages + 1>> /\ new.by \in Runs
    BY <1>4 DEF m
  <2>2. /\ Pieces(w) = Append(Pieces(was), TextPiece(new.kind, messages + 1))
        /\ Good(w, messages + 1, Runs)
        /\ \A i \in DOMAIN w : (\E j \in DOMAIN was : Like(w[i], was[j])) \/ Like(w[i], new)
    BY <1>1, <1>2, <1>3, <1>4, <1>13, <2>1, MeantText DEF w
  <2> QED BY <1>4, <2>2 DEF p, m
<1>15. meant'[mine] = w /\ \A c \in Cells : c # mine => meant'[c] = meant[c]
  BY <1>1, <1>5, <1>8 DEF Documents
<1>16. From(meant', meant, mine, {new})
  <2> SUFFICES ASSUME NEW c \in Cells, NEW i \in DOMAIN meant'[c]
               PROVE  \/ \E j \in DOMAIN meant[c] : Like(meant'[c][i], meant[c][j])
                      \/ c = mine /\ \E x \in {new} : Like(meant'[c][i], x)
    BY DEF From
  <2>1. CASE c # mine
    BY <1>15, <2>1 DEF Like
  <2>2. CASE c = mine
    <3>1. i \in DOMAIN w /\ meant'[c][i] = w[i]
      BY <1>15, <2>2
    <3>2. CASE Like(w[i], new)
      BY <2>2, <3>1, <3>2
    <3>3. CASE \E j \in DOMAIN was : Like(w[i], was[j])
      <4>1. was = meant[mine]
        BY <1>13, <3>3
      <4> QED BY <2>2, <3>1, <3>3, <4>1
    <3> QED BY <1>14, <3>1, <3>2, <3>3
  <2> QED BY <2>1, <2>2
<1>17. MadeInv' /\ OwnInv' /\ PiecesInv'
  <2>1. \A c \in Cells : Good(Outcome'[c], messages + 1, Runs) /\ Good(meant'[c], messages + 1, Runs)
    <3>1. ASSUME NEW c \in Cells PROVE Good(meant'[c], m, Runs)
      <4>1. CASE c = mine
        BY <1>14, <1>15, <4>1
      <4>2. CASE c # mine
        <5>1. meant[c] \in Seq(CellOutput) /\ Good(meant[c], messages, Runs) /\ Runs \subseteq Runs
          BY <1>3, ShownFacts
        <5>2. Good(meant[c], m, Runs)
          BY <1>4, <5>1, GoodLater
        <5> QED BY <1>15, <4>2, <5>2
      <4> QED BY <4>1, <4>2
    <3> QED BY <1>11, <3>1 DEF m
  <2>2. \A c \in Cells \ spoiled' : c # run[r].cell => Outcome'[c] = Outcome[c] /\ meant'[c] = meant[c]
    BY <1>11, <1>15 DEF mine
  <2>3. t # run[r].cell => t \in spoiled'
    BY <1>2, <1>5 DEF mine
  <2>4. run[r].cell \notin spoiled' => Pieces(Outcome'[run[r].cell]) = Pieces(meant'[run[r].cell])
    <3> SUFFICES ASSUME mine \notin spoiled' PROVE Pieces(Outcome'[mine]) = Pieces(meant'[mine])
      BY DEF mine
    <3>1. Pieces(meant[mine]) = Pieces(Outcome[mine])
      BY <1>2, <1>3, <1>5 DEF PiecesInv
    <3>2. Pieces(meant'[mine]) = Append(Pieces(was), p)
      BY <1>14, <1>15
    <3>3. Pieces(was) = IF run[r].clearNext THEN <<>> ELSE Pieces(Outcome[mine])
      BY <1>13, <3>1, PiecesEmpty
    <3> QED BY <1>11, <3>2, <3>3
  <2>5. messages' = messages + 1 /\ spoiled \subseteq spoiled'
    BY <1>2 DEF m
  <2> QED BY <1>4, <1>5, <1>10, <1>11, <2>1, <2>2, <2>3, <2>4, <2>5, MessageKept
<1>18. messages' \in Nat /\ messages <= messages'
  BY <1>2, <1>4
<1>19. TrackedInv'
  BY <1>2, <1>3, <1>18, TrackedKept
<1> DEFINE news == {new}
<1>20. /\ \A x \in news : x = new
       /\ From(Outcome', Outcome, t, news) /\ From(meant', meant, mine, news)
  BY <1>11, <1>16
<1> HIDE DEF news
<1>21. ShownTracked'
  <2>1. \A x \in news : x.id = messages + 1
    BY <1>4, <1>20 DEF m
  <2>2. \A d \in Displays : \/ tracked'[d] = tracked[d]
                            \/ tracked'[d] = NoOutput /\ news = {}
                            \/ /\ tracked'[d].id = messages + 1
                               /\ \A x \in news : x.display = d
    BY <1>2
  <2> QED BY <1>3, <1>20, <2>1, <2>2, ShownTrackedKept
<1>22. MeantTracked'
  <2>1. \A c \in Cells \ spoiled' : c \notin spoiled \/ meant'[c] = <<>>
    BY <1>2
  <2>2. \A x \in news : x.display \in Displays => tracked'[x.display].id = x.id
    BY <1>4, <1>20, Sizes
  <2>3. stray \subseteq stray' /\ \A d \in Displays : tracked'[d] = tracked[d] \/ tracked[d].id \in stray'
    BY <1>2
  <2> QED BY <1>3, <1>20, <2>1, <2>2, <2>3, MeantTrackedKept
<1>23. /\ o.kind \in Streams /\ o.by = r /\ o.id <= m /\ o.display = NoDisplay
       /\ grows => o.id = before.id /\ before # NoOutput
       /\ ~ grows => o.id = m
  <2>1. CASE grows
    <3>1. before \in CellOutput /\ before # NoOutput
      BY <1>1, <2>1, Sizes
    <3>2. before.kind \in Streams /\ before.by = r /\ before.id <= messages /\ before.display = NoDisplay
      BY <1>3, <3>1 DEF before, StreamInv
    <3>3. Grown(before, m).id = before.id /\ Grown(before, m).kind = before.kind
          /\ Grown(before, m).by = before.by /\ Grown(before, m).display = before.display
      BY <1>4, <3>1, GrownType
    <3>4. before.id \in Nat
      BY <3>1, Sizes DEF CellOutput
    <3>5. o = Grown(before, m)
      BY <1>6, <2>1
    <3>6. before.id <= m
      BY <1>4, <3>2, <3>4
    <3> HIDE DEF grows
    <3> QED BY <2>1, <3>1, <3>2, <3>3, <3>5, <3>6
  <2>2. CASE ~ grows
    BY <1>4, <1>6, <2>2
  <2> QED BY <2>1, <2>2
<1>24. StreamInv'
  <2> SUFFICES ASSUME NEW q \in Runs
               PROVE  /\ run'[q].state \in {"clearing", "over"} => run'[q].stream = NoOutput
                      /\ run'[q].stream # NoOutput
                           => /\ run'[q].stream.kind \in Streams /\ run'[q].stream.by = q
                              /\ run'[q].stream.id <= messages' /\ run'[q].stream.display = NoDisplay
    BY <1>10 DEF StreamInv
  <2>1. CASE q = r
    <3>1. run'[q].stream = o /\ run'[q].state \in {"executing", "listening"}
      BY <1>1, <1>7, <1>10, <2>1 DEF Handles
    <3> QED BY <1>2, <1>23, <2>1, <3>1
  <2>2. CASE q # r
    <3>1. run'[q] = run[q]
      BY <1>10, <2>2
    <3>2. /\ run[q].state \in {"clearing", "over"} => run[q].stream = NoOutput
          /\ run[q].stream # NoOutput
                           => /\ run[q].stream.kind \in Streams /\ run[q].stream.by = q
                              /\ run[q].stream.id <= messages /\ run[q].stream.display = NoDisplay
      BY <1>3 DEF StreamInv
    <3>3. run[q].stream # NoOutput => run[q].stream.id \in Nat
      <4>1. run[q].stream \in CellOutput \cup {NoOutput}
        BY <1>3, HandlerFields DEF Typed
      <4> QED BY <4>1, Sizes DEF CellOutput
    <3>4. run[q].stream # NoOutput => run[q].stream.id <= messages'
      BY <1>4, <1>18, <3>2, <3>3
    <3> QED BY <3>1, <3>2, <3>4
  <2> QED BY <2>1, <2>2
<1>25. StreamOwn'
  <2>1. \A x \in news : x.id = messages + 1
    BY <1>4, <1>20 DEF m
  <2>2. \A q \in Runs' : \/ run'[q].stream = NoOutput
                         \/ q \in Runs /\ run'[q].stream.id = run[q].stream.id
                            /\ run[q].stream # NoOutput
                         \/ run'[q].stream.id = messages + 1
                            /\ \A x \in news : x.by = q /\ x.kind \in Streams
    <3> SUFFICES ASSUME NEW q \in Runs
                 PROVE  \/ run'[q].stream = NoOutput
                        \/ run'[q].stream.id = run[q].stream.id /\ run[q].stream # NoOutput
                        \/ run'[q].stream.id = messages + 1
                           /\ \A x \in news : x.by = q /\ x.kind \in Streams
      BY <1>10
    <3>1. CASE q # r
      BY <1>10, <3>1
    <3>2. CASE q = r /\ grows
      BY <1>7, <1>10, <1>23, <3>2 DEF before
    <3>3. CASE q = r /\ ~ grows
      <4>1. run'[q].stream.id = messages + 1
        BY <1>7, <1>10, <1>23, <3>3 DEF m
      <4>2. \A x \in news : x.by = q /\ x.kind \in Streams
        BY <1>4, <1>20, <3>3
      <4> QED BY <4>1, <4>2
    <3> QED BY <3>1, <3>2, <3>3
  <2> QED BY <1>3, <1>20, <2>1, <2>2, StreamOwnKept
<1>26. StreamLast'
  <2> SUFFICES ASSUME NEW q \in Runs, run'[q].stream # NoOutput, run'[q].cell \notin spoiled',
                      ~ ClearedUnheard(q)'
               PROVE  LastIs(Outcome'[run'[q].cell], run'[q].stream)
    BY <1>10 DEF StreamLast
  <2>1. CASE q = r
    BY <1>7, <1>10, <1>11, <2>1 DEF mine
  <2>2. CASE q # r
    <3>1. run'[q] = run[q] /\ ~ ClearedUnheard(q) /\ run[q].cell \notin spoiled
          /\ run[q].cell \notin Misplaced(r)
      BY <1>2, <1>10, <2>2
    <3>2. run[q].cell # mine /\ run[q].cell \in Cells
      BY <1>1, <2>2, <3>1, OtherHandlers DEF mine
    <3>3. Outcome'[run[q].cell] = Outcome[run[q].cell]
      BY <1>11, <3>1, <3>2
    <3> QED BY <1>3, <3>1, <3>3 DEF StreamLast
  <2> QED BY <2>1, <2>2
<1>27. ClearInv'
  <2>1. \A q \in Runs : run'[q].clearNext = IF q = r THEN FALSE ELSE run[q].clearNext
    BY <1>7, <1>10
  <2>2. toClear = {q \in Runs : run[q].clearNext}
    BY <1>3 DEF ClearInv
  <2> QED BY <1>2, <1>10, <2>1, <2>2 DEF ClearInv
<1>28. NoneBefore'
  <2>1. \A q \in Runs' : run'[q].state = "clearing" =>
            /\ q \notin Runs \/ run[q].state = "clearing"
            /\ \A x \in news : x.by # q
    BY <1>1, <1>4, <1>10, <1>20 DEF Handles
  <2> QED BY <1>3, <1>20, <2>1, NoneBeforeKept
<1>29. ErrorInv'
  <2>1. \A q \in Runs' : run'[q].state = "executing" =>
            /\ q \in Runs /\ run[q].state = "executing" /\ run'[q].cell = run[q].cell
            /\ \/ run'[q].failed
               \/ /\ q \in misled => q \in misled'
                  /\ run[q].failed => run'[q].failed
                  /\ \A x \in news : x.by # q \/ x.kind # "error"
    <3>1. \A x \in news : x.kind # "error"
      BY <1>4, <1>20 DEF Streams
    <3>2. \A q \in Runs : run[q].failed => run'[q].failed
      BY <1>7, <1>10
    <3> QED BY <1>2, <1>10, <3>1, <3>2
  <2> QED BY <1>3, <1>20, <2>1, ErrorKept
<1>30. StartInv'
  <2>1. Quiet(edits', edits)
    <3> DEFINE a == IF grows THEN <<ReplaceItems(t, o)>>
                    ELSE IF run[r].clearNext
                    THEN <<Replace(t, <<>>), Replace(t, <<o>>)>>
                    ELSE <<Add(t, o)>>
    <3>1. edits' = edits \o a
      BY DEF Stream, grows, before, t, o, StreamOutput, Grown, m
    <3>2. /\ Replace(t, <<>>) \in GoodEdits /\ Replace(t, <<>>).start = 0
          /\ Replace(t, <<o>>) \in GoodEdits /\ Replace(t, <<o>>).start = 0
          /\ Add(t, o) \in GoodEdits /\ Add(t, o).start = 0
          /\ ReplaceItems(t, o) \in GoodEdits /\ ReplaceItems(t, o).start = 0
      BY <1>1, <1>5, EditKinds
    <3>3. a \in Seq(GoodEdits) /\ \A i \in DOMAIN a : a[i].start = 0
      BY <3>2
    <3>4. edits \in Seq(GoodEdits)
      BY <1>3, OutcomeType DEF Typed
    <3> HIDE DEF a
    <3> QED BY <3>1, <3>3, <3>4, QuietJoined
  <2>2. Quiet(events', events) /\ \A q \in Runs : run[q].state = "clearing" => run'[q].state = "clearing"
    BY <1>2, <1>10, QuietSame
  <2> QED BY <1>3, <2>1, <2>2, StartKept
<1> QED BY <1>10, <1>17, <1>19, <1>21, <1>22, <1>24, <1>25, <1>26, <1>27, <1>28, <1>29, <1>30
        DEF OutputsInv

LEMMA AddInvariant ==
  ASSUME OutputsInv, Typed', OneHandlerPerCell', NEW r \in Runs, NEW kind \in {"data", "error"},
         NEW d \in Displays \cup {NoDisplay}, AddToCellData(r, kind, d)
  PROVE  OutputsInv'
<1> DEFINE mine == run[r].cell
           t == TaskCell(r)
           new == NewOutput(r, kind, d)
           m == messages + 1
           h == HandlerAfter(r, kind)
           clears == run[r].clearNext /\ run[r].state = "executing"
           was == MeantBefore(r)
           w == Append(was, new)
<1>1. /\ run' = [run EXCEPT ![r] = h] /\ h \in Handler
      /\ Outcome' = IF clears /\ t = mine THEN [Outcome EXCEPT ![t] = <<new>>]
                    ELSE IF clears
                    THEN [Outcome EXCEPT ![mine] = <<>>, ![t] = Append(Outcome[t], new)]
                    ELSE [Outcome EXCEPT ![t] = Append(Outcome[t], new)]
      /\ meant' = [meant EXCEPT ![mine] = w] /\ Handles(r)
  BY AddStep DEF OutputsInv
<1>2. /\ messages < MaxMessages /\ messages' = m /\ events' = events
      /\ misled' = IF kind = "error" THEN misled \ {r} ELSE misled
      /\ toClear' = toClear \ {r}
      /\ spoiled' = spoiled \cup Misplaced(r)
                          \cup (IF run[r].clearNext /\ ~clears THEN {mine} ELSE {})
  BY DEF AddToCellData, AddToCell, Message
<1>3. /\ Typed /\ MadeInv /\ OwnInv /\ PiecesInv /\ StreamInv /\ StreamOwn /\ StreamLast
      /\ NoneBefore /\ ErrorInv /\ StartInv /\ TrackedInv /\ ShownTracked /\ MeantTracked
      /\ ClearInv /\ OneBusy
  BY DEF OutputsInv
<1>4. /\ m \in Chunks /\ messages \in Nat /\ m \in Nat /\ messages <= m
      /\ new \in CellOutput /\ new.id = m /\ new.kind = kind /\ new.by = r
      /\ new.display = d /\ new.text = <<m>>
  <2>1. kind \in Streams \cup {"data", "error"} /\ d \in Displays \cup {NoDisplay}
    OBVIOUS
  <2>2. /\ messages \in Nat /\ m \in Chunks /\ new \in CellOutput
        /\ new.id = m /\ new.kind = kind /\ new.by = r
        /\ new.display = d /\ new.text = <<m>>
    BY <1>2, <1>3, <2>1, NewOutputType
  <2> HIDE DEF new
  <2> QED BY <2>2
<1>5. kind \notin Streams
  BY DEF Streams
<1>6. /\ mine \in Cells /\ t \in Cells /\ run[r] \in Handler
      /\ t # mine => mine \in Misplaced(r) /\ t \in Misplaced(r)
  BY <1>3, HandlerFields, TaskCellType DEF Typed
<1>7. /\ h.cell = mine /\ h.state = run[r].state /\ h.stream = NoOutput
      /\ h.clearNext = FALSE /\ (h.failed <=> run[r].failed \/ kind = "error")
  BY <1>3, HandlerAfterFields
<1>8. Outcome \in Documents /\ meant \in Documents
  BY <1>3, OutcomeType DEF Typed
<1>9. /\ d = NoDisplay => tracked' = tracked /\ stray' = stray
      /\ d # NoDisplay => tracked' = [tracked EXCEPT ![d] = new] /\ stray' = stray \cup {tracked[d].id}
  <2>1. IF d = NoDisplay THEN UNCHANGED <<trackerVars, stray>> ELSE Track(run[r].cell, d, new)
    BY DEF AddToCellData, AddToCell
  <2>2. CASE d = NoDisplay
    BY <2>1, <2>2 DEF trackerVars
  <2>3. CASE d # NoDisplay
    <3> HIDE DEF new
    <3>1. Track(run[r].cell, d, new)
      BY <2>1, <2>3
    <3> QED BY <2>3, <3>1 DEF Track
  <2> QED BY <2>2, <2>3
<1>10. WellMade(new, m, Runs)
  <2> HIDE DEF new, m
  <2>1. Len(<<m>>) = 1
    OBVIOUS
  <2> QED BY <1>4, <1>5, <2>1 DEF WellMade
<1> HIDE DEF mine, t, new, m, h, was, w
<1>11. /\ RunsSame /\ Runs' = Runs /\ run'[r] = h /\ \A q \in Runs \ {r} : run'[q] = run[q]
       /\ \A q \in Runs : run'[q].cell = run[q].cell /\ run'[q].state = run[q].state
       /\ \A q \in Runs : ClearedUnheard(q)' <=> ClearedUnheard(q)
       /\ OneBusy'
  BY <1>1, <1>2, <1>7, MessageRuns DEF mine
<1>12. /\ \A c \in Cells : Good(Outcome'[c], m, Runs)
       /\ From(Outcome', Outcome, t, {new})
       /\ \A c \in Cells \ spoiled' : c # mine => Outcome'[c] = Outcome[c]
       /\ mine \notin spoiled'
            => Pieces(Outcome'[mine])
                 = (IF run[r].clearNext THEN <<>> ELSE Pieces(Outcome[mine])) \o PiecesOf(new)
  <2>1. new.id = messages + 1 /\ WellMade(new, messages + 1, Runs)
        /\ \A x \in Cells : Good(Outcome[x], messages, Runs)
    BY <1>3, <1>4, <1>10 DEF m, MadeInv
  <2>2. mine \notin spoiled' => t = mine /\ (run[r].clearNext => clears)
    BY <1>2, <1>6
  <2>3. \A c \in Cells \ spoiled' : c # mine => c # t
    BY <1>2, <1>6
  <2> HIDE DEF clears
  <2>4. /\ \A x \in Cells : Good([Outcome EXCEPT ![t] = <<new>>][x], messages + 1, Runs)
        /\ \A x \in Cells : Good([Outcome EXCEPT ![t] = Append(Outcome[t], new)][x],
                                  messages + 1, Runs)
        /\ [Outcome EXCEPT ![t] = <<new>>][t] = <<new>>
        /\ [Outcome EXCEPT ![t] = Append(Outcome[t], new)][t] = Append(Outcome[t], new)
        /\ LastIs(<<new>>, new) /\ LastIs(Append(Outcome[t], new), new)
        /\ \A x \in Cells : x # t => /\ [Outcome EXCEPT ![t] = <<new>>][x] = Outcome[x]
                                     /\ [Outcome EXCEPT ![t] = Append(Outcome[t], new)][x]
                                          = Outcome[x]
    BY <1>4, <1>6, <1>8, <2>1, OutputAdded
  <2>5. /\ From([Outcome EXCEPT ![t] = Append(Outcome[t], new)], Outcome, t, {new})
        /\ From([Outcome EXCEPT ![t] = <<new>>], Outcome, t, {new})
    BY <1>6, <1>8, FromAppended
  <2>6. CASE clears /\ t = mine
    <3>1. Outcome' = [Outcome EXCEPT ![t] = <<new>>]
      BY <1>1, <2>6
    <3>2. Pieces(<<new>>) = <<>> \o PiecesOf(new)
      <4>1. Append(<<>>, new) = <<new>> /\ <<>> \in Seq(CellOutput)
        OBVIOUS
      <4>2. Pieces(Append(<<>>, new)) = Pieces(<<>>) \o PiecesOf(new)
        BY <1>4, <4>1, PiecesAppend
      <4> QED BY <4>1, <4>2, PiecesEmpty
    <3>3. run[r].clearNext
      BY <2>6 DEF clears
    <3> QED BY <2>3, <2>4, <2>5, <2>6, <3>1, <3>2, <3>3 DEF m
  <2>7. CASE clears /\ t # mine
    <3> DEFINE cut == [Outcome EXCEPT ![mine] = <<>>]
    <3>1. Outcome' = [cut EXCEPT ![t] = Append(cut[t], new)] /\ cut \in Documents
      <4>1. cut[t] = Outcome[t] /\ cut \in Documents
        BY <1>6, <1>8, <2>7 DEF Documents
      <4>2. Outcome' = [cut EXCEPT ![t] = Append(Outcome[t], new)]
        BY <1>1, <2>7
      <4> QED BY <4>1, <4>2
    <3>2. \A x \in Cells : Good(cut[x], messages, Runs)
      <4>1. \A x \in Cells : cut[x] = IF x = mine THEN <<>> ELSE Outcome[x]
        BY <1>6, <1>8 DEF Documents
      <4> QED BY <2>1, <4>1, GoodEmpty
    <3>3. From(cut, Outcome, t, {new})
      BY <1>6, <1>8, FromEmptied
    <3>4. /\ \A x \in Cells : cut[x] = IF x = mine THEN <<>> ELSE Outcome[x]
      BY <1>6, <1>8 DEF Documents
    <3> HIDE DEF cut
    <3>5. /\ \A x \in Cells : Good([cut EXCEPT ![t] = Append(cut[t], new)][x], messages + 1, Runs)
          /\ \A x \in Cells : x # t => [cut EXCEPT ![t] = Append(cut[t], new)][x] = cut[x]
      <4>1. t \in Cells /\ new \in CellOutput /\ cut \in Documents /\ messages \in Nat
        <5>1. t \in Cells
          BY <1>6
        <5>2. new \in CellOutput /\ messages \in Nat
          BY <1>4
        <5> QED BY <3>1, <5>1, <5>2
      <4>2. new.id = messages + 1 /\ WellMade(new, messages + 1, Runs)
        BY <2>1
      <4>3. /\ \A x \in Cells : Good([cut EXCEPT ![t] = <<new>>][x], messages + 1, Runs)
            /\ \A x \in Cells : Good([cut EXCEPT ![t] = Append(cut[t], new)][x],
                                     messages + 1, Runs)
            /\ [cut EXCEPT ![t] = <<new>>][t] = <<new>>
            /\ [cut EXCEPT ![t] = Append(cut[t], new)][t] = Append(cut[t], new)
            /\ LastIs(<<new>>, new) /\ LastIs(Append(cut[t], new), new)
            /\ \A x \in Cells : x # t => /\ [cut EXCEPT ![t] = <<new>>][x] = cut[x]
                                         /\ [cut EXCEPT ![t] = Append(cut[t], new)][x] = cut[x]
        BY <3>2, <4>1, <4>2, OutputAdded
      <4> QED BY <4>3
    <3>6. From([cut EXCEPT ![t] = Append(cut[t], new)], cut, t, {new})
      BY <1>6, <3>1, FromAppended
    <3>7. From(Outcome', Outcome, t, {new})
      <4> SUFFICES ASSUME NEW c \in Cells, NEW i \in DOMAIN Outcome'[c]
                   PROVE  \/ \E j \in DOMAIN Outcome[c] : Like(Outcome'[c][i], Outcome[c][j])
                          \/ c = t /\ \E x \in {new} : Like(Outcome'[c][i], x)
        BY DEF From
      <4>1. CASE c = t /\ \E x \in {new} : Like(Outcome'[c][i], x)
        BY <4>1
      <4>2. CASE \E j \in DOMAIN cut[c] : Like(Outcome'[c][i], cut[c][j])
        <5>1. cut[c] # <<>>
          BY <4>2
        <5>2. cut[c] = Outcome[c]
          BY <3>4, <5>1
        <5> QED BY <4>2, <5>2
      <4> QED BY <3>1, <3>6, <4>1, <4>2 DEF From
    <3>8. \A c \in Cells \ spoiled' : c # mine => Outcome'[c] = Outcome[c]
      BY <2>3, <3>1, <3>4, <3>5
    <3>9. mine \in spoiled'
      BY <2>2, <2>7
    <3> QED BY <3>1, <3>5, <3>7, <3>8, <3>9 DEF m
  <2>8. CASE ~ clears
    <3>1. Outcome' = [Outcome EXCEPT ![t] = Append(Outcome[t], new)]
      BY <1>1, <2>8
    <3>2. Pieces(Append(Outcome[t], new)) = Pieces(Outcome[t]) \o PiecesOf(new)
      <4>1. Outcome[t] \in Seq(CellOutput)
        BY <1>6, <1>8 DEF Documents
      <4> QED BY <1>4, <4>1, PiecesAppend
    <3> QED BY <2>2, <2>3, <2>4, <2>5, <2>8, <3>1, <3>2 DEF m
  <2> QED BY <2>6, <2>7, <2>8
<1> HIDE DEF clears
<1>13. run[r].clearNext <=> r \in toClear
  BY <1>3 DEF ClearInv
<1>14. /\ Good(was, messages, Runs) /\ was \in Seq(CellOutput)
       /\ was = IF run[r].clearNext THEN <<>> ELSE meant[mine]
  <2>1. was = IF run[r].clearNext THEN <<>> ELSE meant[mine]
    BY <1>13 DEF was, MeantBefore, mine
  <2>2. Good(meant[mine], messages, Runs) /\ meant[mine] \in Seq(CellOutput)
    BY <1>3, <1>6, <1>8 DEF MadeInv, Documents
  <2>3. <<>> \in Seq(CellOutput)
    OBVIOUS
  <2> QED BY <2>1, <2>2, <2>3, GoodEmpty
<1>15. /\ Pieces(w) = Pieces(was) \o PiecesOf(new)
       /\ Good(w, m, Runs)
       /\ \A i \in DOMAIN w : (\E j \in DOMAIN was : Like(w[i], was[j])) \/ Like(w[i], new)
  <2>1. Pieces(w) = Pieces(was) \o PiecesOf(new)
    BY <1>4, <1>14, PiecesAppend DEF w
  <2>2. Good(w, m, Runs)
    <3>1. Good(was, messages, Runs) /\ new.id = messages + 1 /\ WellMade(new, messages + 1, Runs)
      BY <1>4, <1>10, <1>14 DEF m
    <3> QED BY <1>4, <1>14, <3>1, GoodAppend DEF w, m
  <2>3. /\ DOMAIN w = 1..(Len(was) + 1) /\ w[Len(was) + 1] = new /\ DOMAIN was = 1..Len(was)
        /\ \A i \in 1..Len(was) : w[i] = was[i]
        /\ Len(was) \in Nat
    BY <1>14 DEF w
  <2>4. \A i \in DOMAIN w : i = Len(was) + 1 \/ i \in DOMAIN was
    BY <2>3
  <2>5. \A i \in DOMAIN w : (\E j \in DOMAIN was : Like(w[i], was[j])) \/ Like(w[i], new)
    BY <2>3, <2>4 DEF Like
  <2> QED BY <2>1, <2>2, <2>5
<1>16. meant'[mine] = w /\ \A c \in Cells : c # mine => meant'[c] = meant[c]
  BY <1>1, <1>6, <1>8 DEF Documents
<1>17. From(meant', meant, mine, {new})
  <2> SUFFICES ASSUME NEW c \in Cells, NEW i \in DOMAIN meant'[c]
               PROVE  \/ \E j \in DOMAIN meant[c] : Like(meant'[c][i], meant[c][j])
                      \/ c = mine /\ \E x \in {new} : Like(meant'[c][i], x)
    BY DEF From
  <2>1. CASE c # mine
    BY <1>16, <2>1 DEF Like
  <2>2. CASE c = mine
    <3>1. i \in DOMAIN w /\ meant'[c][i] = w[i]
      BY <1>16, <2>2
    <3>2. CASE Like(w[i], new)
      BY <2>2, <3>1, <3>2
    <3>3. CASE \E j \in DOMAIN was : Like(w[i], was[j])
      <4>1. was = meant[mine]
        BY <1>14, <3>3
      <4> QED BY <2>2, <3>1, <3>3, <4>1
    <3> QED BY <1>15, <3>1, <3>2, <3>3
  <2> QED BY <2>1, <2>2
<1>18. MadeInv' /\ OwnInv' /\ PiecesInv'
  <2>1. \A c \in Cells : Good(Outcome'[c], messages + 1, Runs) /\ Good(meant'[c], messages + 1, Runs)
    <3>1. ASSUME NEW c \in Cells PROVE Good(meant'[c], m, Runs)
      <4>1. CASE c = mine
        BY <1>15, <1>16, <4>1
      <4>2. CASE c # mine
        <5>1. meant[c] \in Seq(CellOutput) /\ Good(meant[c], messages, Runs) /\ Runs \subseteq Runs
          BY <1>3, ShownFacts
        <5>2. Good(meant[c], m, Runs)
          BY <1>4, <5>1, GoodLater
        <5> QED BY <1>16, <4>2, <5>2
      <4> QED BY <4>1, <4>2
    <3> QED BY <1>12, <3>1 DEF m
  <2>2. \A c \in Cells \ spoiled' : c # run[r].cell => Outcome'[c] = Outcome[c] /\ meant'[c] = meant[c]
    BY <1>12, <1>16 DEF mine
  <2>3. t # run[r].cell => t \in spoiled'
    BY <1>2, <1>6 DEF mine
  <2>4. run[r].cell \notin spoiled' => Pieces(Outcome'[run[r].cell]) = Pieces(meant'[run[r].cell])
    <3> SUFFICES ASSUME mine \notin spoiled' PROVE Pieces(Outcome'[mine]) = Pieces(meant'[mine])
      BY DEF mine
    <3>1. Pieces(meant[mine]) = Pieces(Outcome[mine])
      BY <1>2, <1>3, <1>6 DEF PiecesInv
    <3>2. Pieces(meant'[mine]) = Pieces(was) \o PiecesOf(new)
      BY <1>15, <1>16
    <3>3. Pieces(was) = IF run[r].clearNext THEN <<>> ELSE Pieces(Outcome[mine])
      BY <1>14, <3>1, PiecesEmpty
    <3> QED BY <1>12, <3>2, <3>3
  <2>5. messages' = messages + 1 /\ spoiled \subseteq spoiled'
    BY <1>2 DEF m
  <2> QED BY <1>4, <1>6, <1>11, <1>12, <2>1, <2>2, <2>3, <2>4, <2>5, MessageKept
<1>19. messages' \in Nat /\ messages <= messages'
  BY <1>2, <1>4
<1>20. \A e \in Displays : /\ e = d => tracked'[e] = new /\ tracked[e].id \in stray'
                           /\ e # d => tracked'[e] = tracked[e]
  <2>1. tracked \in [Displays -> CellOutput \cup {NoOutput}] /\ NoDisplay \notin Displays
    BY <1>3, Sizes DEF Typed, OutputsTypeOK
  <2> TAKE e \in Displays
  <2>2. CASE e = d
    <3>1. d # NoDisplay /\ d \in Displays
      BY <2>1, <2>2
    <3>2. tracked' = [tracked EXCEPT ![d] = new] /\ stray' = stray \cup {tracked[d].id}
      BY <1>9, <3>1
    <3>3. tracked'[d] = new /\ tracked[d].id \in stray'
      BY <2>1, <3>1, <3>2
    <3> QED BY <2>2, <3>3
  <2>3. CASE e # d
    <3>1. CASE d = NoDisplay
      <4>1. tracked' = tracked
        BY <1>9, <3>1
      <4> QED BY <2>3, <4>1
    <3>2. CASE d # NoDisplay
      <4>1. tracked' = [tracked EXCEPT ![d] = new]
        BY <1>9, <3>2
      <4>2. tracked'[e] = tracked[e]
        BY <2>1, <2>3, <4>1
      <4> QED BY <2>3, <4>2
    <3> QED BY <3>1, <3>2
  <2> QED BY <2>2, <2>3
<1>21. TrackedInv'
  <2> SUFFICES ASSUME NEW e \in Displays
               PROVE  /\ tracked'[e].id <= messages'
                      /\ tracked'[e] # NoOutput => tracked'[e].display = e /\ tracked'[e].kind \notin Streams
    BY DEF TrackedInv
  <2>1. CASE e = d
    BY <1>2, <1>4, <1>5, <1>20, <2>1
  <2>2. CASE e # d
    <3>1. tracked[e].id \in Nat
      <4>1. tracked[e] \in CellOutput \cup {NoOutput}
        BY <1>3 DEF Typed, OutputsTypeOK
      <4>2. \A x \in CellOutput : x.id \in Nat
        BY Sizes DEF CellOutput
      <4>3. NoOutput.id = 0
        BY DEF NoOutput
      <4> QED BY <4>1, <4>2, <4>3
    <3>2. /\ tracked[e].id <= messages
          /\ tracked[e] # NoOutput => tracked[e].display = e /\ tracked[e].kind \notin Streams
      BY <1>3 DEF TrackedInv
    <3>3. tracked[e].id <= messages'
      BY <1>4, <1>19, <3>1, <3>2
    <3> QED BY <1>20, <2>2, <3>2, <3>3
  <2> QED BY <2>1, <2>2
<1> DEFINE news == {new}
<1>22. /\ \A x \in news : x = new
       /\ From(Outcome', Outcome, t, news) /\ From(meant', meant, mine, news)
  BY <1>12, <1>17
<1> HIDE DEF news
<1>23. ShownTracked'
  <2>1. \A x \in news : x.id = messages + 1
    BY <1>4, <1>22 DEF m
  <2>2. \A e \in Displays : \/ tracked'[e] = tracked[e]
                            \/ tracked'[e] = NoOutput /\ news = {}
                            \/ /\ tracked'[e].id = messages + 1
                               /\ \A x \in news : x.display = e
    BY <1>4, <1>20, <1>22 DEF m
  <2> QED BY <1>3, <1>22, <2>1, <2>2, ShownTrackedKept
<1>24. MeantTracked'
  <2>1. \A c \in Cells \ spoiled' : c \notin spoiled \/ meant'[c] = <<>>
    BY <1>2
  <2>2. \A x \in news : x.display \in Displays => tracked'[x.display].id = x.id
    BY <1>4, <1>20, <1>22
  <2>3. stray \subseteq stray' /\ \A e \in Displays : tracked'[e] = tracked[e] \/ tracked[e].id \in stray'
    <3>1. stray \subseteq stray'
      <4>1. CASE d = NoDisplay
        BY <1>9, <4>1
      <4>2. CASE d # NoDisplay
        <5>1. stray' = stray \cup {tracked[d].id}
          BY <1>9, <4>2
        <5> QED BY <5>1
      <4> QED BY <4>1, <4>2
    <3>2. \A e \in Displays : tracked'[e] = tracked[e] \/ tracked[e].id \in stray'
      BY <1>20
    <3> QED BY <3>1, <3>2
  <2> QED BY <1>3, <1>22, <2>1, <2>2, <2>3, MeantTrackedKept
<1>25. StreamInv'
  <2>1. \A q \in Runs : /\ run'[q].stream \in {NoOutput, run[q].stream}
                        /\ run'[q].state \in {"clearing", "over"} => run'[q].stream = NoOutput
    <3> TAKE q \in Runs
    <3>1. run[q].state \in {"clearing", "over"} => run[q].stream = NoOutput
      BY <1>3 DEF StreamInv
    <3>2. CASE q = r
      BY <1>7, <1>11, <3>2
    <3>3. CASE q # r
      BY <1>11, <3>1, <3>3
    <3> QED BY <3>2, <3>3
  <2> QED BY <1>3, <1>11, <1>19, <2>1, StreamKept
<1>26. StreamOwn'
  <2>1. \A x \in news : x.id = messages + 1
    BY <1>4, <1>22 DEF m
  <2>2. \A q \in Runs' : \/ run'[q].stream = NoOutput
                         \/ q \in Runs /\ run'[q].stream.id = run[q].stream.id
                            /\ run[q].stream # NoOutput
                         \/ run'[q].stream.id = messages + 1
                            /\ \A x \in news : x.by = q /\ x.kind \in Streams
    BY <1>7, <1>11
  <2> QED BY <1>3, <1>22, <2>1, <2>2, StreamOwnKept
<1>27. StreamLast'
  <2> SUFFICES ASSUME NEW q \in Runs, run'[q].stream # NoOutput, run'[q].cell \notin spoiled',
                      ~ ClearedUnheard(q)'
               PROVE  LastIs(Outcome'[run'[q].cell], run'[q].stream)
    BY <1>11 DEF StreamLast
  <2>1. q # r
    BY <1>7, <1>11
  <2>2. run'[q] = run[q] /\ ~ ClearedUnheard(q) /\ run[q].cell \notin spoiled
        /\ run[q].cell \notin Misplaced(r)
    BY <1>2, <1>11, <2>1
  <2>3. run[q].cell # mine /\ run[q].cell \in Cells
    BY <1>1, <2>1, <2>2, OtherHandlers DEF mine
  <2>4. Outcome'[run[q].cell] = Outcome[run[q].cell]
    BY <1>12, <2>2, <2>3
  <2> QED BY <1>3, <2>2, <2>4 DEF StreamLast
<1>28. ClearInv'
  <2>1. \A q \in Runs : run'[q].clearNext = IF q = r THEN FALSE ELSE run[q].clearNext
    BY <1>7, <1>11
  <2>2. toClear = {q \in Runs : run[q].clearNext}
    BY <1>3 DEF ClearInv
  <2> QED BY <1>2, <1>11, <2>1, <2>2 DEF ClearInv
<1>29. NoneBefore'
  <2>1. \A q \in Runs' : run'[q].state = "clearing" =>
            /\ q \notin Runs \/ run[q].state = "clearing"
            /\ \A x \in news : x.by # q
    BY <1>1, <1>4, <1>11, <1>22 DEF Handles
  <2> QED BY <1>3, <1>22, <2>1, NoneBeforeKept
<1>30. ErrorInv'
  <2>1. \A q \in Runs' : run'[q].state = "executing" =>
            /\ q \in Runs /\ run[q].state = "executing" /\ run'[q].cell = run[q].cell
            /\ \/ run'[q].failed
               \/ /\ q \in misled => q \in misled'
                  /\ run[q].failed => run'[q].failed
                  /\ \A x \in news : x.by # q \/ x.kind # "error"
    <3> SUFFICES ASSUME NEW q \in Runs
                 PROVE  \/ run'[q].failed
                        \/ /\ q \in misled => q \in misled'
                           /\ run[q].failed => run'[q].failed
                           /\ \A x \in news : x.by # q \/ x.kind # "error"
      BY <1>11
    <3>1. CASE q = r /\ kind = "error"
      BY <1>7, <1>11, <3>1
    <3>2. CASE q = r /\ kind # "error"
      BY <1>2, <1>4, <1>7, <1>11, <1>22, <3>2
    <3>3. CASE q # r
      BY <1>2, <1>4, <1>11, <1>22, <3>3
    <3> QED BY <3>1, <3>2, <3>3
  <2> QED BY <1>3, <1>22, <2>1, ErrorKept
<1>31. StartInv'
  <2>1. Quiet(edits', edits)
    <3> DEFINE a == IF clears THEN <<Replace(mine, <<>>)>> ELSE <<>>
               b == <<Add(t, new)>>
    <3>1. edits' = edits \o a \o b
      BY DEF AddToCellData, AddToCell, clears, mine, t, new
    <3>2. /\ Replace(mine, <<>>) \in GoodEdits /\ Replace(mine, <<>>).start = 0
          /\ Add(t, new) \in GoodEdits /\ Add(t, new).start = 0
      BY <1>4, <1>6, EditKinds
    <3>3. /\ a \in Seq(GoodEdits) /\ \A i \in DOMAIN a : a[i].start = 0
          /\ b \in Seq(GoodEdits) /\ \A i \in DOMAIN b : b[i].start = 0
      BY <3>2
    <3>4. edits \in Seq(GoodEdits)
      BY <1>3, OutcomeType DEF Typed
    <3> HIDE DEF a, b
    <3>5. edits \o a \in Seq(GoodEdits)
      BY <3>3, <3>4
    <3>6. Quiet(edits \o a, edits) /\ Quiet((edits \o a) \o b, edits \o a)
      BY <3>3, <3>4, <3>5, QuietJoined
    <3> QED BY <3>1, <3>6, QuietTwice
  <2>2. Quiet(events', events) /\ \A q \in Runs : run[q].state = "clearing" => run'[q].state = "clearing"
    BY <1>2, <1>11, QuietSame
  <2> QED BY <1>3, <2>1, <2>2, StartKept
<1> QED BY <1>11, <1>18, <1>21, <1>23, <1>24, <1>25, <1>26, <1>27, <1>28, <1>29, <1>30, <1>31
        DEF OutputsInv

LEMMA CompletedWithErrorsInv ==
  ASSUME OutputsInv, Typed', OneHandlerPerCell', NEW r \in 1..MaxRuns, CompletedWithErrors(r)
  PROVE  OutputsInv'
<1> DEFINE h == [run[r] EXCEPT !.state = IF run[r].comms THEN "listening" ELSE "over",
                               !.stream = NoOutput, !.reported = "failed"]
           new == NewOutput(r, "error", NoDisplay)
           c == run[r].cell
           m == messages + 1
           news == {new}
<1>1. /\ RunEnds(r, "failed") /\ messages < MaxMessages /\ messages' = m
      /\ edits' = Append(edits, Add(c, new))
      /\ tracked' = tracked /\ events' = events /\ toClear' = toClear /\ stray' = stray
      /\ misled' = misled /\ spoiled' = spoiled
  BY DEF CompletedWithErrors, trackerVars
<1>2. /\ r \in Runs /\ run[r].state = "executing" /\ Runs' = Runs
      /\ run'[r] = h /\ \A q \in Runs \ {r} : run'[q] = run[q]
  BY <1>1, EndStep DEF OutputsInv
<1>3. /\ h.cell = run[r].cell /\ h.stream = NoOutput /\ h.clearNext = run[r].clearNext
      /\ h.state \in {"listening", "over"}
  BY <1>2, HandlerFields DEF OutputsInv, Typed, Handler
<1> HIDE DEF h
<1>4. /\ Outcome' = [Outcome EXCEPT ![c] = Append(Outcome[c], new)]
      /\ meant' = [meant EXCEPT ![c] = Append(meant[c], new)]
  BY <1>2, CompletedWithErrorsStep DEF OutputsInv
<1>5. /\ Typed /\ MadeInv /\ PiecesInv /\ StreamInv /\ StreamOwn /\ StreamLast
      /\ NoneBefore /\ ErrorInv /\ StartInv /\ TrackedInv /\ ShownTracked /\ MeantTracked
      /\ ClearInv /\ OneBusy
  BY DEF OutputsInv
<1>6. /\ messages \in Nat /\ m \in Chunks /\ new \in CellOutput /\ new.id = m
      /\ new.kind = "error" /\ new.by = r /\ new.display = NoDisplay /\ new.text = <<m>>
  <2>1. "error" \in Streams \cup {"data", "error"} /\ NoDisplay \in Displays \cup {NoDisplay}
    OBVIOUS
  <2>2. r \in Runs /\ messages < MaxMessages
    BY <1>1, <1>2
  <2>3. /\ messages \in Nat /\ m \in Chunks
        /\ new \in CellOutput
        /\ new.id = m /\ new.kind = "error"
        /\ new.by = r /\ new.display = NoDisplay
        /\ new.text = <<m>>
    BY <1>5, <2>1, <2>2, NewOutputType
  <2> HIDE DEF new
  <2> QED BY <2>3
<1>7. m \in Nat /\ messages <= m
  BY <1>6
<1>8. WellMade(new, m, Runs)
  <2> HIDE DEF new, m
  <2>1. "error" \notin Streams /\ Len(<<m>>) = 1
    BY DEF Streams
  <2> QED BY <1>2, <1>6, <1>7, <2>1 DEF WellMade
<1> HIDE DEF new, news
<1>9. c \in Cells /\ Outcome \in Documents /\ meant \in Documents
  BY <1>2, <1>5, HandlerFields, OutcomeType DEF Typed
<1>10. RunsSame /\ \A q \in Runs : run'[q].cell = run[q].cell
  BY <1>2, <1>3 DEF RunsSame
<1> HIDE DEF c
<1>11. /\ \A x \in Cells : Good(Outcome'[x], messages + 1, Runs)
       /\ \A x \in Cells : x # c => Outcome'[x] = Outcome[x]
       /\ Outcome'[c] = Append(Outcome[c], new)
  <2>1. \A x \in Cells : Good(Outcome[x], messages, Runs)
    BY <1>5 DEF MadeInv
  <2>2. new.id = messages + 1 /\ WellMade(new, messages + 1, Runs)
    BY <1>6, <1>8 DEF m
  <2>3. /\ \A x \in Cells : Good([Outcome EXCEPT ![c] = <<new>>][x], messages + 1, Runs)
        /\ \A x \in Cells : Good([Outcome EXCEPT ![c] = Append(Outcome[c], new)][x],
                                  messages + 1, Runs)
        /\ [Outcome EXCEPT ![c] = <<new>>][c] = <<new>>
        /\ [Outcome EXCEPT ![c] = Append(Outcome[c], new)][c] = Append(Outcome[c], new)
        /\ LastIs(<<new>>, new) /\ LastIs(Append(Outcome[c], new), new)
        /\ \A x \in Cells : x # c => /\ [Outcome EXCEPT ![c] = <<new>>][x] = Outcome[x]
                                     /\ [Outcome EXCEPT ![c] = Append(Outcome[c], new)][x]
                                          = Outcome[x]
    BY <1>6, <1>9, <2>1, <2>2, OutputAdded
  <2> QED BY <1>4, <2>3
<1>12. /\ \A x \in Cells : Good(meant'[x], messages + 1, Runs)
       /\ \A x \in Cells : x # c => meant'[x] = meant[x]
       /\ meant'[c] = Append(meant[c], new)
  <2>1. \A x \in Cells : Good(meant[x], messages, Runs)
    BY <1>5 DEF MadeInv
  <2>2. new.id = messages + 1 /\ WellMade(new, messages + 1, Runs)
    BY <1>6, <1>8 DEF m
  <2>3. /\ \A x \in Cells : Good([meant EXCEPT ![c] = <<new>>][x], messages + 1, Runs)
        /\ \A x \in Cells : Good([meant EXCEPT ![c] = Append(meant[c], new)][x],
                                  messages + 1, Runs)
        /\ [meant EXCEPT ![c] = <<new>>][c] = <<new>>
        /\ [meant EXCEPT ![c] = Append(meant[c], new)][c] = Append(meant[c], new)
        /\ LastIs(<<new>>, new) /\ LastIs(Append(meant[c], new), new)
        /\ \A x \in Cells : x # c => /\ [meant EXCEPT ![c] = <<new>>][x] = meant[x]
                                     /\ [meant EXCEPT ![c] = Append(meant[c], new)][x]
                                          = meant[x]
    BY <1>6, <1>9, <2>1, <2>2, OutputAdded
  <2> QED BY <1>4, <2>3
<1>13. /\ From(Outcome', Outcome, c, {new}) /\ From(meant', meant, c, {new})
       /\ news = {new} /\ \A x \in news : x = new
  BY <1>4, <1>9, FromAppended DEF news
<1>14. Pieces(Outcome'[c]) = Pieces(Outcome[c]) \o PiecesOf(new)
       /\ Pieces(meant'[c]) = Pieces(meant[c]) \o PiecesOf(new)
  <2>1. Outcome[c] \in Seq(CellOutput) /\ meant[c] \in Seq(CellOutput)
    BY <1>9 DEF Documents
  <2> QED BY <1>6, <1>11, <1>12, <2>1, PiecesAppend
<1>15. MadeInv' /\ OwnInv' /\ PiecesInv'
  <2>1. \A x \in Cells : Good(Outcome'[x], messages + 1, Runs) /\ Good(meant'[x], messages + 1, Runs)
    BY <1>11, <1>12
  <2>2. \A x \in Cells \ spoiled' : x # run[r].cell => Outcome'[x] = Outcome[x] /\ meant'[x] = meant[x]
    BY <1>11, <1>12 DEF c
  <2>3. run[r].cell \notin spoiled' => Pieces(Outcome'[run[r].cell]) = Pieces(meant'[run[r].cell])
    BY <1>1, <1>5, <1>9, <1>14 DEF PiecesInv, c
  <2>4. messages' = messages + 1 /\ spoiled \subseteq spoiled' /\ new.by = r /\ r \in Runs
    BY <1>1, <1>2, <1>6 DEF m
  <2>5. c # run[r].cell => c \in spoiled'
    BY DEF c
  <2> QED BY <1>6, <1>9, <1>10, <1>13, <2>1, <2>2, <2>3, <2>4, <2>5, MessageKept
<1>16. messages' \in Nat /\ messages <= messages'
  BY <1>1, <1>7
<1>17. TrackedInv'
  BY <1>1, <1>5, <1>16, TrackedKept
<1>18. From(Outcome', Outcome, c, news) /\ From(meant', meant, c, news)
  BY <1>13
<1>19. ShownTracked'
  <2> SUFFICES ASSUME NEW d \in Displays, NEW x \in Cells, NEW i \in DOMAIN Outcome'[x],
                      Outcome'[x][i].id = tracked'[d].id
               PROVE  Outcome'[x][i].display = d
    BY DEF ShownTracked
  <2>0. Outcome'[x][i].id = tracked[d].id
    BY <1>1
  <2>1. CASE \E j \in DOMAIN Outcome[x] : Like(Outcome'[x][i], Outcome[x][j])
    <3>1. PICK j \in DOMAIN Outcome[x] : Like(Outcome'[x][i], Outcome[x][j])
      BY <2>1
    <3>2. Outcome[x][j].id = tracked[d].id /\ Outcome'[x][i].display = Outcome[x][j].display
      BY <2>0, <3>1 DEF Like
    <3>3. Outcome[x][j].display = d
      BY <1>5, <3>2 DEF ShownTracked
    <3> QED BY <3>2, <3>3
  <2>2. CASE \E o \in news : Like(Outcome'[x][i], o)
    <3>1. tracked[d].id = m
      BY <1>6, <1>13, <2>0, <2>2 DEF Like
    <3>2. tracked[d].id <= messages
      BY <1>5 DEF TrackedInv
    <3> QED BY <1>6, <3>1, <3>2 DEF m
  <2> QED BY <1>18, <2>1, <2>2 DEF From
<1>20. MeantTracked'
  <2>1. \A x \in Cells \ spoiled' : x \notin spoiled \/ meant'[x] = <<>>
    BY <1>1
  <2>2. \A x \in news : x.display \in Displays => tracked'[x.display].id = x.id
    BY <1>6, <1>13, Sizes
  <2>3. stray \subseteq stray' /\ \A e \in Displays : tracked'[e] = tracked[e] \/ tracked[e].id \in stray'
    BY <1>1
  <2> QED BY <1>5, <1>18, <2>1, <2>2, <2>3, MeantTrackedKept
<1>21. \A q \in Runs : /\ run'[q].stream \in {NoOutput, run[q].stream}
                       /\ run'[q].state \in {"clearing", "over"} => run'[q].stream = NoOutput
                       /\ run'[q].clearNext = run[q].clearNext
                       /\ (run'[q].state = "clearing" <=> run[q].state = "clearing")
                       /\ run'[q].state = "executing" => q # r
  <2> TAKE q \in Runs
  <2>1. run[q].state \in {"clearing", "over"} => run[q].stream = NoOutput
    BY <1>5 DEF StreamInv
  <2>2. CASE q = r
    BY <1>2, <1>3, <2>2
  <2>3. CASE q # r
    BY <1>2, <2>1, <2>3
  <2> QED BY <2>2, <2>3
<1>22. StreamInv'
  BY <1>2, <1>5, <1>16, <1>21, StreamKept
<1>23. StreamOwn'
  <2>1. \A x \in news : x.id = messages + 1
    BY <1>6, <1>13 DEF m
  <2>2. \A q \in Runs' : \/ run'[q].stream = NoOutput
                         \/ q \in Runs /\ run'[q].stream.id = run[q].stream.id
                            /\ run[q].stream # NoOutput
                         \/ run'[q].stream.id = messages + 1
                            /\ \A x \in news : x.by = q /\ x.kind \in Streams
    BY <1>2, <1>21
  <2> QED BY <1>5, <1>18, <2>1, <2>2, StreamOwnKept
<1>24. \A q \in Runs : ClearedUnheard(q)' <=> ClearedUnheard(q)
  <2>1. \A q \in Runs : run'[q].state = "clearing" <=> run[q].state = "clearing"
    BY <1>21
  <2> QED BY <1>1, <1>10, <2>1, UnheardSame
<1>25. StreamLast'
  <2> SUFFICES ASSUME NEW q \in Runs, run'[q].stream # NoOutput, run'[q].cell \notin spoiled',
                      ~ ClearedUnheard(q)'
               PROVE  LastIs(Outcome'[run'[q].cell], run'[q].stream)
    BY <1>2 DEF StreamLast
  <2>1. q # r
    BY <1>2, <1>3
  <2>2. run'[q] = run[q] /\ ~ ClearedUnheard(q) /\ run[q].cell \notin spoiled
    BY <1>1, <1>2, <1>24, <2>1
  <2>3. Handles(r) /\ run[q].cell \notin Misplaced(r)
    BY <1>2 DEF Handles, Misplaced, TaskCell
  <2>4. run[q].cell # c /\ run[q].cell \in Cells
    BY <1>2, <2>1, <2>2, <2>3, OtherHandlers DEF c
  <2>5. Outcome'[run[q].cell] = Outcome[run[q].cell]
    BY <1>11, <2>4
  <2> QED BY <1>5, <2>2, <2>5 DEF StreamLast
<1>26. ClearInv'
  BY <1>1, <1>2, <1>5, <1>21 DEF ClearInv
<1>27. NoneBefore'
  <2>1. \A q \in Runs' : run'[q].state = "clearing" =>
            /\ q \notin Runs \/ run[q].state = "clearing"
            /\ \A x \in news : x.by # q
    BY <1>2, <1>3, <1>6, <1>13, <1>21
  <2> QED BY <1>5, <1>18, <2>1, NoneBeforeKept
<1>28. ErrorInv'
  <2>1. \A q \in Runs' : run'[q].state = "executing" =>
            /\ q \in Runs /\ run[q].state = "executing" /\ run'[q].cell = run[q].cell
            /\ \/ run'[q].failed
               \/ /\ q \in misled => q \in misled'
                  /\ run[q].failed => run'[q].failed
                  /\ \A x \in news : x.by # q \/ x.kind # "error"
    BY <1>1, <1>2, <1>3, <1>6, <1>13, <1>21
  <2> QED BY <1>5, <1>18, <2>1, ErrorKept
<1>29. StartInv'
  <2>1. Quiet(edits', edits)
    <3>1. Add(c, new).start = 0 /\ edits \in Seq(GoodEdits)
      BY <1>5, <1>6, <1>9, EditKinds, OutcomeType DEF Typed
    <3> QED BY <1>1, <3>1, QuietAppend
  <2>2. Quiet(events', events) /\ \A q \in Runs : run[q].state = "clearing" => run'[q].state = "clearing"
    BY <1>1, <1>21, QuietSame
  <2> QED BY <1>5, <2>1, <2>2, StartKept
<1>30. OneBusy'
  <2>1. \A q \in Runs : run'[q].state \in {"clearing", "executing"}
                           => run[q].state \in {"clearing", "executing"}
    <3> TAKE q \in Runs
    <3>1. CASE q = r
      BY <1>2, <1>3, <3>1
    <3>2. CASE q # r
      BY <1>2, <3>2
    <3> QED BY <3>1, <3>2
  <2> QED BY <1>2, <1>5, <2>1, BusyKept
<1> QED BY <1>15, <1>17, <1>19, <1>20, <1>22, <1>23, <1>25, <1>26, <1>27, <1>28, <1>29, <1>30
        DEF OutputsInv

(* A display is updated.                                                   *)
LEMMA GoodUpdated ==
  ASSUME NEW s \in Seq(CellOutput), NEW n, NEW R, Good(s, n, R), NEW d \in Displays,
         NEW chunk \in Chunks
  PROVE  Good(Updated(s, d, chunk), n, R)
<1> DEFINE t == Updated(s, d, chunk)
<1>1. /\ DOMAIN t = DOMAIN s
      /\ \A i \in DOMAIN s : /\ Like(t[i], s[i])
                             /\ s[i].display = d => t[i].text = <<chunk>>
                             /\ s[i].display # d => t[i] = s[i]
  BY UpdatedLike
<1>2. d # NoDisplay /\ Len(<<chunk>>) = 1
  BY Sizes
<1>3. \A i \in DOMAIN s : s[i].display = d => s[i].kind \notin Streams
  BY <1>2 DEF Good, WellMade
<1> HIDE DEF t
<1>4. ASSUME NEW i \in DOMAIN s
      PROVE  t[i].text = s[i].text \/
                (IF s[i].kind \in Streams THEN t[i].text # <<>> ELSE Len(t[i].text) = 1)
  <2>1. CASE s[i].display = d
    BY <1>1, <1>2, <1>3, <2>1
  <2>2. CASE s[i].display # d
    BY <1>1, <2>2
  <2> QED BY <2>1, <2>2
<1>5. Good(t, n, R)
  BY <1>1, <1>4, GoodTexts
<1> QED BY <1>5 DEF t

LEMMA GoodRetexted ==
  ASSUME NEW s \in Seq(CellOutput), NEW n, NEW R, Good(s, n, R), NEW id, NEW chunk \in Chunks,
         \A i \in DOMAIN s : s[i].id = id => s[i].kind \notin Streams
  PROVE  Good(WithText(s, id, <<chunk>>), n, R)
<1> DEFINE text == <<chunk>>
           t == WithText(s, id, text)
<1>1. Len(text) = 1 /\ text \in Seq(Chunks)
  OBVIOUS
<1> HIDE DEF text
<1>2. /\ DOMAIN t = DOMAIN s
      /\ \A i \in DOMAIN s : /\ Like(t[i], s[i])
                             /\ s[i].id = id => t[i].text = text
                             /\ s[i].id # id => t[i] = s[i]
  BY <1>1, WithTextLike
<1> HIDE DEF t
<1>3. ASSUME NEW i \in DOMAIN s
      PROVE  t[i].text = s[i].text \/
                (IF s[i].kind \in Streams THEN t[i].text # <<>> ELSE Len(t[i].text) = 1)
  <2>1. CASE s[i].id = id
    BY <1>1, <1>2, <2>1
  <2>2. CASE s[i].id # id
    BY <1>2, <2>2
  <2> QED BY <2>1, <2>2
<1>4. Good(t, n, R)
  BY <1>2, <1>3, GoodTexts
<1> QED BY <1>4 DEF t, text

(* Where the outputs of a display are those with one id, they are updated  *)
(* by it; where they have the content already, nothing is to be done.      *)
LEMMA UpdatedById ==
  ASSUME NEW s \in Seq(CellOutput), NEW d, NEW id, NEW chunk \in Chunks,
         \A i \in DOMAIN s : s[i].id = id <=> s[i].display = d
  PROVE  WithText(s, id, <<chunk>>) = Updated(s, d, chunk)
<1> DEFINE text == <<chunk>>
           t == WithText(s, id, text)
           u == Updated(s, d, chunk)
<1>1. text \in Seq(Chunks)
  OBVIOUS
<1>2. /\ t = [i \in DOMAIN s |-> IF s[i].id = id THEN [s[i] EXCEPT !.text = text] ELSE s[i]]
      /\ u = [i \in DOMAIN s |-> IF s[i].display = d THEN [s[i] EXCEPT !.text = text] ELSE s[i]]
  BY DEF WithText, Updated
<1> HIDE DEF text, t, u
<1>3. t = u
  BY <1>2
<1> QED BY <1>3 DEF t, u, text

LEMMA UpdatedAlready ==
  ASSUME NEW s \in Seq(CellOutput), NEW d, NEW chunk \in Chunks,
         \A i \in DOMAIN s : s[i].display = d => s[i].text = <<chunk>>
  PROVE  Updated(s, d, chunk) = s
<1> DEFINE text == <<chunk>>
           u == Updated(s, d, chunk)
<1>1. /\ u \in Seq(CellOutput) /\ Len(u) = Len(s) /\ DOMAIN u = DOMAIN s
  BY UpdatedType
<1>2. \A i \in DOMAIN s : u[i] = IF s[i].display = d THEN [s[i] EXCEPT !.text = text] ELSE s[i]
  BY DEF Updated
<1>3. \A i \in DOMAIN s : s[i].display = d => s[i].text = text
  OBVIOUS
<1> HIDE DEF text, u
<1>4. ASSUME NEW i \in DOMAIN s PROVE u[i] = s[i]
  <2>1. s[i] \in CellOutput
    OBVIOUS
  <2>2. CASE s[i].display = d
    <3>1. [s[i] EXCEPT !.text = s[i].text] = s[i]
      BY <2>1 DEF CellOutput
    <3> QED BY <1>2, <1>3, <2>2, <3>1
  <2>3. CASE s[i].display # d
    BY <1>2, <2>3
  <2> QED BY <2>2, <2>3
<1>5. u = s
  BY <1>1, <1>4
<1> QED BY <1>5 DEF u

(* Outputs with the id that is tracked are no streams.                     *)
LEMMA TrackedKinds ==
  ASSUME OutputsInv, NEW d \in Displays, NEW c \in Cells, NEW i \in DOMAIN Outcome[c],
         Outcome[c][i].id = tracked[d].id
  PROVE  Outcome[c][i].display = d /\ Outcome[c][i].kind \notin Streams
<1>1. Outcome[c][i].display = d /\ d # NoDisplay
  BY Sizes DEF OutputsInv, ShownTracked
<1>2. WellMade(Outcome[c][i], messages, Runs)
  BY ShownFacts DEF OutputsInv
<1> QED BY <1>1, <1>2 DEF WellMade

(* What an update leaves right: it reaches the output that is tracked, and *)
(* no other output of the display is meant, unless the cell is spoiled.    *)
LEMMA UpdatePieces ==
  ASSUME OutputsInv, NEW r \in Runs, NEW d \in Displays, NEW chunk \in Chunks,
         UpdateDisplay(r, d, chunk), NEW c \in Cells \ spoiled'
  PROVE  Pieces(Outcome'[c]) = Pieces(meant'[c])
<1> DEFINE kept == tracked[d] = NoOutput \/ tracked[d].text = <<chunk>>
           id == tracked[d].id
           s == Outcome[c]
           w == meant[c]
<1>1. /\ Outcome' = IF kept THEN Outcome
                    ELSE [x \in Cells |-> WithText(Outcome[x], id, <<chunk>>)]
      /\ meant' = [x \in Cells |-> Updated(meant[x], d, chunk)]
  BY UpdateStep DEF OutputsInv
<1>2. /\ c \in Cells /\ c \notin spoiled
      /\ \A i \in DOMAIN meant[c] : meant[c][i].display = d
            => /\ meant[c][i].id \notin stray
               /\ tracked[d].text = <<chunk>> => meant[c][i].text = <<chunk>>
  BY DEF UpdateDisplay
<1>3. /\ Typed /\ MadeInv /\ PiecesInv /\ MeantTracked /\ ShownTracked
  BY DEF OutputsInv
<1>4. /\ s \in Seq(CellOutput) /\ w \in Seq(CellOutput)
      /\ \A i \in DOMAIN s : WellMade(s[i], messages, Runs)
      /\ \A i \in DOMAIN w : WellMade(w[i], messages, Runs) /\ w[i].id \in Chunks
  BY <1>2, <1>3, ShownFacts
<1>5. d # NoDisplay
  BY Sizes
<1>6. /\ \A i \in DOMAIN s : s[i].display = d => s[i].kind \notin Streams /\ Len(s[i].text) = 1
      /\ \A i \in DOMAIN w : w[i].display = d => w[i].kind \notin Streams /\ Len(w[i].text) = 1
  BY <1>4, <1>5 DEF WellMade
<1>7. \A i \in DOMAIN w : w[i].display = d => w[i].id = id /\ id # 0
  <2> TAKE i \in DOMAIN w
  <2>1. w[i].display = d => w[i].id \in stray \/ w[i].id = id
    BY <1>2, <1>3 DEF MeantTracked
  <2>2. w[i].display = d => w[i].id \notin stray
    BY <1>2
  <2>3. w[i].id # 0
    BY <1>4, Sizes
  <2> QED BY <2>1, <2>2, <2>3
<1>8. \A i \in DOMAIN s : s[i].id = id => s[i].display = d
  BY <1>2, <1>3 DEF ShownTracked
<1>9. Pieces(s) = Pieces(w)
  BY <1>2, <1>3 DEF PiecesInv
<1>10. \A i \in DOMAIN w : w[i].display = d /\ tracked[d].text = <<chunk>> => w[i].text = <<chunk>>
  BY <1>2
<1> HIDE DEF s, w, id
<1>11. CASE kept
  <2>1. Outcome'[c] = s
    BY <1>1, <1>11 DEF s
  <2>2. \A i \in DOMAIN w : w[i].display = d => w[i].text = <<chunk>>
    <3>1. CASE tracked[d] = NoOutput
      <4>1. id = 0
        BY <3>1, Sizes DEF id
      <4> QED BY <1>7, <4>1
    <3>2. CASE tracked[d].text = <<chunk>>
      BY <1>10, <3>2
    <3> QED BY <1>11, <3>1, <3>2
  <2>3. Updated(w, d, chunk) = w
    BY <1>4, <2>2, UpdatedAlready
  <2>4. meant'[c] = Updated(w, d, chunk)
    BY <1>1, <1>2 DEF w
  <2> QED BY <1>9, <2>1, <2>3, <2>4
<1>12. CASE ~ kept
  <2>1. Outcome'[c] = WithText(s, id, <<chunk>>) /\ meant'[c] = Updated(w, d, chunk)
    BY <1>1, <1>2, <1>12 DEF s, w
  <2>2. ASSUME NEW i \in DOMAIN s, s[i].display = d PROVE s[i].id = id
    <3>1. s[i].kind \notin Streams /\ s[i].text # <<>>
      <4>1. Len(s[i].text) = 1 /\ s[i].kind \notin Streams
        BY <1>6, <2>2
      <4>2. Len(<<>>) = 0
        OBVIOUS
      <4> QED BY <4>1, <4>2
    <3>2. PICK k \in DOMAIN w : w[k].id = s[i].id /\ w[k].display = s[i].display
      BY <1>4, <1>9, <3>1, SamePieces
    <3> QED BY <1>7, <2>2, <3>2
  <2>3. \A i \in DOMAIN s : s[i].id = id <=> s[i].display = d
    BY <1>8, <2>2
  <2>4. WithText(s, id, <<chunk>>) = Updated(s, d, chunk)
    BY <1>4, <2>3, UpdatedById
  <2>5. Pieces(Updated(s, d, chunk)) = Mapped(Update(d, chunk), Pieces(s))
    BY <1>4, <1>6, PiecesUpdated
  <2>6. Pieces(Updated(w, d, chunk)) = Mapped(Update(d, chunk), Pieces(w))
    BY <1>4, <1>6, PiecesUpdated
  <2> QED BY <1>9, <2>1, <2>4, <2>5, <2>6
<1> QED BY <1>11, <1>12

LEMMA UpdateInvariant ==
  ASSUME OutputsInv, Typed', OneHandlerPerCell', NEW r \in Runs, NEW d \in Displays,
         NEW chunk \in Chunks, UpdateDisplay(r, d, chunk)
  PROVE  OutputsInv'
<1> DEFINE kept == tracked[d] = NoOutput \/ tracked[d].text = <<chunk>>
           id == tracked[d].id
           text == <<chunk>>
           none == {}
<1>1. /\ Outcome' = IF kept THEN Outcome
                    ELSE [x \in Cells |-> WithText(Outcome[x], id, text)]
      /\ meant' = [x \in Cells |-> Updated(meant[x], d, chunk)]
  BY UpdateStep DEF OutputsInv
<1>2. /\ run' = run /\ Runs' = Runs /\ tracked' = tracked /\ messages' = messages + 1
      /\ events' = events /\ toClear' = toClear /\ stray' = stray /\ misled' = misled
      /\ spoiled \subseteq spoiled'
  BY DEF UpdateDisplay, Message, trackerVars, Runs
<1>3. /\ Typed /\ MadeInv /\ OwnInv /\ StreamInv /\ StreamOwn /\ StreamLast
      /\ NoneBefore /\ ErrorInv /\ StartInv /\ TrackedInv /\ ShownTracked /\ MeantTracked
      /\ ClearInv /\ OneBusy
  BY DEF OutputsInv
<1>4. /\ messages \in Nat /\ messages' \in Nat /\ messages <= messages' /\ Runs \subseteq Runs
      /\ Outcome \in Documents /\ meant \in Documents
  BY <1>2, <1>3, Counted, OutcomeType DEF Typed
<1>5. text \in Seq(Chunks)
  OBVIOUS
<1>6. /\ From(Outcome', Outcome, r, none) /\ From(meant', meant, r, none)
      /\ \A x \in none : FALSE
  <2>1. From(meant', meant, r, none)
    BY <1>1, <1>4, FromUpdated
  <2> HIDE DEF text, id
  <2>2. CASE kept
    <3>1. Outcome' = Outcome
      BY <1>1, <2>2
    <3> QED BY <2>1, <3>1, FromSame
  <2>3. CASE ~ kept
    <3>1. Outcome' = [x \in Cells |-> WithText(Outcome[x], id, text)]
      BY <1>1, <2>3
    <3> QED BY <1>4, <1>5, <2>1, <3>1, FromWithText
  <2> QED BY <2>2, <2>3
<1> HIDE DEF none
<1>7. MadeInv'
  <2> SUFFICES ASSUME NEW c \in Cells
               PROVE  Good(Outcome'[c], messages', Runs) /\ Good(meant'[c], messages', Runs)
    BY <1>2 DEF MadeInv
  <2>1. /\ Outcome[c] \in Seq(CellOutput) /\ meant[c] \in Seq(CellOutput)
        /\ Good(Outcome[c], messages, Runs) /\ Good(meant[c], messages, Runs)
    BY <1>3, ShownFacts
  <2>2. Good(meant'[c], messages', Runs)
    <3>1. Good(Updated(meant[c], d, chunk), messages, Runs)
      BY <2>1, GoodUpdated
    <3>2. Updated(meant[c], d, chunk) \in Seq(CellOutput)
      BY <2>1, UpdatedType
    <3>3. Good(Updated(meant[c], d, chunk), messages', Runs)
      BY <1>4, <3>1, <3>2, GoodLater
    <3> QED BY <1>1, <3>3
  <2>3. Good(Outcome'[c], messages', Runs)
    <3>1. CASE kept
      <4>1. Good(Outcome[c], messages', Runs)
        BY <1>4, <2>1, GoodLater
      <4> QED BY <1>1, <3>1, <4>1
    <3>2. CASE ~ kept
      <4>1. \A i \in DOMAIN Outcome[c] : Outcome[c][i].id = id => Outcome[c][i].kind \notin Streams
        BY TrackedKinds
      <4>2. Outcome'[c] = WithText(Outcome[c], id, text)
        BY <1>1, <3>2
      <4>3. Good(WithText(Outcome[c], id, <<chunk>>), messages, Runs)
        <5> HIDE DEF id
        <5> QED BY <2>1, <4>1, GoodRetexted
      <4> HIDE DEF id
      <4>4. WithText(Outcome[c], id, text) \in Seq(CellOutput)
        <5> HIDE DEF text
        <5> QED BY <1>5, <2>1, WithTextType
      <4>5. Good(WithText(Outcome[c], id, text), messages', Runs)
        BY <1>4, <4>3, <4>4, GoodLater
      <4> QED BY <4>2, <4>5
    <3> QED BY <3>1, <3>2
  <2> QED BY <2>2, <2>3
<1>8. OwnInv'
  <2>1. \A q \in Runs : run'[q].cell = run[q].cell
    BY <1>2
  <2>2. \A c \in Cells \ spoiled' : c \notin spoiled \/ Outcome'[c] = <<>>
    BY <1>2
  <2>3. \A o \in none : o.by \in Runs /\ (run[o.by].cell = r \/ r \in spoiled')
    BY <1>6
  <2> QED BY <1>3, <1>6, <2>1, <2>2, <2>3, OwnKept
<1>9. PiecesInv'
  BY UpdatePieces DEF PiecesInv
<1>10. TrackedInv' /\ StreamInv'
  <2>1. \A q \in Runs : /\ run'[q].stream \in {NoOutput, run[q].stream}
                        /\ run'[q].state \in {"clearing", "over"} => run'[q].stream = NoOutput
    BY <1>2, <1>3 DEF StreamInv
  <2> QED BY <1>2, <1>3, <1>4, <2>1, TrackedKept, StreamKept
<1>11. ShownTracked'
  <2>1. \A x \in none : x.id = messages + 1
    BY <1>6
  <2>2. \A e \in Displays : \/ tracked'[e] = tracked[e]
                            \/ tracked'[e] = NoOutput /\ none = {}
                            \/ /\ tracked'[e].id = messages + 1
                               /\ \A x \in none : x.display = e
    BY <1>2
  <2> QED BY <1>3, <1>6, <2>1, <2>2, ShownTrackedKept
<1>12. MeantTracked'
  <2>1. \A c \in Cells \ spoiled' : c \notin spoiled \/ meant'[c] = <<>>
    BY <1>2
  <2>2. \A x \in none : x.display \in Displays => tracked'[x.display].id = x.id
    BY <1>6
  <2>3. stray \subseteq stray' /\ \A e \in Displays : tracked'[e] = tracked[e] \/ tracked[e].id \in stray'
    BY <1>2
  <2> QED BY <1>3, <1>6, <2>1, <2>2, <2>3, MeantTrackedKept
<1>13. StreamOwn'
  <2>1. \A x \in none : x.id = messages + 1
    BY <1>6
  <2>2. \A q \in Runs' : \/ run'[q].stream = NoOutput
                         \/ q \in Runs /\ run'[q].stream.id = run[q].stream.id
                            /\ run[q].stream # NoOutput
                         \/ run'[q].stream.id = messages + 1
                            /\ \A x \in none : x.by = q /\ x.kind \in Streams
    BY <1>2
  <2> QED BY <1>3, <1>6, <2>1, <2>2, StreamOwnKept
<1>14. StreamLast'
  <2> SUFFICES ASSUME NEW q \in Runs, run[q].stream # NoOutput, run[q].cell \notin spoiled',
                      ~ ClearedUnheard(q)'
               PROVE  LastIs(Outcome'[run[q].cell], run[q].stream)
    BY <1>2 DEF StreamLast
  <2> DEFINE c == run[q].cell
             s == Outcome[c]
             o == run[q].stream
             t == WithText(s, id, text)
  <2>1. ~ ClearedUnheard(q) /\ c \notin spoiled /\ c \in Cells
    BY <1>2, <1>3, HandlerFields DEF ClearedUnheard, Typed
  <2>2. s # <<>> /\ s[Len(s)] = o /\ s \in Seq(CellOutput)
    BY <1>3, <1>4, <2>1 DEF StreamLast, LastIs, Documents
  <2>3. o.kind \in Streams
    BY <1>3 DEF StreamInv
  <2>4. CASE kept
    <3>1. Outcome'[c] = s
      BY <1>1, <2>4
    <3> QED BY <2>2, <3>1 DEF LastIs
  <2>5. CASE ~ kept
    <3>1. Outcome'[c] = t
      BY <1>1, <2>1, <2>5
    <3>2. Len(s) \in DOMAIN s
      BY <2>2
    <3>3. s[Len(s)].id # id
      BY <2>1, <2>2, <2>3, <3>2, TrackedKinds
    <3> HIDE DEF id, text, s
    <3>4. t \in Seq(CellOutput) /\ Len(t) = Len(s) /\ t[Len(s)] = s[Len(s)]
      <4>1. t \in Seq(CellOutput) /\ Len(t) = Len(s)
        BY <1>5, <2>2, WithTextType
      <4>2. t[Len(s)] = s[Len(s)]
        BY <1>5, <2>2, <3>2, <3>3, WithTextLike
      <4> QED BY <4>1, <4>2
    <3> HIDE DEF t
    <3>5. t # <<>>
      BY <2>2, <3>4
    <3> QED BY <2>2, <3>1, <3>4, <3>5 DEF LastIs
  <2> QED BY <2>4, <2>5
<1>15. ClearInv' /\ OneBusy'
  BY <1>2, <1>3 DEF ClearInv, OneBusy, Busy
<1>16. NoneBefore'
  <2>1. \A q \in Runs' : run'[q].state = "clearing" =>
            /\ q \notin Runs \/ run[q].state = "clearing"
            /\ \A x \in none : x.by # q
    BY <1>2, <1>6
  <2> QED BY <1>3, <1>6, <2>1, NoneBeforeKept
<1>17. ErrorInv'
  <2>1. \A q \in Runs' : run'[q].state = "executing" =>
            /\ q \in Runs /\ run[q].state = "executing" /\ run'[q].cell = run[q].cell
            /\ \/ run'[q].failed
               \/ /\ q \in misled => q \in misled'
                  /\ run[q].failed => run'[q].failed
                  /\ \A x \in none : x.by # q \/ x.kind # "error"
    BY <1>2, <1>6
  <2> QED BY <1>3, <1>6, <2>1, ErrorKept
<1>18. StartInv'
  <2>1. Quiet(edits', edits)
    <3>1. edits \in Seq(GoodEdits)
      BY <1>3, OutcomeType DEF Typed
    <3>2. edits' = IF kept THEN edits
                   ELSE Append(edits, ReplaceItems(TaskCell(r), [tracked[d] EXCEPT !.text = <<chunk>>]))
      BY DEF UpdateDisplay
    <3>3. \A c, o : ReplaceItems(c, o).start = 0
      BY DEF ReplaceItems
    <3>4. CASE kept
      <4>1. edits' = edits
        BY <3>2, <3>4
      <4> QED BY <4>1, QuietSame
    <3>5. CASE ~ kept
      <4> DEFINE e == ReplaceItems(TaskCell(r), [tracked[d] EXCEPT !.text = <<chunk>>])
      <4>1. edits' = Append(edits, e) /\ e.start = 0
        BY <3>2, <3>3, <3>5
      <4> HIDE DEF e
      <4> QED BY <3>1, <4>1, QuietAppend
    <3> QED BY <3>4, <3>5
  <2>2. Quiet(events', events) /\ \A q \in Runs : run[q].state = "clearing" => run'[q].state = "clearing"
    BY <1>2, QuietSame
  <2> QED BY <1>3, <2>1, <2>2, StartKept
<1> QED BY <1>7, <1>8, <1>9, <1>10, <1>11, <1>12, <1>13, <1>14, <1>15, <1>16, <1>17, <1>18
        DEF OutputsInv

LEMMA MessageInv ==
  ASSUME OutputsInv, Typed', OneHandlerPerCell', NEW r \in Runs, KernelMessage(r)
  PROVE  OutputsInv'
<1>1. "data" \in {"data", "error"} /\ "error" \in {"data", "error"}
      /\ NoDisplay \in Displays \cup {NoDisplay}
  OBVIOUS
<1> QED BY <1>1, StreamInvariant, AddInvariant, ClearOutputInv, UpdateInvariant, CommOpenInv
        DEF KernelMessage

LEMMA MessageOfRun == ASSUME NEW r, KernelMessage(r) PROVE r \in Runs
BY DEF KernelMessage, Stream, AddToCellData, AddToCell, ClearOutput, UpdateDisplay, CommOpen,
       Message, Handles

LEMMA NextInv == ASSUME OutputsInv, OutputsNext PROVE OutputsInv'
<1>1. Typed' /\ OneHandlerPerCell'
  BY NextHandlers DEF OutputsInv
<1>2. ASSUME NEW r \in 1..MaxRuns,
             CompletedSuccessfully(r) \/ CompletedWithErrors(r) \/ KernelMessage(r)
      PROVE  OutputsInv'
  BY <1>1, <1>2, CompletedSuccessfullyInv, CompletedWithErrorsInv, MessageInv, MessageOfRun
<1>3. CASE \E n \in DOMAIN edits : ApplyEdits(n)
  BY <1>1, <1>3, ApplyInv
<1>4. CASE \E c \in Cells : UserClears(c) \/ Start(c)
  BY <1>1, <1>4, UserClearsInv, StartActionInv
<1>5. CASE OutputsChanged \/ RegisterListener
  BY <1>1, <1>5, ChangedInv, RegisterInv
<1> QED BY <1>2, <1>3, <1>4, <1>5 DEF OutputsNext

LEMMA OutputsInvariant == OutputsSpec => []OutputsInv
<1>1. OutputsInit => OutputsInv
  BY OutputsInitInv
<1>2. OutputsInv /\ [OutputsNext]_outputVars => OutputsInv'
  BY NextInv, StutterInv
<1> QED BY <1>1, <1>2, PTL DEF OutputsSpec

(* When the edits under way have been applied, a cell that none of the     *)
(* named exceptions spoiled shows what the messages of its runs say.       *)
THEOREM OutputsShownAsSent == OutputsSpec => []OutputsAsSent
<1>1. OutputsInv => OutputsAsSent
  <2> SUFFICES ASSUME OutputsInv, NEW c \in Cells \ spoiled PROVE View(Outcome[c]) = View(meant[c])
    BY DEF OutputsAsSent
  <2>1. Outcome[c] \in Seq(CellOutput) /\ meant[c] \in Seq(CellOutput)
    BY ShownFacts DEF OutputsInv
  <2>2. Pieces(Outcome[c]) = Pieces(meant[c])
    BY DEF OutputsInv, PiecesInv
  <2> QED BY <2>1, <2>2, ViewOfPieces
<1> QED BY <1>1, OutputsInvariant, PTL

(* How a run that was being executed ends.                                 *)
ReportsErrors(r) ==
  run[r].state = "executing" /\ run'[r].state # "executing" /\ ErrorIsThere(r) /\ r \notin misled
    => run'[r].reported = "failed"

LEMMA RegisterReports ==
  ASSUME OutputsInv, RegisterListener, NEW q \in Runs, run[q].state = "executing"
  PROVE  run'[q].state = "executing"
<1> DEFINE r == Head(events).start
<1>1. Typed /\ StartInv /\ OneBusy
  BY DEF OutputsInv
<1>2. /\ events # <<>> /\ r \in Runs /\ r # 0
      /\ run'[q] = IF q = r THEN [run[q] EXCEPT !.state = "executing"]
                   ELSE IF run[q].cell = run[r].cell
                   THEN [run[q] EXCEPT !.state = "over", !.stream = NoOutput]
                   ELSE run[q]
  BY <1>1, RegisterStep
<1>3. run[r].state = "clearing"
  <2>1. Head(events) = events[1] /\ 1 \in DOMAIN events
    BY <1>1, <1>2, TailOfEvents
  <2>2. \A i \in DOMAIN events : events[i].start # 0 => run[events[i].start].state = "clearing"
    BY <1>1 DEF StartInv
  <2>3. events[1].start # 0 => run[events[1].start].state = "clearing"
    BY <2>1, <2>2
  <2> QED BY <1>2, <2>1, <2>3
<1> HIDE DEF r
<1>4. q = r
  BY <1>1, <1>2, <1>3 DEF OneBusy, Busy
<1> QED BY <1>3, <1>4

LEMMA EndReports ==
  ASSUME OutputsInv, NEW r \in 1..MaxRuns, CompletedSuccessfully(r) \/ CompletedWithErrors(r),
         NEW q \in Runs
  PROVE  ReportsErrors(q)
<1>1. PICK reported \in {"no", "success", "failed"} :
          /\ RunEnds(r, reported)
          /\ run[r].failed => reported = "failed"
          /\ CompletedWithErrors(r) => reported = "failed"
          /\ CompletedSuccessfully(r) \/ CompletedWithErrors(r)
  <2>1. CASE CompletedWithErrors(r)
    BY <2>1 DEF CompletedWithErrors
  <2>2. CASE ~ CompletedWithErrors(r)
    <3>1. CompletedSuccessfully(r)
      BY <2>2
    <3>2. RunEnds(r, IF run[r].failed THEN "failed" ELSE "success")
      BY <3>1 DEF CompletedSuccessfully
    <3> DEFINE reported == IF run[r].failed THEN "failed" ELSE "success"
    <3>3. reported \in {"no", "success", "failed"} /\ (run[r].failed => reported = "failed")
      OBVIOUS
    <3> QED BY <2>2, <3>1, <3>2, <3>3
  <2> QED BY <2>1, <2>2
<1> DEFINE h == [run[r] EXCEPT !.state = IF run[r].comms THEN "listening" ELSE "over",
                               !.stream = NoOutput, !.reported = reported]
<1>2. /\ r \in Runs /\ run[r].state = "executing"
      /\ run'[r] = h /\ \A p \in Runs \ {r} : run'[p] = run[p]
  BY <1>1, EndStep DEF OutputsInv
<1>3. h.reported = reported
  BY <1>2, HandlerFields DEF OutputsInv, Typed, Handler
<1> HIDE DEF h
<1>4. CASE q # r
  BY <1>2, <1>4 DEF ReportsErrors
<1>5. CASE q = r
  <2>1. CASE run[r].failed
    BY <1>1, <1>2, <1>3, <1>5, <2>1 DEF ReportsErrors
  <2>2. CASE ~ run[r].failed
    <3>1. ~ (ErrorIsThere(r) /\ r \notin misled)
      BY <1>2, <2>2 DEF OutputsInv, ErrorInv
    <3> QED BY <1>5, <3>1 DEF ReportsErrors
  <2> QED BY <2>1, <2>2
<1> QED BY <1>4, <1>5

LEMMA NextReports ==
  ASSUME OutputsInv, OutputsNext, NEW q \in Runs
  PROVE  ReportsErrors(q)
<1>1. Typed
  BY DEF OutputsInv
<1>2. CASE \E n \in DOMAIN edits : ApplyEdits(n)
  <2>1. run' = run
    BY <1>2 DEF ApplyEdits
  <2> QED BY <2>1 DEF ReportsErrors
<1>3. ASSUME NEW c \in Cells, UserClears(c) \/ Start(c) PROVE ReportsErrors(q)
  <2>1. CASE UserClears(c)
    BY <2>1 DEF UserClears, ReportsErrors
  <2>2. CASE Start(c)
    <3>1. run'[q] = run[q]
      BY <1>1, <2>2, StartStep
    <3> QED BY <3>1 DEF ReportsErrors
  <2> QED BY <1>3, <2>1, <2>2
<1>4. CASE OutputsChanged
  <2> DEFINE listens == run[q].cell \in Head(events).cleared
                        /\ run[q].state \in {"executing", "listening"}
             heard == [run[q] EXCEPT !.stream = NoOutput, !.failed = FALSE]
  <2>1. run'[q] = IF listens THEN heard ELSE run[q]
    BY <1>1, <1>4, ChangedStep
  <2>2. heard.state = run[q].state
    BY <1>1, HandlerFields DEF Typed, Handler
  <2> HIDE DEF listens, heard
  <2>3. run'[q].state = run[q].state
    BY <2>1, <2>2
  <2> QED BY <2>3 DEF ReportsErrors
<1>5. CASE RegisterListener
  BY <1>5, RegisterReports DEF ReportsErrors
<1>6. ASSUME NEW r \in 1..MaxRuns,
             CompletedSuccessfully(r) \/ CompletedWithErrors(r) \/ KernelMessage(r)
      PROVE  ReportsErrors(q)
  <2>1. CASE KernelMessage(r)
    <3>1. run'[q].state = run[q].state
      BY <1>1, <2>1, MessageStates, MessageOfRun
    <3> QED BY <3>1 DEF ReportsErrors
  <2>2. CASE CompletedSuccessfully(r) \/ CompletedWithErrors(r)
    BY <2>2, EndReports
  <2> QED BY <1>6, <2>1, <2>2
<1> QED BY <1>2, <1>3, <1>4, <1>5, <1>6 DEF OutputsNext

(* A run that leaves an error of its own in the cell is reported as        *)
(* failed, unless a clearing that precedes it was heard of late.           *)
THEOREM ErrorsReported == OutputsSpec => ErrorsAreReported
<1>1. OutputsInv /\ [OutputsNext]_outputVars
        => [\A r \in Runs : /\ run[r].state = "executing" /\ run'[r].state # "executing"
                            /\ ErrorIsThere(r) /\ r \notin misled
                            => run'[r].reported = "failed"]_outputVars
  BY NextReports DEF ReportsErrors
<1> QED BY <1>1, OutputsInvariant, PTL DEF OutputsSpec, ErrorsAreReported
=============================================================================
