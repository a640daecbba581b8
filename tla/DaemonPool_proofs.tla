-------------------------- MODULE DaemonPool_proofs --------------------------
(***************************************************************************)
(* Proofs about DaemonPool, for every set of requests, every size of the   *)
(* pools and every bound on the daemons made.                              *)
(***************************************************************************)
EXTENDS DaemonPool, FiniteSetTheorems, TLAPS

USE DaemonBounds

(***************************************************************************)
(* The invariant.  The daemons of a type in use are as many as the options *)
(* ask for, less those whose making failed, and each of them that is in    *)
(* the pool is there once.                                                 *)
(***************************************************************************)
Typed == /\ daemon \in [Daemons -> Daemon]
         /\ pool \in [Types -> Seq(Daemons)]
         /\ request \in [Requests -> Request]
         /\ failed \in [Types -> Nat]

Active(d) == daemon[d].use \in {"pool", "out", "testing", "creating"}

InUseIs(t, d) == Active(d) /\ daemon[d].type = t

InPoolIs(t, d) == daemon[d].use = "pool" /\ daemon[d].type = t

Pooled(t) == /\ InPool(t) = {d \in Daemons : InPoolIs(t, d)}
             /\ IsInjective(pool[t])

Sized(t) == failed[t] + Cardinality(InUse(t)) = Count(t)

Kept(t) == Pooled(t) /\ Sized(t)

(* A daemon runs nothing before it is taken, and one that is being made    *)
(* for another finds that one given up.                                    *)
Idle(d) == daemon[d].use \in {"none", "creating", "pool"} => daemon[d].runs = NoRequest

GivenUp(d) == daemon[d].use \in {"replaced", "gone"}

Successor(n) == /\ daemon[n].use = "creating" /\ daemon[n].replaces # 0
                      => GivenUp(daemon[n].replaces)
                /\ daemon[n].use = "none" => daemon[n].replaces = 0

(* Who holds a daemon has it to itself.                                    *)
HoldersAlone ==
    /\ \A r \in Requests, d \in Daemons : Holds(r, d) => daemon[d].use = "out"
    /\ \A d \in Daemons : \A q, r \in Requests : Holds(q, d) /\ Holds(r, d) => q = r

DaemonInv == /\ Typed
             /\ \A t \in Types : Kept(t)
             /\ \A d \in Daemons : Idle(d) /\ Successor(d)
             /\ HoldersAlone

-----------------------------------------------------------------------------
(***************************************************************************)
(* Sequences without repetition, and the daemons in use.                   *)
(***************************************************************************)

(* What Append does to the elements of a sequence.                         *)
LEMMA Appended ==
  ASSUME NEW S, NEW s \in Seq(S), NEW x \in S, x \notin Range(s), IsInjective(s)
  PROVE  /\ Append(s, x) \in Seq(S)
         /\ Range(Append(s, x)) = Range(s) \cup {x}
         /\ IsInjective(Append(s, x))
<1> DEFINE a == Append(s, x)
<1>1. a \in Seq(S) /\ DOMAIN s = 1..Len(s) /\ DOMAIN a = 1..Len(s) + 1
      /\ Len(s) \in Nat /\ a[Len(s) + 1] = x
      /\ \A n \in 1..Len(s) : a[n] = s[n]
  OBVIOUS
<1> HIDE DEF a
<1>2. Range(a) = Range(s) \cup {x}
  <2>1. \A n \in DOMAIN a : a[n] \in Range(s) \cup {x}
    BY <1>1 DEF Range
  <2>2. \A y \in Range(s) : \E n \in DOMAIN a : y = a[n]
    BY <1>1 DEF Range
  <2>3. Len(s) + 1 \in DOMAIN a
    BY <1>1
  <2> QED
    BY <1>1, <2>1, <2>2, <2>3 DEF Range
<1>3. IsInjective(a)
  <2>1. ASSUME NEW m \in DOMAIN a, NEW n \in DOMAIN a, a[m] = a[n]
        PROVE  m = n
    <3>1. \A k \in 1..Len(s) : a[k] # x
      BY <1>1 DEF Range
    <3> QED
      BY <1>1, <2>1, <3>1 DEF IsInjective
  <2> QED
    BY <2>1 DEF IsInjective
<1> QED
  BY <1>1, <1>2, <1>3 DEF a

(* What Tail does to them.                                                 *)
LEMMA TailOf ==
  ASSUME NEW S, NEW s \in Seq(S), s # <<>>, IsInjective(s)
  PROVE  /\ Head(s) \in S /\ Head(s) \in Range(s)
         /\ Tail(s) \in Seq(S)
         /\ Range(Tail(s)) = Range(s) \ {Head(s)}
         /\ IsInjective(Tail(s))
<1> DEFINE a == Tail(s)
<1>1. /\ a \in Seq(S) /\ DOMAIN s = 1..Len(s) /\ DOMAIN a = 1..Len(s) - 1
      /\ Len(s) \in Nat /\ Len(s) >= 1 /\ s[1] = Head(s) /\ s[1] \in S
      /\ \A n \in 1..Len(s) - 1 : a[n] = s[n + 1]
  OBVIOUS
<1> HIDE DEF a
<1>2. Range(a) = Range(s) \ {s[1]}
  <2>1. ASSUME NEW n \in DOMAIN a
        PROVE  a[n] \in Range(s) \ {s[1]}
    <3>1. n + 1 \in DOMAIN s /\ 1 \in DOMAIN s /\ n + 1 # 1 /\ a[n] = s[n + 1]
      BY <1>1
    <3> QED
      BY <3>1 DEF Range, IsInjective
  <2>2. ASSUME NEW m \in DOMAIN s, s[m] # s[1]
        PROVE  s[m] \in Range(a)
    <3>1. m - 1 \in DOMAIN a /\ a[m - 1] = s[m]
      BY <1>1, <2>2
    <3> QED
      BY <3>1 DEF Range
  <2> QED
    BY <2>1, <2>2 DEF Range
<1>3. IsInjective(a)
  <2>1. ASSUME NEW m \in DOMAIN a, NEW n \in DOMAIN a, a[m] = a[n]
        PROVE  m = n
    <3>1. /\ m + 1 \in DOMAIN s /\ n + 1 \in DOMAIN s /\ s[m + 1] = s[n + 1]
          /\ m \in Nat /\ n \in Nat
      BY <1>1, <2>1
    <3>2. m + 1 = n + 1
      BY <3>1 DEF IsInjective
    <3> QED
      BY <3>1, <3>2
  <2> QED
    BY <2>1 DEF IsInjective
<1>4. s[1] \in Range(s)
  BY <1>1 DEF Range
<1> QED
  BY <1>1, <1>2, <1>3, <1>4 DEF a

LEMMA InUseFinite ==
  ASSUME NEW t
  PROVE  /\ IsFiniteSet(InUse(t))
         /\ InUse(t) = {d \in Daemons : InUseIs(t, d)}
<1>1. IsFiniteSet(Daemons)
  <2>1. 1 \in Int /\ MaxDaemons \in Int
    OBVIOUS
  <2> QED
    BY <2>1, FS_Interval DEF Daemons
<1>2. InUse(t) = {d \in Daemons : InUseIs(t, d)}
  BY DEF InUse, InUseIs, Active
<1>3. InUse(t) \subseteq Daemons
  BY DEF InUse
<1> QED
  BY <1>1, <1>2, <1>3, FS_Subset

(* The primed form of it.                                                  *)
LEMMA InUseAfter ==
  ASSUME NEW t
  PROVE  InUse(t)' = {d \in Daemons : InUseIs(t, d)'}
  BY DEF InUse, InUseIs, Active

(* The daemons that the options ask for are in the pools.                  *)
LEMMA InitHolds ==
  ASSUME Init
  PROVE  DaemonInv
<1> DEFINE total == StandardCount + ObservableCount
<1>1. /\ 0 \in 0..MaxDaemons /\ total \in Nat /\ total <= MaxDaemons
      /\ StandardCount <= total /\ Daemons = 1..MaxDaemons
      /\ \A d \in Daemons : d \in Nat /\ d >= 1
  BY DEF Daemons
<1>2. /\ \A d \in Daemons : /\ daemon[d].use = IF d <= total THEN "pool" ELSE "none"
                            /\ daemon[d].type = IF d <= StandardCount THEN "standard"
                                                ELSE "observable"
                            /\ daemon[d].runs = NoRequest /\ daemon[d].replaces = 0
      /\ \A t \in Types : failed[t] = 0
  BY DEF Init, Types
<1>3. /\ pool["standard"] = [n \in 1..StandardCount |-> n]
      /\ pool["observable"] = [n \in 1..ObservableCount |-> StandardCount + n]
  BY DEF Init, Types, Count
<1>4. Typed
  <2>1. daemon \in [Daemons -> Daemon]
    <3>1. \A d \in Daemons : daemon[d] \in Daemon
      BY <1>1 DEF Init, Daemon, Types
    <3> QED
      BY <3>1 DEF Init
  <2>2. pool \in [Types -> Seq(Daemons)]
    <3>1. pool["standard"] \in Seq(Daemons)
      BY <1>1, <1>3
    <3>2. pool["observable"] \in Seq(Daemons)
      BY <1>1, <1>3
    <3>3. DOMAIN pool = Types /\ pool = [t \in Types |-> pool[t]]
      BY DEF Init
    <3> QED
      BY <3>1, <3>2, <3>3 DEF Types
  <2> QED
    BY <1>1, <2>1, <2>2 DEF Init, Typed, Request
<1>5. ASSUME NEW t \in Types
      PROVE  Pooled(t) /\ Cardinality(InUse(t)) = Count(t)
  <2> DEFINE low == IF t = "standard" THEN 1 ELSE StandardCount + 1
             high == IF t = "standard" THEN StandardCount ELSE total
  <2>1. /\ low \in Int /\ high \in Int /\ low..high \subseteq Daemons
        /\ Cardinality(low..high) = IF low > high THEN 0 ELSE high - low + 1
    BY <1>1, FS_Interval
  <2>2. Count(t) = IF low > high THEN 0 ELSE high - low + 1
    BY DEF Count
  <2>3. {d \in Daemons : InUseIs(t, d)} = low..high /\ {d \in Daemons : InPoolIs(t, d)} = low..high
    <3>1. ASSUME NEW d \in Daemons
          PROVE  /\ InUseIs(t, d) <=> d \in low..high
                 /\ InPoolIs(t, d) <=> d \in low..high
      BY <1>1, <1>2 DEF InUseIs, InPoolIs, Active, Types
    <3> HIDE DEF low, high
    <3> QED
      BY <2>1, <3>1
  <2>4. Range(pool[t]) = low..high /\ IsInjective(pool[t])
    <3>1. CASE t = "standard"
      BY <1>3, <3>1 DEF Range, IsInjective
    <3>2. CASE t = "observable"
      <4>1. pool[t] = [n \in 1..ObservableCount |-> StandardCount + n]
        BY <1>3, <3>2
      <4>2. IsInjective(pool[t])
        BY <4>1 DEF IsInjective
      <4>3. ASSUME NEW d \in low..high
            PROVE  d \in Range(pool[t])
        <5>1. d - StandardCount \in 1..ObservableCount /\ d = StandardCount + (d - StandardCount)
          BY <3>2, <4>3
        <5> QED
          BY <4>1, <5>1 DEF Range
      <4>4. \A n \in 1..ObservableCount : StandardCount + n \in low..high
        BY <3>2
      <4> QED
        BY <4>1, <4>2, <4>3, <4>4 DEF Range
    <3> QED
      BY <3>1, <3>2 DEF Types
  <2> HIDE DEF low, high
  <2>5. InUse(t) = low..high
    BY <2>3, InUseFinite
  <2> QED
    BY <2>1, <2>2, <2>3, <2>4, <2>5 DEF Pooled, InPool
<1>6. ASSUME NEW t \in Types
      PROVE  Kept(t)
  <2>1. Count(t) \in Nat /\ failed[t] = 0
    BY <1>2 DEF Count
  <2> QED
    BY <1>5, <2>1 DEF Kept, Sized
<1>7. \A d \in Daemons : Idle(d) /\ Successor(d)
  BY <1>2 DEF Idle, Successor
<1>8. HoldersAlone
  BY DEF Init, HoldersAlone, Holds, Daemons
<1> QED
  BY <1>4, <1>6, <1>7, <1>8 DEF DaemonInv

(* What the invariant says of the pools and of who holds a daemon.         *)
LEMMA Sound ==
  ASSUME DaemonInv
  PROVE  PoolsAreSound /\ DaemonsServeOne
<1>1. ASSUME NEW t \in Types
      PROVE  /\ InPool(t) = {d \in Daemons : daemon[d].use = "pool" /\ daemon[d].type = t}
             /\ IsInjective(pool[t])
             /\ failed[t] + Cardinality(InUse(t)) = Count(t)
  BY DEF DaemonInv, Kept, Pooled, Sized, InPoolIs
<1>2. \A t \in Types : failed[t] \in 0..MaxDaemons
  <2>1. ASSUME NEW t \in Types
        PROVE  failed[t] \in 0..MaxDaemons
    <3>1. Cardinality(InUse(t)) \in Nat
      BY InUseFinite, FS_CardinalityType
    <3>2. Count(t) \in Nat /\ Count(t) <= MaxDaemons
      BY DEF Count
    <3>3. failed[t] \in Nat
      BY DEF DaemonInv, Typed
    <3> QED
      BY <1>1, <3>1, <3>2, <3>3
  <2> QED
    BY <2>1
<1>3. PoolsAreSound
  BY <1>1, <1>2 DEF PoolsAreSound, TypeOK, PoolsKeepTheirSize, DaemonInv, Typed
<1>4. \A t \in Types : \A d \in InPool(t) :
          daemon[d].runs = NoRequest /\ \A r \in Requests : ~Holds(r, d)
  <2>1. \A t \in Types : \A d \in InPool(t) : d \in Daemons /\ daemon[d].use = "pool"
    BY <1>1
  <2> QED
    BY <2>1 DEF DaemonInv, Idle, HoldersAlone
<1> QED
  BY <1>3, <1>4 DEF DaemonsServeOne, DaemonInv, HoldersAlone

-----------------------------------------------------------------------------
(* One daemon for another.                                                 *)
LEMMA Swapped ==
  ASSUME NEW S, IsFiniteSet(S), NEW d \in S, NEW n, n \notin S
  PROVE  Cardinality((S \ {d}) \cup {n}) = Cardinality(S)
<1>1. IsFiniteSet(S \ {d}) /\ Cardinality(S \ {d}) = Cardinality(S) - 1
  BY FS_RemoveElement
<1>2. Cardinality((S \ {d}) \cup {n}) = Cardinality(S \ {d}) + 1
  BY <1>1, FS_AddElement
<1>3. Cardinality(S) \in Nat
  BY FS_CardinalityType
<1> QED
  BY <1>1, <1>2, <1>3

(* A type whose daemons stay in use, and whose pool stays as it is.        *)
LEMMA TypeStays ==
  ASSUME NEW t \in Types, Kept(t), pool'[t] = pool[t], failed'[t] = failed[t],
         \A e \in Daemons : /\ InUseIs(t, e)' <=> InUseIs(t, e)
                            /\ InPoolIs(t, e)' <=> InPoolIs(t, e)
  PROVE  Kept(t)'
<1>1. InUse(t)' = InUse(t)
  BY InUseFinite, InUseAfter
<1>2. Sized(t)'
  BY <1>1 DEF Kept, Sized
<1>3. Pooled(t)'
  BY DEF Kept, Pooled, InPool
<1> QED
  BY <1>2, <1>3 DEF Kept

(* What the invariant says of one daemon.                                  *)
LEMMA PartsOfDaemon ==
  ASSUME DaemonInv, NEW d \in Daemons
  PROVE  Idle(d) /\ Successor(d) /\ daemon[d].replaces \in Daemons \cup {0}
<1>1. Idle(d) /\ Successor(d)
  BY DEF DaemonInv
<1>2. daemon[d] \in Daemon
  BY DEF DaemonInv, Typed
<1>3. daemon[d].replaces \in 0..MaxDaemons
  BY <1>2 DEF Daemon
<1>4. MaxDaemons \in Nat
  OBVIOUS
<1> QED
  BY <1>1, <1>3, <1>4 DEF Daemons

(* A step that leaves the uses of the daemons and who holds them alone.    *)
LEMMA UsesStay ==
  ASSUME DaemonInv, Typed', pool' = pool, failed' = failed,
         \A d \in Daemons : /\ daemon'[d].use = daemon[d].use
                            /\ daemon'[d].type = daemon[d].type
                            /\ daemon'[d].replaces = daemon[d].replaces
                            /\ daemon'[d].runs \in {daemon[d].runs, NoRequest},
         \A r \in Requests : /\ request'[r].daemon = request[r].daemon
                             /\ request'[r].completed = request[r].completed
  PROVE  DaemonInv'
<1>1. ASSUME NEW t \in Types
      PROVE  Kept(t)'
  BY TypeStays DEF DaemonInv, InUseIs, InPoolIs, Active
<1>2. ASSUME NEW d \in Daemons
      PROVE  Idle(d)' /\ Successor(d)'
  <2>1. Idle(d) /\ Successor(d) /\ daemon[d].replaces \in Daemons \cup {0}
    BY PartsOfDaemon
  <2>2. Idle(d)'
    BY <2>1 DEF Idle
  <2>3. Successor(d)'
    BY <2>1 DEF Successor, GivenUp
  <2> QED
    BY <2>2, <2>3
<1>3. HoldersAlone'
  BY DEF DaemonInv, HoldersAlone, Holds
<1> QED
  BY <1>1, <1>2, <1>3 DEF DaemonInv

(* A request that goes on keeps the daemon it has.                         *)
LEMMA RequestGoesOn ==
  ASSUME Typed, NEW r \in Requests, NEW pc,
         pc \in {"new", "waiting", "running", "own", "done", "abandoned"},
         request' = [request EXCEPT ![r].pc = pc]
  PROVE  /\ request' \in [Requests -> Request]
         /\ \A q \in Requests : /\ request'[q].daemon = request[q].daemon
                                /\ request'[q].completed = request[q].completed
  BY DEF Typed, Request

(* What a request or a process does by itself.                             *)
LEMMA ProcessSteps ==
  ASSUME DaemonInv, NEW d \in Daemons, ProcessFinishes(d) \/ Exits(d) \/ Noticed(d)
  PROVE  DaemonInv'
<1>1. Typed /\ daemon[d] \in Daemon
  BY DEF DaemonInv, Typed
<1>2. CASE Exits(d)
  <2> DEFINE g == [daemon[d] EXCEPT !.alive = FALSE]
  <2>1. /\ g \in Daemon /\ g.use = daemon[d].use /\ g.type = daemon[d].type
        /\ g.replaces = daemon[d].replaces /\ g.runs = daemon[d].runs
    BY <1>1 DEF Daemon
  <2>2. daemon' = [daemon EXCEPT ![d] = g] /\ UNCHANGED <<pool, request, failed>>
    BY <1>1, <1>2 DEF Exits
  <2> HIDE DEF g
  <2> QED
    BY <1>1, <2>1, <2>2, UsesStay DEF Typed
<1>3. CASE ProcessFinishes(d)
  <2> DEFINE g == [daemon[d] EXCEPT !.runs = NoRequest]
             r == daemon[d].runs
  <2>1. /\ g \in Daemon /\ g.use = daemon[d].use /\ g.type = daemon[d].type
        /\ g.replaces = daemon[d].replaces /\ g.runs = NoRequest
    BY <1>1 DEF Daemon
  <2>2. /\ daemon' = [daemon EXCEPT ![d] = g] /\ UNCHANGED <<pool, failed>>
        /\ r \in Requests
    BY <1>1, <1>3 DEF ProcessFinishes, Daemon
  <2>3. \/ request' = request
        \/ \E pc \in {"done", "own"} : request' = [request EXCEPT ![r].pc = pc]
    BY <1>3 DEF ProcessFinishes
  <2> HIDE DEF g, r
  <2>4. request' \in [Requests -> Request]
        /\ \A q \in Requests : /\ request'[q].daemon = request[q].daemon
                               /\ request'[q].completed = request[q].completed
    <3>1. CASE request' = request
      BY <1>1, <3>1 DEF Typed
    <3>2. CASE request' # request
      <4>1. PICK pc \in {"done", "own"} : r \in Requests /\ request' = [request EXCEPT ![r].pc = pc]
        BY <2>2, <2>3, <3>2
      <4> QED
        BY <1>1, <4>1, RequestGoesOn
    <3> QED
      BY <3>1, <3>2
  <2>5. Typed'
    BY <1>1, <2>1, <2>2, <2>4 DEF Typed
  <2> QED
    BY <1>1, <2>1, <2>2, <2>4, <2>5, UsesStay DEF Typed
<1>4. CASE Noticed(d)
  <2> DEFINE g == [daemon[d] EXCEPT !.noticed = TRUE, !.runs = NoRequest]
             r == daemon[d].runs
  <2>1. /\ g \in Daemon /\ g.use = daemon[d].use /\ g.type = daemon[d].type
        /\ g.replaces = daemon[d].replaces /\ g.runs = NoRequest
    BY <1>1, TRUE \in BOOLEAN DEF Daemon
  <2>2. /\ daemon' = [daemon EXCEPT ![d] = g] /\ UNCHANGED <<pool, failed>>
        /\ r \in Requests \cup {NoRequest}
    BY <1>1, <1>4 DEF Noticed, Daemon
  <2>3. \/ request' = request
        \/ r # NoRequest /\ \E pc \in {"done", "own"} : request' = [request EXCEPT ![r].pc = pc]
    BY <1>4 DEF Noticed, Rejected
  <2> HIDE DEF g, r
  <2>4. request' \in [Requests -> Request]
        /\ \A q \in Requests : /\ request'[q].daemon = request[q].daemon
                               /\ request'[q].completed = request[q].completed
    <3>1. CASE request' = request
      BY <1>1, <3>1 DEF Typed
    <3>2. CASE request' # request
      <4>1. PICK pc \in {"done", "own"} : r \in Requests /\ request' = [request EXCEPT ![r].pc = pc]
        BY <2>2, <2>3, <3>2
      <4> QED
        BY <1>1, <4>1, RequestGoesOn
    <3> QED
      BY <3>1, <3>2
  <2>5. Typed'
    BY <1>1, <2>1, <2>2, <2>4 DEF Typed
  <2> QED
    BY <1>1, <2>1, <2>2, <2>4, <2>5, UsesStay DEF Typed
<1> QED
  BY <1>2, <1>3, <1>4

(* A request goes on without a daemon of the pool.                         *)
LEMMA RequestSteps ==
  ASSUME DaemonInv, NEW r \in Requests, NEW pc,
         pc \in {"waiting", "own", "done"},
         request' = [request EXCEPT ![r].pc = pc], UNCHANGED <<daemon, pool, failed>>
  PROVE  DaemonInv'
<1>1. Typed
  BY DEF DaemonInv
<1>2. request' \in [Requests -> Request]
      /\ \A q \in Requests : /\ request'[q].daemon = request[q].daemon
                             /\ request'[q].completed = request[q].completed
  BY <1>1, RequestGoesOn
<1> QED
  BY <1>1, <1>2, UsesStay DEF Typed

LEMMA DisposeStep ==
  ASSUME DaemonInv, NEW r \in Requests, ObserverDisposes(r)
  PROVE  DaemonInv'
<1>1. Typed
  BY DEF DaemonInv
<1> DEFINE d == request[r].daemon
           g == [daemon[d] EXCEPT !.alive = FALSE, !.noticed = TRUE,
                                  !.disposed = TRUE, !.runs = NoRequest]
           pc == IF request[r].pc = "running" THEN "abandoned" ELSE request[r].pc
<1>2. /\ daemon' = [daemon EXCEPT ![d] = g] /\ UNCHANGED <<pool, failed>>
      /\ request' = [request EXCEPT ![r].pc = pc]
      /\ pc \in {"new", "waiting", "running", "own", "done", "abandoned"}
  BY <1>1 DEF ObserverDisposes, Typed, Request
<1> HIDE DEF pc
<1>3. request' \in [Requests -> Request]
      /\ \A q \in Requests : /\ request'[q].daemon = request[q].daemon
                             /\ request'[q].completed = request[q].completed
  BY <1>1, <1>2, RequestGoesOn
<1>4. CASE d \in Daemons
  <2>1. daemon[d] \in Daemon
    BY <1>1, <1>4 DEF Typed
  <2> HIDE DEF d
  <2>2. /\ g \in Daemon /\ g.use = daemon[d].use /\ g.type = daemon[d].type
        /\ g.replaces = daemon[d].replaces /\ g.runs = NoRequest
    BY <2>1, TRUE \in BOOLEAN, FALSE \in BOOLEAN DEF Daemon
  <2> HIDE DEF g
  <2>3. Typed'
    BY <1>1, <1>2, <1>3, <1>4, <2>2 DEF Typed
  <2> QED
    BY <1>1, <1>2, <1>3, <1>4, <2>2, <2>3, UsesStay DEF Typed
<1>5. CASE d \notin Daemons
  <2> HIDE DEF d, g
  <2>1. daemon' = daemon
    BY <1>1, <1>2, <1>5 DEF Typed
  <2>2. Typed'
    BY <1>1, <1>2, <1>3, <2>1 DEF Typed
  <2> QED
    BY <1>2, <1>3, <2>1, <2>2, UsesStay
<1> QED
  BY <1>4, <1>5

(* A daemon goes into its pool or out of it; one that was given up may be  *)
(* killed with it.                                                         *)
LEMMA MovesOn ==
  ASSUME DaemonInv, NEW d \in Daemons, Active(d), NEW u \in {"pool", "out", "testing"},
         daemon'[d].use = u, daemon'[d].type = daemon[d].type,
         u = "pool" => daemon'[d].runs = NoRequest,
         \A e \in Daemons \ {d} :
            /\ daemon'[e].use = daemon[e].use \/ (GivenUp(e) /\ daemon'[e].use = "gone")
            /\ daemon'[e].type = daemon[e].type
            /\ daemon'[e].replaces = daemon[e].replaces
            /\ daemon'[e].runs = daemon[e].runs,
         failed' = failed,
         NEW p, pool' = [pool EXCEPT ![daemon[d].type] = p],
         \/ u = "pool" /\ daemon[d].use # "pool" /\ p = Append(pool[daemon[d].type], d)
         \/ u # "pool" /\ daemon[d].use # "pool" /\ p = pool[daemon[d].type]
         \/ /\ u # "pool" /\ pool[daemon[d].type] # <<>>
            /\ d = Head(pool[daemon[d].type]) /\ p = Tail(pool[daemon[d].type])
  PROVE  /\ pool' \in [Types -> Seq(Daemons)]
         /\ \A t \in Types : Kept(t)'
         /\ \A e \in Daemons : Idle(e)' /\ Successor(e)'
<1>1. PICK t \in Types : t = daemon[d].type /\ Kept(t) /\ Typed /\ pool[t] \in Seq(Daemons)
  BY DEF DaemonInv, Typed, Daemon
<1>2. ASSUME NEW s \in Types, NEW e \in Daemons
      PROVE  /\ InUseIs(s, e)' <=> InUseIs(s, e)
             /\ e # d => (InPoolIs(s, e)' <=> InPoolIs(s, e))
             /\ s # t => (InPoolIs(s, e)' <=> InPoolIs(s, e))
  BY <1>1 DEF InUseIs, InPoolIs, Active, GivenUp
<1>3. /\ InPoolIs(t, d)' <=> u = "pool"
      /\ InPoolIs(t, d) <=> daemon[d].use = "pool"
  BY <1>1 DEF InPoolIs
<1>4. InPool(t) = Range(pool[t]) /\ IsInjective(pool[t])
      /\ Range(pool[t]) = {e \in Daemons : InPoolIs(t, e)}
  BY <1>1 DEF Kept, Pooled, InPool
<1>5. /\ p \in Seq(Daemons) /\ IsInjective(p)
      /\ Range(p) = {e \in Daemons : InPoolIs(t, e)'}
  <2>1. CASE u = "pool" /\ daemon[d].use # "pool" /\ p = Append(pool[t], d)
    <3>1. d \notin Range(pool[t])
      BY <1>3, <1>4, <2>1
    <3>2. p \in Seq(Daemons) /\ IsInjective(p) /\ Range(p) = Range(pool[t]) \cup {d}
      BY <1>1, <1>4, <2>1, <3>1, Appended
    <3> QED
      BY <1>1, <1>2, <1>3, <1>4, <2>1, <3>2
  <2>2. CASE u # "pool" /\ daemon[d].use # "pool" /\ p = pool[t]
    <3> QED
      BY <1>1, <1>2, <1>3, <1>4, <2>2
  <2>3. CASE u # "pool" /\ pool[t] # <<>> /\ d = Head(pool[t]) /\ p = Tail(pool[t])
    <3>1. p \in Seq(Daemons) /\ IsInjective(p) /\ Range(p) = Range(pool[t]) \ {d}
      BY <1>1, <1>4, <2>3, TailOf
    <3>2. /\ Range(p) \subseteq Daemons
          /\ \A e \in Daemons : e \in Range(p) <=> e # d /\ InPoolIs(t, e)
      BY <1>4, <3>1
    <3>3. \A e \in Daemons : InPoolIs(t, e)' <=> e # d /\ InPoolIs(t, e)
      BY <1>2, <1>3, <2>3
    <3> QED
      BY <3>1, <3>2, <3>3
  <2> QED
    BY <1>1, <2>1, <2>2, <2>3
<1>6. pool' \in [Types -> Seq(Daemons)] /\ pool'[t] = p
      /\ \A s \in Types \ {t} : pool'[s] = pool[s]
  BY <1>1, <1>5 DEF Typed
<1>7. ASSUME NEW s \in Types
      PROVE  Kept(s)'
  <2>1. CASE s = t
    <3>1. InUse(s)' = InUse(s)
      BY <1>2, InUseFinite, InUseAfter
    <3>2. Sized(s)'
      BY <1>1, <2>1, <3>1 DEF Kept, Sized
    <3>3. InPool(s)' = Range(p)
      BY <1>6, <2>1 DEF InPool
    <3>4. Pooled(s)'
      BY <1>5, <1>6, <2>1, <3>3 DEF Pooled
    <3> QED
      BY <3>2, <3>4 DEF Kept
  <2>2. CASE s # t
    BY <1>2, <1>6, <2>2, TypeStays DEF DaemonInv
  <2> QED
    BY <2>1, <2>2
<1>8. ASSUME NEW e \in Daemons
      PROVE  Idle(e)' /\ Successor(e)'
  <2>1. Idle(e) /\ Successor(e) /\ daemon[e].replaces \in Daemons \cup {0}
    BY PartsOfDaemon
  <2>2. Idle(e)'
    BY <2>1 DEF Idle, GivenUp
  <2>3. CASE e = d
    BY <2>2, <2>3 DEF Successor
  <2>4. CASE e # d
    BY <2>1, <2>2, <2>4 DEF Successor, GivenUp, Active
  <2> QED
    BY <2>3, <2>4
<1> QED
  BY <1>6, <1>7, <1>8

(* A daemon with a request, or one that is tested, is given up and another *)
(* one is made in its place.                                               *)
LEMMA Replaced ==
  ASSUME DaemonInv, NEW d \in Daemons, daemon[d].use \in {"out", "testing"},
         NEW n \in Daemons, NEW old \in {"replaced", "gone"}, Replace(d, n, old),
         UNCHANGED <<pool, failed>>
  PROVE  /\ daemon' \in [Daemons -> Daemon]
         /\ \A t \in Types : Kept(t)'
         /\ \A e \in Daemons : Idle(e)' /\ Successor(e)'
         /\ \A e \in Daemons \ {d} : daemon[e].use = "out" => daemon'[e].use = "out"
<1> DEFINE g == [daemon[d] EXCEPT !.use = old]
           from == IF old = "replaced" THEN d ELSE 0
           kind == daemon[d].type
           h == [daemon[n] EXCEPT !.use = "creating", !.type = kind, !.replaces = from]
<1>1. /\ Typed /\ Active(d) /\ kind \in Types /\ Kept(kind)
      /\ daemon[d] \in Daemon /\ daemon[n] \in Daemon
      /\ daemon[n].use = "none" /\ n # d
  BY DEF Active, DaemonInv, Typed, Daemon, Replace, IsUnused
<1>2. from \in 0..MaxDaemons /\ from \in {0, d}
  BY DEF Daemons
<1>3. daemon' = [daemon EXCEPT ![d] = g, ![n] = h]
  BY <1>1 DEF Replace, Typed
<1> HIDE DEF from
<1>4. g \in Daemon /\ g.use = old /\ g.type = kind /\ g.replaces = daemon[d].replaces
  BY <1>1 DEF Daemon
<1>5. /\ h \in Daemon /\ h.use = "creating" /\ h.type = kind /\ h.replaces = from
      /\ h.runs = NoRequest
  <2>1. daemon[n].runs = NoRequest
    BY <1>1 DEF DaemonInv, Idle
  <2> QED
    BY <1>1, <1>2, <2>1 DEF Daemon
<1> HIDE DEF g, h
<1>6. /\ daemon' \in [Daemons -> Daemon]
      /\ daemon'[d] = g /\ daemon'[n] = h
      /\ \A e \in Daemons \ {d, n} : daemon'[e] = daemon[e]
  BY <1>1, <1>3, <1>4, <1>5 DEF Typed
<1>7. ASSUME NEW s \in Types
      PROVE  Kept(s)'
  <2>1. ASSUME NEW e \in Daemons
        PROVE  /\ e \notin {d, n} => (InUseIs(s, e)' <=> InUseIs(s, e))
               /\ InPoolIs(s, e)' <=> InPoolIs(s, e)
    <3>1. CASE e = d
      BY <1>1, <1>4, <1>6, <3>1 DEF InPoolIs
    <3>2. CASE e = n
      BY <1>1, <1>5, <1>6, <3>2 DEF InPoolIs
    <3>3. CASE e \notin {d, n}
      BY <1>6, <3>3 DEF InUseIs, InPoolIs, Active
    <3> QED
      BY <3>1, <3>2, <3>3
  <2>2. /\ ~InUseIs(s, d)' /\ (InUseIs(s, d) <=> s = kind)
        /\ ~InUseIs(s, n) /\ (InUseIs(s, n)' <=> s = kind)
    BY <1>1, <1>4, <1>5, <1>6 DEF InUseIs, Active
  <2>3. CASE s = kind
    <3> DEFINE U == InUse(s)
    <3> HIDE DEF U, kind
    <3>1. /\ IsFiniteSet(U) /\ d \in U /\ n \notin U
          /\ InUse(s)' = (U \ {d}) \cup {n}
      BY <2>1, <2>2, <2>3, InUseFinite, InUseAfter DEF U
    <3>2. Cardinality((U \ {d}) \cup {n}) = Cardinality(U)
      BY <3>1, Swapped
    <3>3. Sized(s)'
      BY <1>1, <2>3, <3>1, <3>2 DEF Kept, Sized, U
    <3>4. Pooled(s)'
      BY <1>1, <2>1, <2>3 DEF Kept, Pooled, InPool
    <3> QED
      BY <3>3, <3>4 DEF Kept
  <2>4. CASE s # kind
    <3>1. \A e \in Daemons : InUseIs(s, e)' <=> InUseIs(s, e)
      BY <2>1, <2>2, <2>4
    <3> QED
      BY <2>1, <3>1, TypeStays DEF DaemonInv
  <2> QED
    BY <2>3, <2>4
<1>8. ASSUME NEW e \in Daemons
      PROVE  Idle(e)' /\ Successor(e)'
  <2>1. Idle(e) /\ Successor(e) /\ daemon[e].replaces \in Daemons \cup {0}
    BY PartsOfDaemon
  <2>2. CASE e = d
    BY <1>4, <1>6, <2>2 DEF Idle, Successor
  <2>3. CASE e = n
    <3>1. daemon'[n].replaces # 0 => daemon'[daemon'[n].replaces].use = old
      BY <1>2, <1>4, <1>5, <1>6
    <3> QED
      BY <1>5, <1>6, <2>3, <3>1 DEF Idle, Successor, GivenUp
  <2>4. CASE e \notin {d, n}
    <3>1. daemon'[e] = daemon[e]
      BY <1>6, <2>4
    <3>2. \A x \in Daemons : GivenUp(x) => GivenUp(x)'
      BY <1>1, <1>6, <1>4 DEF GivenUp
    <3> QED
      BY <2>1, <3>1, <3>2 DEF Idle, Successor, GivenUp
  <2> QED
    BY <2>2, <2>3, <2>4
<1>9. \A e \in Daemons \ {d} : daemon[e].use = "out" => daemon'[e].use = "out"
  BY <1>1, <1>6
<1> QED
  BY <1>6, <1>7, <1>8, <1>9

(* Nobody gets a daemon.                                                   *)
LEMMA HoldersStay ==
  ASSUME HoldersAlone,
         \A r \in Requests, d \in Daemons :
            Holds(r, d)' => Holds(r, d) /\ daemon'[d].use = "out"
  PROVE  HoldersAlone'
  BY DEF HoldersAlone

LEMMA CreatedStep ==
  ASSUME DaemonInv, NEW n \in Daemons, Created(n)
  PROVE  DaemonInv'
<1> DEFINE d == daemon[n].replaces
           t == daemon[n].type
           g == [daemon[n] EXCEPT !.use = "pool", !.alive = TRUE]
           up == [daemon EXCEPT ![n] = g]
<1>1. /\ Typed /\ daemon[n] \in Daemon /\ daemon[n].use = "creating" /\ Active(n)
      /\ t \in Types /\ daemon[n].runs = NoRequest
  <2>1. daemon[n].use = "creating" /\ Active(n)
    BY DEF Created, Active
  <2> QED
    BY <2>1 DEF DaemonInv, Typed, Daemon, Idle
<1>2. d = 0 \/ (d \in Daemons /\ GivenUp(d) /\ d # n /\ daemon[d] \in Daemon)
  <2>1. d \in Daemons \cup {0}
    BY <1>1 DEF Daemon, Daemons
  <2>2. d # 0 => GivenUp(d)
    BY <1>1 DEF DaemonInv, Successor
  <2>3. ~GivenUp(n)
    BY <1>1 DEF GivenUp
  <2> HIDE DEF d
  <2> QED
    BY <1>1, <2>1, <2>2, <2>3 DEF Typed
<1>3. daemon' = IF d = 0 THEN up ELSE [up EXCEPT ![d] = Killed(up[d])]
  BY <1>1 DEF Created, Typed
<1>4. pool' = [pool EXCEPT ![t] = Append(pool[t], n)] /\ UNCHANGED <<request, failed>>
  BY <1>1 DEF Created, Typed
<1>5. /\ g \in Daemon /\ g.use = "pool" /\ g.type = t /\ g.runs = NoRequest
  BY <1>1, TRUE \in BOOLEAN DEF Daemon
<1> HIDE DEF g, t, d
<1>6. /\ up \in [Daemons -> Daemon] /\ up[n] = g
      /\ \A e \in Daemons \ {n} : up[e] = daemon[e]
  BY <1>1, <1>5 DEF Typed
<1> HIDE DEF up
<1>7. d # 0 => LET k == Killed(daemon[d])
               IN  /\ k \in Daemon /\ k.use = "gone" /\ k.type = daemon[d].type
                   /\ k.replaces = daemon[d].replaces /\ k.runs = daemon[d].runs
  BY <1>2, TRUE \in BOOLEAN, FALSE \in BOOLEAN DEF Killed, Daemon
<1>8. /\ daemon' \in [Daemons -> Daemon] /\ daemon'[n] = g
      /\ \A e \in Daemons \ {n} : \/ daemon'[e] = daemon[e]
                                  \/ e = d /\ d # 0 /\ daemon'[e] = Killed(daemon[e])
  BY <1>2, <1>3, <1>6, <1>7
<1>9. \A e \in Daemons \ {n} :
            /\ daemon'[e].use = daemon[e].use \/ (GivenUp(e) /\ daemon'[e].use = "gone")
            /\ daemon'[e].type = daemon[e].type
            /\ daemon'[e].replaces = daemon[e].replaces
            /\ daemon'[e].runs = daemon[e].runs
  BY <1>2, <1>7, <1>8
<1>10. /\ pool' \in [Types -> Seq(Daemons)]
       /\ \A s \in Types : Kept(s)'
       /\ \A e \in Daemons : Idle(e)' /\ Successor(e)'
  BY <1>1, <1>4, <1>5, <1>8, <1>9, MovesOn DEF t
<1>11. HoldersAlone'
  <2>1. ASSUME NEW r \in Requests, NEW e \in Daemons, Holds(r, e)'
        PROVE  Holds(r, e) /\ daemon'[e].use = "out"
    <3>1. Holds(r, e)
      BY <1>4, <2>1 DEF Holds
    <3>2. daemon[e].use = "out"
      BY <3>1 DEF DaemonInv, HoldersAlone
    <3> QED
      BY <1>1, <1>9, <3>1, <3>2 DEF GivenUp
  <2> QED
    BY <2>1, HoldersStay DEF DaemonInv
<1> QED
  BY <1>1, <1>4, <1>8, <1>10, <1>11 DEF DaemonInv, Typed

LEMMA CreationFailsStep ==
  ASSUME DaemonInv, NEW n \in Daemons, CreationFails(n)
  PROVE  DaemonInv'
<1> DEFINE t == daemon[n].type
           g == [daemon[n] EXCEPT !.use = "gone", !.noticed = TRUE]
<1>1. /\ Typed /\ daemon[n] \in Daemon /\ daemon[n].use = "creating" /\ Active(n)
      /\ Kept(t) /\ t \in Types /\ daemon[n].runs = NoRequest
  BY DEF CreationFails, Active, DaemonInv, Typed, Daemon, Idle
<1>2. daemon' = [daemon EXCEPT ![n] = g] /\ UNCHANGED <<pool, request>>
      /\ failed' = [failed EXCEPT ![t] = failed[t] + 1]
  BY DEF CreationFails
<1>3. g \in Daemon /\ g.use = "gone" /\ g.type = t /\ g.replaces = daemon[n].replaces
  BY <1>1, TRUE \in BOOLEAN DEF Daemon
<1> HIDE DEF g
<1>4. /\ daemon' \in [Daemons -> Daemon] /\ daemon'[n] = g
      /\ \A e \in Daemons \ {n} : daemon'[e] = daemon[e]
  BY <1>1, <1>2, <1>3 DEF Typed
<1>5. /\ failed' \in [Types -> Nat] /\ failed'[t] = failed[t] + 1 /\ failed[t] \in Nat
      /\ \A s \in Types \ {t} : failed'[s] = failed[s]
  <2> HIDE DEF t
  <2> QED
    BY <1>1, <1>2 DEF Typed
<1>6. ASSUME NEW s \in Types
      PROVE  Kept(s)'
  <2>1. ASSUME NEW e \in Daemons
        PROVE  /\ e # n => (InUseIs(s, e)' <=> InUseIs(s, e))
               /\ InPoolIs(s, e)' <=> InPoolIs(s, e)
    <3>1. CASE e = n
      BY <1>1, <1>3, <1>4, <3>1 DEF InPoolIs
    <3>2. CASE e # n
      BY <1>4, <3>2 DEF InUseIs, InPoolIs, Active
    <3> QED
      BY <3>1, <3>2
  <2>2. ~InUseIs(s, n)' /\ (InUseIs(s, n) <=> s = t)
    BY <1>1, <1>3, <1>4 DEF InUseIs, Active
  <2>3. CASE s = t
    <3> DEFINE U == InUse(s)
    <3> HIDE DEF U, t
    <3>1. IsFiniteSet(U) /\ n \in U /\ InUse(s)' = U \ {n}
      BY <2>1, <2>2, <2>3, InUseFinite, InUseAfter DEF U
    <3>2. Cardinality(U \ {n}) = Cardinality(U) - 1 /\ Cardinality(U) \in Nat
      BY <3>1, FS_RemoveElement, FS_CardinalityType
    <3>3. failed[s] + Cardinality(U) = Count(s)
      BY <1>1, <2>3 DEF Kept, Sized, U
    <3>4. failed'[s] + Cardinality(InUse(s)') = Count(s)
      BY <1>5, <2>3, <3>1, <3>2, <3>3
    <3>5. Sized(s)'
      BY <3>4 DEF Sized
    <3>6. Pooled(s)'
      BY <1>1, <1>2, <2>1, <2>3 DEF Kept, Pooled, InPool
    <3> QED
      BY <3>5, <3>6 DEF Kept
  <2>4. CASE s # t
    <3>1. \A e \in Daemons : InUseIs(s, e)' <=> InUseIs(s, e)
      BY <2>1, <2>2, <2>4
    <3> QED
      BY <1>2, <1>5, <2>1, <2>4, <3>1, TypeStays DEF DaemonInv
  <2> QED
    BY <2>3, <2>4
<1>7. ASSUME NEW e \in Daemons
      PROVE  Idle(e)' /\ Successor(e)'
  <2>1. Idle(e) /\ Successor(e) /\ daemon[e].replaces \in Daemons \cup {0}
    BY PartsOfDaemon
  <2>2. \A x \in Daemons : GivenUp(x) => GivenUp(x)'
    BY <1>3, <1>4 DEF GivenUp
  <2>3. CASE e = n
    BY <1>3, <1>4, <2>3 DEF Idle, Successor
  <2>4. CASE e # n
    BY <1>4, <2>1, <2>2, <2>4 DEF Idle, Successor, GivenUp
  <2> QED
    BY <2>3, <2>4
<1>8. HoldersAlone'
  <2>1. ASSUME NEW r \in Requests, NEW e \in Daemons, Holds(r, e)'
        PROVE  Holds(r, e) /\ daemon'[e].use = "out"
    <3>1. Holds(r, e)
      BY <1>2, <2>1 DEF Holds
    <3>2. daemon[e].use = "out"
      BY <3>1 DEF DaemonInv, HoldersAlone
    <3> QED
      BY <1>1, <1>4, <3>1, <3>2
  <2> QED
    BY <2>1, HoldersStay DEF DaemonInv
<1> QED
  BY <1>1, <1>2, <1>4, <1>5, <1>6, <1>7, <1>8 DEF DaemonInv, Typed

(* A daemon of the given use, and all others as they are.                  *)
LEMMA OneUse ==
  ASSUME DaemonInv, NEW d \in Daemons, Active(d), NEW u \in {"pool", "out", "testing"},
         NEW x \in Requests \cup {NoRequest},
         u = "pool" => x = NoRequest,
         daemon' = [daemon EXCEPT ![d] = [daemon[d] EXCEPT !.use = u, !.runs = x]],
         failed' = failed,
         NEW p, pool' = [pool EXCEPT ![daemon[d].type] = p],
         \/ u = "pool" /\ daemon[d].use # "pool" /\ p = Append(pool[daemon[d].type], d)
         \/ u # "pool" /\ daemon[d].use # "pool" /\ p = pool[daemon[d].type]
         \/ /\ u # "pool" /\ pool[daemon[d].type] # <<>>
            /\ d = Head(pool[daemon[d].type]) /\ p = Tail(pool[daemon[d].type])
  PROVE  /\ daemon' \in [Daemons -> Daemon]
         /\ pool' \in [Types -> Seq(Daemons)]
         /\ \A t \in Types : Kept(t)'
         /\ \A e \in Daemons : Idle(e)' /\ Successor(e)'
         /\ daemon'[d].use = u
         /\ \A e \in Daemons \ {d} : daemon'[e].use = daemon[e].use
<1> DEFINE g == [daemon[d] EXCEPT !.use = u, !.runs = x]
<1>1. Typed /\ daemon[d] \in Daemon
  BY DEF DaemonInv, Typed
<1>2. /\ g \in Daemon /\ g.use = u /\ g.type = daemon[d].type /\ g.runs = x
  BY <1>1 DEF Daemon
<1>3. daemon' = [daemon EXCEPT ![d] = g]
  OBVIOUS
<1> HIDE DEF g
<1>4. /\ daemon' \in [Daemons -> Daemon] /\ daemon'[d] = g
      /\ \A e \in Daemons \ {d} : daemon'[e] = daemon[e]
  BY <1>1, <1>2, <1>3 DEF Typed
<1>5. /\ pool' \in [Types -> Seq(Daemons)]
      /\ \A t \in Types : Kept(t)'
      /\ \A e \in Daemons : Idle(e)' /\ Successor(e)'
  BY <1>2, <1>4, MovesOn
<1> QED
  BY <1>2, <1>4, <1>5

LEMMA PingSteps ==
  ASSUME DaemonInv, NEW d \in Daemons, PingAnswered(d) \/ PingTimesOut(d)
  PROVE  DaemonInv'
<1>1. Typed /\ daemon[d] \in Daemon /\ daemon[d].use = "testing" /\ Active(d)
      /\ UNCHANGED <<request, failed>>
  BY DEF DaemonInv, Typed, PingAnswered, PingTimesOut, Active
<1>2. CASE PingAnswered(d)
  <2>1. daemon[d].type \in Types
    BY <1>1 DEF Daemon
  <2>2. pool' = [pool EXCEPT ![daemon[d].type] = Append(pool[daemon[d].type], d)]
    BY <1>2, <2>1 DEF PingAnswered
  <2>3. daemon' = [daemon EXCEPT ![d] = [daemon[d] EXCEPT !.use = "pool", !.runs = NoRequest]]
    <3>1. daemon[d].runs = NoRequest
      BY <1>2 DEF PingAnswered
    <3>2. [daemon[d] EXCEPT !.use = "pool"]
             = [daemon[d] EXCEPT !.use = "pool", !.runs = NoRequest]
      BY <1>1, <3>1 DEF Daemon
    <3>3. daemon' = [daemon EXCEPT ![d] = [daemon[d] EXCEPT !.use = "pool"]]
      BY <1>2 DEF PingAnswered
    <3> QED
      BY <3>2, <3>3
  <2>4. /\ daemon' \in [Daemons -> Daemon]
        /\ pool' \in [Types -> Seq(Daemons)]
        /\ \A t \in Types : Kept(t)'
        /\ \A e \in Daemons : Idle(e)' /\ Successor(e)'
        /\ \A e \in Daemons \ {d} : daemon'[e].use = daemon[e].use
    BY <1>1, <2>2, <2>3, OneUse
  <2>5. HoldersAlone'
    <3>1. ASSUME NEW r \in Requests, NEW e \in Daemons, Holds(r, e)'
          PROVE  Holds(r, e) /\ daemon'[e].use = "out"
      <4>1. Holds(r, e) /\ daemon[e].use = "out"
        BY <1>1, <3>1 DEF Holds, DaemonInv, HoldersAlone
      <4> QED
        BY <1>1, <2>4, <4>1
    <3> QED
      BY <3>1, HoldersStay DEF DaemonInv
  <2> QED
    BY <1>1, <2>4, <2>5 DEF DaemonInv, Typed
<1>3. CASE PingTimesOut(d)
  <2>1. PICK n \in Daemons : Replace(d, n, "replaced") /\ pool' = pool
    BY <1>3 DEF PingTimesOut
  <2>2. /\ daemon' \in [Daemons -> Daemon]
        /\ \A t \in Types : Kept(t)'
        /\ \A e \in Daemons : Idle(e)' /\ Successor(e)'
        /\ \A e \in Daemons \ {d} : daemon[e].use = "out" => daemon'[e].use = "out"
    BY <1>1, <2>1, Replaced
  <2>3. HoldersAlone'
    <3>1. ASSUME NEW r \in Requests, NEW e \in Daemons, Holds(r, e)'
          PROVE  Holds(r, e) /\ daemon'[e].use = "out"
      <4>1. Holds(r, e) /\ daemon[e].use = "out"
        BY <1>1, <3>1 DEF Holds, DaemonInv, HoldersAlone
      <4> QED
        BY <1>1, <2>2, <4>1
    <3> QED
      BY <3>1, HoldersStay DEF DaemonInv
  <2> QED
    BY <1>1, <2>1, <2>2, <2>3 DEF DaemonInv, Typed
<1> QED
  BY <1>2, <1>3

(* The daemon at the head of a pool is free and leaves the pool.           *)
LEMMA TakeStep ==
  ASSUME DaemonInv, NEW r \in Requests, Take(r)
  PROVE  DaemonInv'
<1>1. PICK t \in Types : /\ t = TypeOf(r) /\ Typed /\ pool[t] # <<>> /\ Pooled(t)
                         /\ pool[t] \in Seq(Daemons)
  BY DEF DaemonInv, Take, TypeOf, Types, Kept, Typed
<1>2. PICK d \in Daemons, p \in Seq(Daemons) :
         d = Head(pool[t]) /\ p = Tail(pool[t]) /\ d \in InPool(t)
  BY <1>1, TailOf DEF Pooled, InPool
<1>3. PICK sent \in BOOLEAN :
         /\ daemon' = [daemon EXCEPT ![d].use = "out", ![d].runs = IF sent THEN r ELSE @]
         /\ request' = [request EXCEPT ![r].daemon = d, ![r].sent = sent,
                                       ![r].pc = IF sent THEN "running" ELSE "own"]
         /\ pool' = Taken(t) /\ failed' = failed
  BY <1>1, <1>2 DEF Take
<1> DEFINE x == IF sent THEN r ELSE daemon[d].runs
           next == IF sent THEN "running" ELSE "own"
<1>4. daemon[d].use = "pool" /\ Active(d) /\ daemon[d].type = t /\ daemon[d] \in Daemon
  BY <1>1, <1>2 DEF Pooled, InPoolIs, Active, Typed
<1>5. x \in Requests \cup {NoRequest} /\ next \in {"own", "running"}
  BY <1>4 DEF Daemon
<1>6. pool' = [pool EXCEPT ![daemon[d].type] = p] /\ failed' = failed
  BY <1>2, <1>3, <1>4 DEF Taken
<1>7. daemon' = [daemon EXCEPT ![d] = [daemon[d] EXCEPT !.use = "out", !.runs = x]]
  BY <1>3
<1>8. request' = [request EXCEPT ![r] = [request[r] EXCEPT !.daemon = d, !.sent = sent,
                                                          !.pc = next]]
  BY <1>3
<1> HIDE DEF x, next
<1>9. /\ daemon' \in [Daemons -> Daemon]
      /\ pool' \in [Types -> Seq(Daemons)]
      /\ \A s \in Types : Kept(s)'
      /\ \A e \in Daemons : Idle(e)' /\ Successor(e)'
      /\ daemon'[d].use = "out"
      /\ \A e \in Daemons \ {d} : daemon'[e].use = daemon[e].use
  <2>1. /\ "out" # "pool" /\ pool[daemon[d].type] # <<>>
        /\ d = Head(pool[daemon[d].type]) /\ p = Tail(pool[daemon[d].type])
    BY <1>1, <1>2, <1>4
  <2> QED
    BY <1>4, <1>5, <1>6, <1>7, <2>1, OneUse
<1>10. /\ request' \in [Requests -> Request]
      /\ request'[r].daemon = d
      /\ \A q \in Requests \ {r} : request'[q] = request[q]
  <2>1. request[r] \in Request /\ d \in 0..MaxDaemons
    BY <1>1 DEF Typed, Daemons
  <2>2. [request[r] EXCEPT !.daemon = d, !.sent = sent, !.pc = next] \in Request
    BY <1>5, <2>1 DEF Request
  <2>3. [request[r] EXCEPT !.daemon = d, !.sent = sent, !.pc = next].daemon = d
    BY <2>1 DEF Request
  <2> QED
    BY <1>1, <1>8, <2>2, <2>3 DEF Typed
<1>11. \A q \in Requests : ~Holds(q, d)
  BY <1>4 DEF DaemonInv, HoldersAlone
<1>12. HoldersAlone'
  <2>1. ASSUME NEW q \in Requests \ {r}, NEW e \in Daemons, Holds(q, e)'
        PROVE  Holds(q, e) /\ e # d /\ daemon'[e].use = "out"
    <3>1. Holds(q, e)
      BY <1>10, <2>1 DEF Holds
    <3>2. e # d /\ daemon[e].use = "out"
      BY <1>11, <3>1 DEF DaemonInv, HoldersAlone
    <3> QED
      BY <1>9, <3>1, <3>2
  <2>2. \A e \in Daemons : Holds(r, e)' => e = d
    BY <1>10 DEF Holds
  <2> QED
    BY <1>9, <2>1, <2>2 DEF DaemonInv, HoldersAlone
<1> QED
  BY <1>1, <1>6, <1>9, <1>10, <1>12 DEF DaemonInv, Typed

LEMMA CallSteps ==
  ASSUME DaemonInv, NEW r \in Requests,
         Call(r) \/ Observe(r) \/ StdErr(r) \/ OwnProcessEnds(r)
  PROVE  DaemonInv'
<1>1. CASE Take(r)
  BY <1>1, TakeStep
<1>2. CASE /\ \E pc \in {"waiting", "own", "done"} : request' = [request EXCEPT ![r].pc = pc]
           /\ UNCHANGED <<daemon, pool, failed>>
  <2>1. PICK pc \in {"waiting", "own", "done"} : request' = [request EXCEPT ![r].pc = pc]
    BY <1>2
  <2> QED
    BY <1>2, <2>1, RequestSteps
<1> QED
  BY <1>1, <1>2 DEF Call, Observe, StdErr, OwnProcessEnds, RunsOnItsOwn

(* A daemon comes back from the request that held it, and from no other.   *)
LEMMA ReturnStep ==
  ASSUME DaemonInv, NEW r \in Requests, ReturnsDaemon(r)
  PROVE  DaemonInv'
<1>1. Typed
  BY DEF DaemonInv
<1>2. PICK d \in Daemons : d = request[r].daemon
  BY <1>1 DEF ReturnsDaemon, Typed, Request, Daemons
<1>3. Holds(r, d) /\ daemon[d].use = "out" /\ Active(d) /\ daemon[d] \in Daemon
      /\ \A q \in Requests : Holds(q, d) => q = r
  <2>1. Holds(r, d)
    BY <1>2 DEF ReturnsDaemon, Holds, Completed
  <2> QED
    BY <1>1, <2>1 DEF DaemonInv, HoldersAlone, Active, Typed
<1>4. /\ request' \in [Requests -> Request]
      /\ request'[r].completed
      /\ \A q \in Requests \ {r} : request'[q] = request[q]
      /\ failed' = failed
  <2>1. request' = [request EXCEPT ![r].completed = TRUE] /\ failed' = failed
    BY DEF ReturnsDaemon
  <2> QED
    BY <1>1, <2>1, TRUE \in BOOLEAN DEF Typed, Request
<1>5. ASSUME \A e \in Daemons \ {d} : daemon[e].use = "out" => daemon'[e].use = "out"
      PROVE  HoldersAlone'
  <2>1. ASSUME NEW q \in Requests, NEW e \in Daemons, Holds(q, e)'
        PROVE  Holds(q, e) /\ daemon'[e].use = "out"
    <3>1. q # r /\ Holds(q, e)
      BY <1>4, <2>1 DEF Holds
    <3>2. e # d /\ daemon[e].use = "out"
      BY <1>3, <3>1 DEF DaemonInv, HoldersAlone
    <3> QED
      BY <1>5, <3>1, <3>2
  <2> QED
    BY <2>1, HoldersStay DEF DaemonInv
<1>6. CASE \E n \in Daemons, old \in {"replaced", "gone"} : Replace(d, n, old) /\ pool' = pool
  <2>1. PICK n \in Daemons, old \in {"replaced", "gone"} : Replace(d, n, old) /\ pool' = pool
    BY <1>6
  <2>2. /\ daemon' \in [Daemons -> Daemon]
        /\ \A t \in Types : Kept(t)'
        /\ \A e \in Daemons : Idle(e)' /\ Successor(e)'
        /\ \A e \in Daemons \ {d} : daemon[e].use = "out" => daemon'[e].use = "out"
    BY <1>3, <1>4, <2>1, Replaced
  <2>3. HoldersAlone'
    BY <1>5, <2>2
  <2> QED
    BY <1>1, <1>4, <2>1, <2>2, <2>3 DEF DaemonInv, Typed
<1>7. CASE daemon' = [daemon EXCEPT ![d].use = "testing"] /\ pool' = pool
  <2>1. daemon' = [daemon EXCEPT ![d] = [daemon[d] EXCEPT !.use = "testing",
                                                          !.runs = daemon[d].runs]]
    <3>1. [daemon[d] EXCEPT !.use = "testing"]
             = [daemon[d] EXCEPT !.use = "testing", !.runs = daemon[d].runs]
      BY <1>3 DEF Daemon
    <3> QED
      BY <1>7, <3>1
  <2>2. daemon[d].type \in Types
    BY <1>3 DEF Daemon
  <2>3. pool' = [pool EXCEPT ![daemon[d].type] = pool[daemon[d].type]]
    BY <1>1, <1>7, <2>2 DEF Typed
  <2>4. daemon[d].runs \in Requests \cup {NoRequest}
    BY <1>3 DEF Daemon
  <2>5. /\ daemon' \in [Daemons -> Daemon]
        /\ pool' \in [Types -> Seq(Daemons)]
        /\ \A t \in Types : Kept(t)'
        /\ \A e \in Daemons : Idle(e)' /\ Successor(e)'
        /\ \A e \in Daemons \ {d} : daemon'[e].use = daemon[e].use
    BY <1>3, <1>4, <2>1, <2>3, <2>4, OneUse
  <2>6. HoldersAlone'
    BY <1>5, <2>5
  <2> QED
    BY <1>1, <1>4, <2>5, <2>6 DEF DaemonInv, Typed
<1> QED
  BY <1>2, <1>6, <1>7 DEF ReturnsDaemon, Pushed

LEMMA NextHolds ==
  ASSUME DaemonInv, [Next]_vars
  PROVE  DaemonInv'
<1>1. CASE UNCHANGED vars
  <2>1. daemon' = daemon /\ pool' = pool /\ request' = request /\ failed' = failed
    BY <1>1 DEF vars
  <2> QED
    BY <2>1, UsesStay DEF DaemonInv, Typed
<1>2. CASE Pool
  BY <1>2, CreatedStep, CreationFailsStep, PingSteps DEF Pool
<1>3. ASSUME NEW r \in Requests,
             \/ Call(r) \/ Observe(r) \/ StdErr(r) \/ OwnProcessEnds(r)
             \/ ReturnsDaemon(r) \/ ObserverDisposes(r)
      PROVE  DaemonInv'
  BY <1>3, CallSteps, ReturnStep, DisposeStep
<1>4. ASSUME NEW d \in Daemons, ProcessFinishes(d) \/ Exits(d) \/ Noticed(d)
      PROVE  DaemonInv'
  BY <1>4, ProcessSteps
<1> QED
  BY <1>1, <1>2, <1>3, <1>4 DEF Next

(* The daemons and the calls keep to DaemonInv in every reachable state.   *)
THEOREM Invariant == Spec => []DaemonInv
<1>1. Init => DaemonInv
  BY InitHolds
<1>2. DaemonInv /\ [Next]_vars => DaemonInv'
  BY NextHolds
<1> QED
  BY <1>1, <1>2, PTL DEF Spec

-----------------------------------------------------------------------------
(* The variables keep their types, the pools are what the uses of the      *)
(* daemons say, and there are as many daemons in use as the options ask    *)
(* for, less those whose making failed: no sequence of exits, pings,       *)
(* replacements and returns loses one or puts it back twice.               *)
THEOREM SoundPools == Spec => []PoolsAreSound
  BY Invariant, Sound, PTL

(* A daemon in a pool is free, and one that is out has one holder.         *)
THEOREM ServeOne == Spec => []DaemonsServeOne
  BY Invariant, Sound, PTL
=============================================================================
