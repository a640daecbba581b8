------------------------ MODULE JupyterServers_proofs ------------------------
(***************************************************************************)
(* Proofs about JupyterServers, for every number of calls and of changes   *)
(* of the server.                                                          *)
(***************************************************************************)
EXTENDS JupyterServers, TLAPS

USE ServerBounds

(***************************************************************************)
(* The invariant, of the calls, starts, servers and caches cl, st, sv, pr  *)
(* and ca: those of a state, or what an action makes of them before the    *)
(* promises settle.                                                        *)
(***************************************************************************)
Typed(cl, st, sv, pr, ca) ==
    /\ cl \in [Calls -> Call]
    /\ st \in [Calls -> Start]
    /\ sv \in [Calls -> Server]
    /\ pr \in [Keys -> 0..MaxCalls]
    /\ ca \in [Keys -> 0..MaxCalls]

OwnKey(cl, p) == \A key \in Keys : p[key] # NoCall =>
                    cl[p[key]].pc # "new" /\ cl[p[key]].key = key

(* A start in flight is awaited by the call that began it, so that its     *)
(* failure is noticed and forgotten under the right key.                   *)
Awaited(cl, i) == cl[i].pc = "waiting" /\ ~cl[i].cached /\ cl[i].of = i

StartsAwaited(cl, st) ==
    \A i \in Calls : st[i].pc \in {"checking", "connecting", "refreshing"} =>
        Awaited(cl, i)

(* A call that was not made has begun nothing.                             *)
NothingEarly(cl, st, sv) ==
    \A i \in Calls : cl[i].pc = "new" => st[i].pc = "none" /\ sv[i].promise = "none"

(* A start connects to a server of its key, and as long as a server is     *)
(* being made, the start that made it waits for it.                        *)
Connected(cl, st, sv, ca) ==
    /\ \A key \in Keys : ca[key] # NoCall => sv[ca[key]].promise # "none"
    /\ \A i \in Calls : st[i].pc = "connecting" =>
          /\ st[i].joined \in Calls /\ cl[st[i].joined].pc # "new"
          /\ cl[st[i].joined].key = cl[i].key
          /\ sv[st[i].joined].promise # "none"

MakersWait(st, sv) ==
    \A j \in Calls : sv[j].promise = "pending" =>
        /\ st[j].pc = "connecting" /\ st[j].joined = j
        /\ sv[j].work \in {"process", "creating"}

(* A failure that is cached is one that is about to be noticed.            *)
FailuresNoticed(cl, st, sv, pr, ca) ==
    \A key \in Keys :
        /\ pr[key] # NoCall /\ st[pr[key]].pc = "failed" => Awaited(cl, pr[key])
        /\ ca[key] # NoCall /\ Broken(sv, ca[key]) =>
              st[ca[key]].pc = "connecting" /\ st[ca[key]].joined = ca[key]

(* Until the user selects another server, what is cached under a key is    *)
(* the live server of the key, and starts connect to no other.             *)
LiveIn(sv, j) == /\ sv[j].work \in {"process", "creating", "up"}
                 /\ sv[j].promise \in {"pending", "resolved"}

LiveCached(cl, st, sv, ca) ==
    changes = 0 => \A j \in Calls : LiveIn(sv, j) =>
        /\ ca[cl[j].key] = j
        /\ \A i \in Calls : st[i].pc = "connecting" /\ cl[i].key = cl[j].key =>
              st[i].joined = j

Ready(cl, st, sv, pr, ca) ==
    /\ Typed(cl, st, sv, pr, ca)
    /\ OwnKey(cl, pr) /\ OwnKey(cl, ca)
    /\ StartsAwaited(cl, st) /\ NothingEarly(cl, st, sv)
    /\ Connected(cl, st, sv, ca) /\ MakersWait(st, sv)
    /\ FailuresNoticed(cl, st, sv, pr, ca)
    /\ LiveCached(cl, st, sv, ca)

(* Between the tasks nothing is left to settle.                            *)
Settled == /\ \A i \in Calls : start[i].pc = "connecting" =>
                 server[start[i].joined].promise = "pending"
           /\ FailuresAreForgotten

IInv == /\ Ready(call, start, server, serverPromise, cache)
        /\ Settled
        /\ changes \in 0..MaxChanges

-----------------------------------------------------------------------------
LEMMA Sound ==
  ASSUME IInv
  PROVE  OneServerPerKey /\ CachesAreSound
<1>1. TypeOK
  <2>1. \A key \in Keys : \A c \in {serverPromise[key], cache[key]} \ {NoCall} :
           call[c].pc # "new" /\ call[c].key = key
    BY DEF IInv, Ready, OwnKey
  <2> QED
    BY <2>1 DEF IInv, Ready, Typed, TypeOK
<1>2. FailuresAreForgotten
  BY DEF IInv, Settled
<1>3. OneServerPerKey
  <2> SUFFICES ASSUME changes = 0, NEW i \in Calls, NEW j \in Calls,
                      i # j, Live(i), Live(j)
               PROVE  KeyOf(i) # KeyOf(j)
    BY DEF OneServerPerKey
  <2>1. cache[KeyOf(i)] = i /\ cache[KeyOf(j)] = j
    BY DEF IInv, Ready, LiveCached, Live, LiveIn, KeyOf
  <2> QED
    BY <2>1
<1> QED
  BY <1>1, <1>2, <1>3 DEF CachesAreSound

-----------------------------------------------------------------------------
(* What settles keeps the invariant.                                       *)
LEMMA SettlesKeeps ==
  ASSUME IInv, NEW cl, NEW st, NEW sv, NEW pr, NEW ca,
         Ready(cl, st, sv, pr, ca), Settles(cl, st, sv, pr, ca)
  PROVE  IInv'
<1> DEFINE broken == {cl[i].key : i \in {j \in Calls :
                         st[j].pc = "connecting" /\ Broken(sv, st[j].joined)}}
           failed == {cl[c].key : c \in {d \in Calls :
                         cl[d].pc = "waiting" /\ ~cl[d].cached /\ call'[d].pc = "failed"}}
           promise(i) == IF st[i].joined = NoCall THEN "none" ELSE sv[st[i].joined].promise
<1>1. /\ server' = sv /\ changes' = changes
      /\ start' = [i \in Calls |-> StartSettled(st[i], promise(i), cl[i].cancelled)]
      /\ call' = [c \in Calls |-> CallSettled(c, cl[c])]
      /\ serverPromise' = Forgotten(pr, failed)
      /\ cache' = Forgotten(ca, broken)
  BY DEF Settles
<1>2. Typed(cl, st, sv, pr, ca)
  BY DEF Ready
<1>3. \A i \in Calls :
        /\ cl[i] \in Call /\ st[i] \in Start /\ sv[i] \in Server
  BY <1>2 DEF Typed
<1>4. \A i \in Calls :
        /\ start'[i] \in Start /\ start'[i].joined = st[i].joined
        /\ st[i].pc # "connecting" => start'[i] = st[i]
        /\ st[i].pc = "connecting" =>
              start'[i].pc \in {"connecting", "done", "failed", "refreshing"}
  BY <1>1, <1>3 DEF StartSettled, Start
<1>5. \A i \in Calls : start'[i].pc = "connecting" =>
        st[i].pc = "connecting" /\ sv[st[i].joined].promise = "pending"
  <2> SUFFICES ASSUME NEW i \in Calls, start'[i].pc = "connecting"
               PROVE  st[i].pc = "connecting" /\ sv[st[i].joined].promise = "pending"
    OBVIOUS
  <2>1. st[i].pc = "connecting"
    BY <1>4
  <2>2. st[i].joined \in Calls /\ sv[st[i].joined].promise \in
           {"none", "pending", "resolved", "rejected", "cancelled"}
    BY <1>3, <2>1 DEF Ready, Connected, Server
  <2>3. promise(i) = sv[st[i].joined].promise
    BY <2>2 DEF NoCall, Calls
  <2>4. promise(i) \notin {"resolved", "rejected", "cancelled"}
    BY <1>1, <1>3, <2>1 DEF StartSettled, Start
  <2>5. sv[st[i].joined].promise # "none"
    BY <2>1 DEF Ready, Connected
  <2> QED
    BY <2>1, <2>2, <2>3, <2>4, <2>5
<1>6. \A c \in Calls :
        /\ call'[c] \in Call
        /\ call'[c].key = cl[c].key /\ call'[c].cached = cl[c].cached
        /\ call'[c].of = cl[c].of
        /\ call'[c].pc = cl[c].pc
           \/ (cl[c].pc = "waiting" /\ call'[c].pc \in {"done", "failed"})
  BY <1>1, <1>3 DEF CallSettled, Call
<1>7. \A i \in Calls : Awaited(cl, i) =>
        call'[i].pc = IF start'[i].pc \in {"done", "failed"} THEN start'[i].pc
                      ELSE "waiting"
  BY <1>1, <1>3 DEF CallSettled, Call, Awaited, EndOfStart
<1>8. Typed(call, start, server, serverPromise, cache)'
  <2>1. /\ call' \in [Calls -> Call] /\ start' \in [Calls -> Start]
        /\ server' \in [Calls -> Server]
    BY <1>1, <1>2, <1>4, <1>6 DEF Typed
  <2>2. serverPromise' \in [Keys -> 0..MaxCalls] /\ cache' \in [Keys -> 0..MaxCalls]
    BY <1>1, <1>2 DEF Typed, Forgotten, NoCall
  <2> QED
    BY <2>1, <2>2 DEF Typed
<1> HIDE DEF broken, failed
<1>9. \A key \in Keys :
        /\ serverPromise'[key] # NoCall =>
              serverPromise'[key] = pr[key] /\ pr[key] \in Calls /\ key \notin failed
        /\ cache'[key] # NoCall =>
              cache'[key] = ca[key] /\ ca[key] \in Calls /\ key \notin broken
  BY <1>1, <1>2 DEF Typed, Forgotten, NoCall, Calls
<1>10. OwnKey(call, serverPromise)' /\ OwnKey(call, cache)'
  <2>1. OwnKey(cl, pr) /\ OwnKey(cl, ca)
    BY DEF Ready
  <2> QED
    BY <2>1, <1>6, <1>9 DEF OwnKey
<1>11. StartsAwaited(call, start)'
  <2> SUFFICES ASSUME NEW i \in Calls,
                      start'[i].pc \in {"checking", "connecting", "refreshing"}
               PROVE  Awaited(call, i)'
    BY DEF StartsAwaited
  <2>1. st[i].pc \in {"checking", "connecting", "refreshing"}
    BY <1>4
  <2>2. Awaited(cl, i)
    BY <2>1 DEF Ready, StartsAwaited
  <2> QED
    BY <2>2, <1>6, <1>7 DEF Awaited
<1>12. NothingEarly(call, start, server)'
  <2> SUFFICES ASSUME NEW i \in Calls, call'[i].pc = "new"
               PROVE  start'[i].pc = "none" /\ server'[i].promise = "none"
    BY DEF NothingEarly
  <2>1. cl[i].pc = "new"
    BY <1>6
  <2> QED
    BY <2>1, <1>1, <1>4 DEF Ready, NothingEarly
<1>13. Connected(call, start, server, cache)'
  <2>1. Connected(cl, st, sv, ca)
    BY DEF Ready
  <2>2. ASSUME NEW i \in Calls, start'[i].pc = "connecting"
        PROVE  /\ start'[i].joined \in Calls /\ call'[start'[i].joined].pc # "new"
               /\ call'[start'[i].joined].key = call'[i].key
               /\ server'[start'[i].joined].promise # "none"
    <3>1. PICK j \in Calls : j = st[i].joined /\ j = start'[i].joined
      BY <2>1, <2>2, <1>4 DEF Connected
    <3>2. cl[j].pc # "new" /\ cl[j].key = cl[i].key /\ sv[j].promise # "none"
      BY <2>1, <2>2, <3>1, <1>4 DEF Connected
    <3>3. call'[j].pc # "new" /\ call'[j].key = call'[i].key /\ server'[j].promise # "none"
      BY <3>2, <1>1, <1>6
    <3> QED
      BY <3>1, <3>3
  <2>3. \A key \in Keys : cache'[key] # NoCall => server'[cache'[key]].promise # "none"
    BY <2>1, <1>1, <1>9 DEF Connected
  <2> QED
    BY <2>2, <2>3 DEF Connected
<1>14. MakersWait(start, server)'
  <2> SUFFICES ASSUME NEW j \in Calls, server'[j].promise = "pending"
               PROVE  /\ start'[j].pc = "connecting" /\ start'[j].joined = j
                      /\ server'[j].work \in {"process", "creating"}
    BY DEF MakersWait
  <2>1. /\ st[j].pc = "connecting" /\ st[j].joined = j
        /\ sv[j].work \in {"process", "creating"} /\ sv[j].promise = "pending"
    BY <1>1 DEF Ready, MakersWait
  <2>2. promise(j) = "pending"
    BY <2>1 DEF NoCall, Calls
  <2>3. start'[j] = st[j]
    BY <1>1, <2>1, <2>2 DEF StartSettled
  <2> QED
    BY <1>1, <2>1, <2>3
<1>15. FailuresAreForgotten'
  <2> SUFFICES ASSUME NEW key \in Keys
               PROVE  /\ serverPromise'[key] # NoCall =>
                            start'[serverPromise'[key]].pc # "failed"
                      /\ cache'[key] # NoCall => ~Broken(server', cache'[key])
    BY DEF FailuresAreForgotten
  <2>1. ASSUME serverPromise'[key] # NoCall, start'[serverPromise'[key]].pc = "failed"
        PROVE  FALSE
    <3>1. PICK i \in Calls : i = pr[key] /\ pr[key] # NoCall
      BY <2>1, <1>9
    <3>2. key \notin failed /\ start'[i].pc = "failed"
      BY <2>1, <3>1, <1>9
    <3>3. Awaited(cl, i)
      <4>1. st[i].pc \in {"failed", "connecting"}
        BY <3>2, <1>4
      <4> QED
        BY <4>1, <3>1 DEF Ready, FailuresNoticed, StartsAwaited
    <3>4. call'[i].pc = "failed" /\ cl[i].key = key
      BY <3>1, <3>2, <3>3, <1>7 DEF Ready, OwnKey
    <3> QED
      BY <3>2, <3>3, <3>4 DEF Awaited, failed
  <2>2. ASSUME cache'[key] # NoCall, Broken(server', cache'[key])
        PROVE  FALSE
    <3>1. PICK j \in Calls : j = ca[key] /\ ca[key] # NoCall
      BY <2>2, <1>9
    <3>2. key \notin broken /\ Broken(sv, j)
      BY <2>2, <3>1, <1>1, <1>9 DEF Broken
    <3>3. st[j].pc = "connecting" /\ st[j].joined = j /\ cl[j].key = key
      BY <3>1, <3>2 DEF Ready, FailuresNoticed, OwnKey
    <3> QED
      BY <3>2, <3>3 DEF broken
  <2> QED
    BY <2>1, <2>2
<1>16. FailuresNoticed(call, start, server, serverPromise, cache)'
  BY <1>15 DEF FailuresAreForgotten, FailuresNoticed
<1>17. LiveCached(call, start, server, cache)'
  <2> SUFFICES ASSUME changes = 0, NEW j \in Calls, LiveIn(server', j)
               PROVE  /\ cache'[call'[j].key] = j
                      /\ \A i \in Calls :
                            start'[i].pc = "connecting" /\ call'[i].key = call'[j].key =>
                               start'[i].joined = j
    BY <1>1 DEF LiveCached
  <2>1. LiveIn(sv, j)
    BY <1>1 DEF LiveIn
  <2>2. /\ ca[cl[j].key] = j
        /\ \A i \in Calls : st[i].pc = "connecting" /\ cl[i].key = cl[j].key =>
              st[i].joined = j
    BY <2>1 DEF Ready, LiveCached
  <2>3. cl[j].key \notin broken
    BY <2>1, <2>2 DEF LiveIn, Broken, broken
  <2>4. cl[j].key \in Keys
    BY <1>3 DEF Call
  <2>5. cache'[cl[j].key] = j
    BY <1>1, <2>2, <2>3, <2>4 DEF Forgotten
  <2> QED
    BY <2>2, <2>5, <1>4, <1>6
<1>18. Settled'
  <2>1. \A i \in Calls : start'[i].pc = "connecting" =>
           server'[start'[i].joined].promise = "pending"
    BY <1>1, <1>4, <1>5
  <2> QED
    BY <2>1, <1>15 DEF Settled
<1>19. (changes \in 0..MaxChanges)'
  BY <1>1 DEF IInv
<1> QED
  BY <1>8, <1>10, <1>11, <1>12, <1>13, <1>14, <1>16, <1>17, <1>18, <1>19 DEF IInv, Ready
-----------------------------------------------------------------------------
LEMMA InitHolds ==
  ASSUME Init
  PROVE  IInv
<1>1. Typed(call, start, server, serverPromise, cache)
  BY DEF Init, Typed, Call, Start, Server, Keys, NoCall
<1>2. OwnKey(call, serverPromise) /\ OwnKey(call, cache)
  BY DEF Init, OwnKey
<1>3. StartsAwaited(call, start) /\ NothingEarly(call, start, server)
  BY DEF Init, StartsAwaited, NothingEarly
<1>4. Connected(call, start, server, cache) /\ MakersWait(start, server)
  BY DEF Init, Connected, MakersWait
<1>5. FailuresNoticed(call, start, server, serverPromise, cache) /\ FailuresAreForgotten
  BY DEF Init, FailuresNoticed, FailuresAreForgotten
<1>6. LiveCached(call, start, server, cache)
  BY DEF Init, LiveCached, LiveIn
<1>7. Settled
  BY <1>5 DEF Init, Settled
<1>8. changes \in 0..MaxChanges
  BY DEF Init
<1> QED
  BY <1>1, <1>2, <1>3, <1>4, <1>5, <1>6, <1>7, <1>8 DEF IInv, Ready

LEMMA GetOrCreateStep ==
  ASSUME IInv, NEW c \in Calls, NEW key \in Keys, GetOrCreate(c, key)
  PROVE  IInv'
<1> DEFINE hit == key = "local" /\ cache[key] # NoCall
           begun == IF serverPromise[key] = NoCall THEN c ELSE serverPromise[key]
           x == [key |-> key, pc |-> "waiting", cached |-> hit,
                 of |-> IF hit THEN cache[key] ELSE begun, cancelled |-> FALSE]
           cl == [call EXCEPT ![c] = x]
           st == IF ~hit /\ begun = c THEN [start EXCEPT ![c].pc = "checking"] ELSE start
           pr == IF hit THEN serverPromise ELSE [serverPromise EXCEPT ![key] = begun]
<1>1. call[c].pc = "new" /\ Settles(cl, st, server, pr, cache)
  BY DEF GetOrCreate
<1>2. /\ Typed(call, start, server, serverPromise, cache)
      /\ OwnKey(call, serverPromise) /\ OwnKey(call, cache)
      /\ StartsAwaited(call, start) /\ NothingEarly(call, start, server)
      /\ Connected(call, start, server, cache) /\ MakersWait(start, server)
      /\ FailuresNoticed(call, start, server, serverPromise, cache)
      /\ LiveCached(call, start, server, cache)
  BY DEF IInv, Ready
<1>3. /\ x \in Call /\ x.key = key /\ x.pc = "waiting"
      /\ (~hit => ~x.cached) /\ (~hit => x.of = begun)
  <2>1. hit \in BOOLEAN
    OBVIOUS
  <2>2. cache[key] \in 0..MaxCalls /\ begun \in 0..MaxCalls
    BY <1>2 DEF Typed, Calls
  <2> HIDE DEF hit, begun
  <2>3. x \in Call
    BY <2>1, <2>2 DEF Call
  <2>4. x.cached = hit /\ x.key = key /\ x.pc = "waiting" /\ (~hit => x.of = begun)
    OBVIOUS
  <2> QED
    BY <2>1, <2>3, <2>4
<1>4. start[c] \in Start /\ start[c].pc = "none" /\ server[c].promise = "none"
  BY <1>1, <1>2 DEF Typed, NothingEarly
<1>5. begun = c => serverPromise[key] = NoCall
  BY <1>1, <1>2 DEF OwnKey
<1>6. /\ cl \in [Calls -> Call] /\ cl[c] = x
      /\ \A d \in Calls \ {c} : cl[d] = call[d]
  BY <1>2, <1>3 DEF Typed
<1>7. /\ st \in [Calls -> Start]
      /\ \A d \in Calls \ {c} : st[d] = start[d]
      /\ st[c].pc \in {"none", "checking"} /\ (st[c].pc = "checking" <=> ~hit /\ begun = c)
  BY <1>2, <1>4 DEF Typed, Start
<1>8. /\ pr \in [Keys -> 0..MaxCalls]
      /\ \A k \in Keys : pr[k] = serverPromise[k] \/ (k = key /\ ~hit /\ pr[k] = begun /\ begun = c)
  <2>1. begun \in 0..MaxCalls /\ (begun = c \/ begun = serverPromise[key])
    BY <1>2 DEF Typed, Calls
  <2>2. serverPromise \in [Keys -> 0..MaxCalls]
    BY <1>2 DEF Typed
  <2> HIDE DEF begun, hit
  <2> QED
    BY <2>1, <2>2
<1> HIDE DEF x, cl, st, pr, hit, begun
<1>9. Typed(cl, st, server, pr, cache)
  BY <1>2, <1>6, <1>7, <1>8 DEF Typed
<1>10. OwnKey(cl, pr) /\ OwnKey(cl, cache)
  <2>1. \A k \in Keys, d \in Calls : (pr[k] = d => cl[d].pc # "new" /\ cl[d].key = k)
    BY <1>1, <1>2, <1>3, <1>6, <1>8 DEF OwnKey, NoCall, Calls
  <2>2. \A k \in Keys, d \in Calls : (cache[k] = d => cl[d].pc # "new" /\ cl[d].key = k)
    BY <1>1, <1>2, <1>6 DEF OwnKey, NoCall, Calls
  <2> QED
    BY <2>1, <2>2, <1>9 DEF OwnKey, Typed, Calls, NoCall
<1>11. StartsAwaited(cl, st)
  BY <1>2, <1>3, <1>6, <1>7 DEF StartsAwaited, Awaited
<1>12. NothingEarly(cl, st, server)
  BY <1>2, <1>3, <1>6, <1>7 DEF NothingEarly
<1>13. Connected(cl, st, server, cache)
  <2>1. ASSUME NEW i \in Calls, st[i].pc = "connecting"
        PROVE  /\ st[i].joined \in Calls /\ cl[st[i].joined].pc # "new"
               /\ cl[st[i].joined].key = cl[i].key
               /\ server[st[i].joined].promise # "none"
    <3>1. i # c /\ st[i] = start[i] /\ cl[i] = call[i]
      BY <2>1, <1>6, <1>7
    <3>2. PICK j \in Calls : j = start[i].joined /\ j # c
      BY <2>1, <3>1, <1>1, <1>2 DEF Connected
    <3>3. cl[j] = call[j]
      BY <3>2, <1>6
    <3> QED
      BY <2>1, <3>1, <3>2, <3>3, <1>2 DEF Connected
  <2> QED
    BY <2>1, <1>2 DEF Connected
<1>14. MakersWait(st, server)
  BY <1>2, <1>4, <1>7 DEF MakersWait
<1>15. FailuresNoticed(cl, st, server, pr, cache)
  <2>1. ASSUME NEW k \in Keys, pr[k] # NoCall, st[pr[k]].pc = "failed"
        PROVE  Awaited(cl, pr[k])
    <3>1. PICK i \in Calls : i = pr[k]
      BY <2>1, <1>9 DEF Typed, Calls, NoCall
    <3>2. i # c /\ st[i] = start[i] /\ cl[i] = call[i] /\ pr[k] = serverPromise[k]
      BY <2>1, <3>1, <1>6, <1>7, <1>8
    <3> QED
      BY <2>1, <3>1, <3>2, <1>2 DEF FailuresNoticed, Awaited
  <2>2. ASSUME NEW k \in Keys, cache[k] # NoCall, Broken(server, cache[k])
        PROVE  st[cache[k]].pc = "connecting" /\ st[cache[k]].joined = cache[k]
    <3>1. PICK i \in Calls : i = cache[k]
      BY <2>2, <1>2 DEF Typed, Calls, NoCall
    <3>2. start[i].pc = "connecting" /\ start[i].joined = i
      BY <2>2, <3>1, <1>2 DEF FailuresNoticed
    <3> QED
      BY <3>1, <3>2, <1>4, <1>7
  <2> QED
    BY <2>1, <2>2 DEF FailuresNoticed
<1>16. LiveCached(cl, st, server, cache)
  <2> SUFFICES ASSUME changes = 0, NEW j \in Calls, LiveIn(server, j)
               PROVE  /\ cache[cl[j].key] = j
                      /\ \A i \in Calls : st[i].pc = "connecting" /\ cl[i].key = cl[j].key =>
                            st[i].joined = j
    BY DEF LiveCached
  <2>1. j # c
    BY <1>4 DEF LiveIn
  <2> QED
    BY <2>1, <1>2, <1>6, <1>7 DEF LiveCached
<1> QED
  <2>1. Ready(cl, st, server, pr, cache)
    BY <1>9, <1>10, <1>11, <1>12, <1>13, <1>14, <1>15, <1>16 DEF Ready
  <2> QED
    BY <1>1, <2>1, SettlesKeeps

(* A server comes on, fails or is cancelled: what else changes is the      *)
(* token of a call.                                                        *)
LEMMA ServerMoves ==
  ASSUME IInv, NEW j \in Calls, NEW y \in Server, NEW cl \in [Calls -> Call],
         \A c \in Calls : /\ cl[c].pc = call[c].pc /\ cl[c].key = call[c].key
                          /\ cl[c].cached = call[c].cached /\ cl[c].of = call[c].of,
         \/ y.promise = server[j].promise
         \/ /\ server[j].promise = "pending"
            /\ y.promise \in {"resolved", "rejected", "cancelled"},
         y.promise = "pending" => y.work \in {"process", "creating"},
         y.work \in {"process", "creating", "up"} /\ y.promise \in {"pending", "resolved"} =>
            LiveIn(server, j),
         Settles(cl, start, [server EXCEPT ![j] = y], serverPromise, cache)
  PROVE  IInv'
<1> DEFINE sv == [server EXCEPT ![j] = y]
<1>1. /\ Typed(call, start, server, serverPromise, cache)
      /\ OwnKey(call, serverPromise) /\ OwnKey(call, cache)
      /\ StartsAwaited(call, start) /\ NothingEarly(call, start, server)
      /\ Connected(call, start, server, cache) /\ MakersWait(start, server)
      /\ FailuresNoticed(call, start, server, serverPromise, cache)
      /\ LiveCached(call, start, server, cache)
  BY DEF IInv, Ready
<1>2. /\ sv \in [Calls -> Server] /\ sv[j] = y
      /\ \A c \in Calls \ {j} : sv[c] = server[c]
  BY <1>1 DEF Typed
<1>3. Settles(cl, start, sv, serverPromise, cache)
  OBVIOUS
<1> HIDE DEF sv
<1>4. Typed(cl, start, sv, serverPromise, cache)
  BY <1>1, <1>2 DEF Typed
<1>5. \A key \in Keys :
        /\ serverPromise[key] # NoCall => serverPromise[key] \in Calls
        /\ cache[key] # NoCall => cache[key] \in Calls
  BY <1>1 DEF Typed, Calls, NoCall
<1>6. OwnKey(cl, serverPromise) /\ OwnKey(cl, cache)
  BY <1>1, <1>5 DEF OwnKey
<1>7. StartsAwaited(cl, start) /\ NothingEarly(cl, start, sv)
  BY <1>1, <1>2 DEF StartsAwaited, Awaited, NothingEarly
<1>8. Connected(cl, start, sv, cache)
  BY <1>1, <1>2, <1>5 DEF Connected
<1>9. MakersWait(start, sv)
  BY <1>1, <1>2 DEF MakersWait
<1>10. FailuresNoticed(cl, start, sv, serverPromise, cache)
  <2>1. \A key \in Keys : serverPromise[key] # NoCall /\ start[serverPromise[key]].pc = "failed" =>
           Awaited(cl, serverPromise[key])
    BY <1>1, <1>5 DEF FailuresNoticed, Awaited
  <2>2. ASSUME NEW key \in Keys, cache[key] # NoCall, Broken(sv, cache[key])
        PROVE  start[cache[key]].pc = "connecting" /\ start[cache[key]].joined = cache[key]
    <3>1. PICK k \in Calls : k = cache[key]
      BY <2>2, <1>5
    <3>2. CASE Broken(server, k)
      BY <3>1, <3>2, <2>2, <1>1 DEF FailuresNoticed
    <3>3. CASE k = j /\ server[j].promise = "pending"
      BY <3>1, <3>3, <1>1 DEF MakersWait
    <3> QED
      BY <2>2, <3>1, <3>2, <3>3, <1>2 DEF Broken
  <2> QED
    BY <2>1, <2>2 DEF FailuresNoticed
<1>11. LiveCached(cl, start, sv, cache)
  <2>1. \A k \in Calls : LiveIn(sv, k) => LiveIn(server, k)
    BY <1>2 DEF LiveIn
  <2> QED
    BY <2>1, <1>1 DEF LiveCached
<1> QED
  <2>1. Ready(cl, start, sv, serverPromise, cache)
    BY <1>4, <1>6, <1>7, <1>8, <1>9, <1>10, <1>11 DEF Ready
  <2> QED
    BY <1>3, <2>1, SettlesKeeps

LEMMA CancelStep ==
  ASSUME IInv, NEW c \in Calls, Cancel(c)
  PROVE  IInv'
<1> DEFINE y == CancelledServer(server[c])
           cl == [call EXCEPT ![c].cancelled = TRUE]
<1>1. Settles(cl, start, [server EXCEPT ![c] = y], serverPromise, cache)
  BY DEF Cancel
<1>2. /\ call \in [Calls -> Call] /\ server[c] \in Server
      /\ server[c].promise = "pending" => server[c].work \in {"process", "creating"}
  BY DEF IInv, Ready, Typed, MakersWait
<1>3. /\ cl \in [Calls -> Call]
      /\ \A d \in Calls : /\ cl[d].pc = call[d].pc /\ cl[d].key = call[d].key
                          /\ cl[d].cached = call[d].cached /\ cl[d].of = call[d].of
  BY <1>2 DEF Call
<1>4. /\ y \in Server
      /\ \/ y.promise = server[c].promise
         \/ /\ server[c].promise = "pending"
            /\ y.promise \in {"resolved", "rejected", "cancelled"}
      /\ y.promise = "pending" => y.work \in {"process", "creating"}
      /\ y.work \in {"process", "creating", "up"} /\ y.promise \in {"pending", "resolved"} =>
            LiveIn(server, c)
  BY <1>2 DEF CancelledServer, Server, LiveIn
<1> HIDE DEF y, cl
<1> QED
  BY <1>1, <1>3, <1>4, ServerMoves, Zenon

LEMMA WorksKeeps ==
  ASSUME IInv, NEW j \in Calls, NEW promise \in {"pending", "resolved", "rejected"},
         NEW work \in {"creating", "up", "stray", "ended"}, Works(j, promise, work),
         server[j].work \in {"process", "creating"},
         promise = "pending" => work = "creating",
         promise = "resolved" => work = "up",
         promise = "rejected" => work \in {"stray", "ended"}
  PROVE  IInv'
<1> DEFINE y == [promise |-> IF server[j].promise = "pending" THEN promise
                             ELSE server[j].promise,
                 work |-> work]
<1>1. Settles(call, start, [server EXCEPT ![j] = y], serverPromise, cache)
  BY DEF Works
<1>2. call \in [Calls -> Call] /\ server[j] \in Server
  BY DEF IInv, Ready, Typed
<1>3. /\ y \in Server
      /\ \/ y.promise = server[j].promise
         \/ /\ server[j].promise = "pending"
            /\ y.promise \in {"resolved", "rejected", "cancelled"}
      /\ y.promise = "pending" => y.work \in {"process", "creating"}
      /\ y.work \in {"process", "creating", "up"} /\ y.promise \in {"pending", "resolved"} =>
            LiveIn(server, j)
  BY <1>2 DEF Server, LiveIn
<1>4. \A d \in Calls : /\ call[d].pc = call[d].pc /\ call[d].key = call[d].key
                       /\ call[d].cached = call[d].cached /\ call[d].of = call[d].of
  OBVIOUS
<1> HIDE DEF y
<1> QED
  BY <1>1, <1>2, <1>3, <1>4, ServerMoves, Zenon

LEMMA WorkSteps ==
  ASSUME IInv, NEW j \in Calls,
         Launched(j) \/ LaunchFails(j) \/ Created(j) \/ CreationFails(j)
  PROVE  IInv'
<1>1. CASE Launched(j)
  BY <1>1, WorksKeeps DEF Launched
<1>2. CASE LaunchFails(j)
  BY <1>2, WorksKeeps DEF LaunchFails
<1>3. CASE Created(j)
  BY <1>3, WorksKeeps DEF Created
<1>4. CASE CreationFails(j)
  BY <1>4, WorksKeeps DEF CreationFails
<1> QED
  BY <1>1, <1>2, <1>3, <1>4

-----------------------------------------------------------------------------
(* What IInv says, in its parts.                                           *)
LEMMA Parts ==
  ASSUME IInv
  PROVE  /\ Typed(call, start, server, serverPromise, cache)
         /\ OwnKey(call, serverPromise) /\ OwnKey(call, cache)
         /\ StartsAwaited(call, start) /\ NothingEarly(call, start, server)
         /\ Connected(call, start, server, cache) /\ MakersWait(start, server)
         /\ FailuresNoticed(call, start, server, serverPromise, cache)
         /\ LiveCached(call, start, server, cache)
         /\ FailuresAreForgotten
         /\ \A i \in Calls : start[i].pc = "connecting" =>
               server[start[i].joined].promise = "pending"
  BY DEF IInv, Ready, Settled

(* A start finds that a server can be used, and one is cached: it connects *)
(* to it.                                                                  *)
LEMMA JoinKeeps ==
  ASSUME IInv, NEW i \in Calls, start[i].pc = "checking", cache[KeyOf(i)] # NoCall,
         Settles(call, [start EXCEPT ![i] = [pc |-> "connecting",
                                             joined |-> cache[KeyOf(i)]]],
                 server, serverPromise, cache)
  PROVE  IInv'
<1> DEFINE j == cache[KeyOf(i)]
           x == [pc |-> "connecting", joined |-> j]
           st == [start EXCEPT ![i] = x]
<1>1. Settles(call, st, server, serverPromise, cache)
  OBVIOUS
<1>2. KeyOf(i) \in Keys /\ j \in Calls
  BY Parts DEF Typed, Call, KeyOf, Calls, NoCall
<1>3. /\ call[j].pc # "new" /\ call[j].key = call[i].key
      /\ server[j].promise # "none" /\ ~Broken(server, j)
  BY <1>2, Parts DEF OwnKey, Connected, FailuresAreForgotten, KeyOf
<1>4. /\ x \in Start /\ x.pc = "connecting" /\ x.joined = j
  BY <1>2 DEF Start, Calls
<1>5. /\ st \in [Calls -> Start] /\ st[i] = x
      /\ \A k \in Calls \ {i} : st[k] = start[k]
  BY <1>4, Parts DEF Typed
<1> HIDE DEF st, x
<1>6. Typed(call, st, server, serverPromise, cache)
  BY <1>5, Parts DEF Typed
<1>7. StartsAwaited(call, st) /\ NothingEarly(call, st, server)
  BY <1>4, <1>5, Parts DEF StartsAwaited, NothingEarly, Awaited
<1>8. Connected(call, st, server, cache)
  BY <1>2, <1>3, <1>4, <1>5, Parts DEF Connected
<1>9. MakersWait(st, server)
  BY <1>5, Parts DEF MakersWait
<1>10. FailuresNoticed(call, st, server, serverPromise, cache)
  <2>1. \A key \in Keys : cache[key] # NoCall => ~Broken(server, cache[key])
    BY Parts DEF FailuresAreForgotten
  <2>2. \A key \in Keys : serverPromise[key] # NoCall => st[serverPromise[key]].pc # "failed"
    <3>1. \A key \in Keys : serverPromise[key] # NoCall => serverPromise[key] \in Calls
      BY Parts DEF Typed, Calls, NoCall
    <3> QED
      BY <3>1, <1>4, <1>5, Parts DEF FailuresAreForgotten
  <2> QED
    BY <2>1, <2>2 DEF FailuresNoticed
<1>11. LiveCached(call, st, server, cache)
  <2> SUFFICES ASSUME changes = 0, NEW k \in Calls, LiveIn(server, k),
                      NEW m \in Calls
               PROVE  /\ cache[call[k].key] = k
                      /\ st[m].pc = "connecting" /\ call[m].key = call[k].key =>
                            st[m].joined = k
    BY DEF LiveCached
  <2>1. /\ cache[call[k].key] = k
        /\ start[m].pc = "connecting" /\ call[m].key = call[k].key => start[m].joined = k
    BY Parts DEF LiveCached
  <2> QED
    BY <2>1, <1>4, <1>5 DEF KeyOf
<1> QED
  <2>1. Ready(call, st, server, serverPromise, cache)
    BY <1>6, <1>7, <1>8, <1>9, <1>10, <1>11, Parts DEF Ready
  <2> QED
    BY <1>1, <2>1, SettlesKeeps

(* None is cached: it makes one, unless its call was cancelled.            *)
LEMMA MakeKeeps ==
  ASSUME IInv, NEW i \in Calls, start[i].pc = "checking", cache[KeyOf(i)] = NoCall,
         NEW y \in Server,
         (y.promise = "pending" /\ y.work = "process") \/ y.promise = "cancelled",
         Settles(call, [start EXCEPT ![i] = [pc |-> "connecting", joined |-> i]],
                 [server EXCEPT ![i] = y],
                 serverPromise, [cache EXCEPT ![KeyOf(i)] = i])
  PROVE  IInv'
<1> DEFINE x == [pc |-> "connecting", joined |-> i]
           st == [start EXCEPT ![i] = x]
           sv == [server EXCEPT ![i] = y]
           ca == [cache EXCEPT ![KeyOf(i)] = i]
<1>1. Settles(call, st, sv, serverPromise, ca)
  OBVIOUS
<1>2. KeyOf(i) \in Keys /\ KeyOf(i) = call[i].key /\ i # NoCall /\ call[i].pc = "waiting"
  BY Parts DEF Typed, Call, KeyOf, Calls, NoCall, StartsAwaited, Awaited
<1>3. /\ x \in Start /\ x.pc = "connecting" /\ x.joined = i
  BY DEF Start, Calls
<1>4. /\ st \in [Calls -> Start] /\ st[i] = x
      /\ \A k \in Calls \ {i} : st[k] = start[k]
  BY <1>3, Parts DEF Typed
<1>5. /\ sv \in [Calls -> Server] /\ sv[i] = y
      /\ \A k \in Calls \ {i} : sv[k] = server[k]
  BY Parts DEF Typed
<1>6. /\ ca \in [Keys -> 0..MaxCalls] /\ ca[KeyOf(i)] = i
      /\ \A key \in Keys \ {KeyOf(i)} : ca[key] = cache[key]
  BY <1>2, Parts DEF Typed, Calls
<1> HIDE DEF st, x, sv, ca
<1>7. Typed(call, st, sv, serverPromise, ca)
  BY <1>4, <1>5, <1>6, Parts DEF Typed
<1>8. OwnKey(call, ca)
  BY <1>2, <1>6, Parts DEF OwnKey
<1>9. StartsAwaited(call, st) /\ NothingEarly(call, st, sv)
  BY <1>2, <1>3, <1>4, <1>5, Parts DEF StartsAwaited, NothingEarly, Awaited
<1>10. \A key \in Keys : ca[key] # NoCall => ca[key] \in Calls
  BY <1>6 DEF NoCall, Calls
<1>11. Connected(call, st, sv, ca)
  <2>1. \A k \in Calls : server[k].promise # "none" => sv[k].promise # "none"
    BY <1>5
  <2>2. sv[i].promise # "none"
    BY <1>5
  <2>3. \A key \in Keys : ca[key] # NoCall => sv[ca[key]].promise # "none"
    BY <2>1, <2>2, <1>6, <1>10, Parts DEF Connected
  <2>4. ASSUME NEW k \in Calls, st[k].pc = "connecting"
        PROVE  /\ st[k].joined \in Calls /\ call[st[k].joined].pc # "new"
               /\ call[st[k].joined].key = call[k].key
               /\ sv[st[k].joined].promise # "none"
    BY <2>1, <2>2, <2>4, <1>2, <1>3, <1>4, Parts DEF Connected
  <2> QED
    BY <2>3, <2>4 DEF Connected
<1>12. MakersWait(st, sv)
  BY <1>3, <1>4, <1>5, Parts DEF MakersWait
<1>13. FailuresNoticed(call, st, sv, serverPromise, ca)
  <2>1. ASSUME NEW key \in Keys, ca[key] # NoCall, Broken(sv, ca[key])
        PROVE  st[ca[key]].pc = "connecting" /\ st[ca[key]].joined = ca[key]
    <3>1. CASE ca[key] = i
      BY <3>1, <1>3, <1>4
    <3>2. CASE ca[key] # i
      <4>1. ca[key] = cache[key] /\ sv[ca[key]] = server[cache[key]]
        BY <2>1, <3>2, <1>5, <1>6, <1>10
      <4> QED
        BY <2>1, <4>1, Parts DEF FailuresAreForgotten, Broken
    <3> QED
      BY <3>1, <3>2
  <2>2. \A key \in Keys : serverPromise[key] # NoCall => st[serverPromise[key]].pc # "failed"
    <3>1. \A key \in Keys : serverPromise[key] # NoCall => serverPromise[key] \in Calls
      BY Parts DEF Typed, Calls, NoCall
    <3> QED
      BY <3>1, <1>3, <1>4, Parts DEF FailuresAreForgotten
  <2> QED
    BY <2>1, <2>2 DEF FailuresNoticed
<1>14. LiveCached(call, st, sv, ca)
  <2> SUFFICES ASSUME changes = 0, NEW k \in Calls, LiveIn(sv, k), NEW m \in Calls
               PROVE  /\ ca[call[k].key] = k
                      /\ st[m].pc = "connecting" /\ call[m].key = call[k].key =>
                            st[m].joined = k
    BY DEF LiveCached
  <2>1. CASE k = i
    <3>1. ASSUME m # i, start[m].pc = "connecting", call[m].key = call[i].key
          PROVE  FALSE
      <4>1. PICK n \in Calls : n = start[m].joined
        BY <3>1, Parts DEF Connected
      <4>2. LiveIn(server, n) /\ call[n].key = call[i].key
        BY <3>1, <4>1, Parts DEF Connected, MakersWait, LiveIn
      <4>3. cache[call[i].key] = n
        BY <4>2, Parts DEF LiveCached
      <4> QED
        BY <4>3, <1>2 DEF Calls, NoCall
    <3> QED
      BY <2>1, <3>1, <1>2, <1>3, <1>4, <1>6
  <2>2. CASE k # i
    <3>1. LiveIn(server, k)
      BY <2>2, <1>5 DEF LiveIn
    <3>2. cache[call[k].key] = k /\ call[k].key \in Keys
      BY <3>1, Parts DEF LiveCached, Typed, Call
    <3>3. call[k].key # KeyOf(i)
      BY <3>2 DEF Calls, NoCall
    <3> QED
      BY <3>1, <3>2, <3>3, <1>2, <1>4, <1>6, Parts DEF LiveCached
  <2> QED
    BY <2>1, <2>2
<1> QED
  <2>1. Ready(call, st, sv, serverPromise, ca)
    BY <1>7, <1>8, <1>9, <1>11, <1>12, <1>13, <1>14, Parts DEF Ready
  <2> QED
    BY <1>1, <2>1, SettlesKeeps

LEMMA CheckedStep ==
  ASSUME IInv, NEW i \in Calls, Checked(i)
  PROVE  IInv'
<1>1. CASE cache[KeyOf(i)] # NoCall
  BY <1>1, JoinKeeps DEF Checked
<1>2. CASE cache[KeyOf(i)] = NoCall
  <2> DEFINE y == IF call[i].cancelled THEN [promise |-> "cancelled", work |-> "none"]
                  ELSE [promise |-> "pending", work |-> "process"]
  <2>1. /\ start[i].pc = "checking"
        /\ Settles(call, [start EXCEPT ![i] = [pc |-> "connecting", joined |-> i]],
                   [server EXCEPT ![i] = y],
                   serverPromise, [cache EXCEPT ![KeyOf(i)] = i])
    BY <1>2 DEF Checked
  <2>2. y \in Server /\ ((y.promise = "pending" /\ y.work = "process") \/ y.promise = "cancelled")
    BY DEF Server
  <2> HIDE DEF y
  <2> QED
    BY <1>2, <2>1, <2>2, MakeKeeps
<1> QED
  BY <1>1, <1>2

-----------------------------------------------------------------------------
(* A start that connects to nothing fails, or will.                        *)
LEMMA GivesUp ==
  ASSUME IInv, NEW i \in Calls, NEW pc \in {"refreshing", "failed"},
         start[i].pc \in {"checking", "refreshing"}
  PROVE  Ready(call, [start EXCEPT ![i].pc = pc], server, serverPromise, cache)
<1> DEFINE x == [start[i] EXCEPT !.pc = pc]
           st == [start EXCEPT ![i] = x]
<1>1. st = [start EXCEPT ![i].pc = pc]
  OBVIOUS
<1>2. x \in Start /\ x.pc = pc
  BY Parts DEF Typed, Start
<1>3. /\ st \in [Calls -> Start] /\ st[i] = x
      /\ \A k \in Calls \ {i} : st[k] = start[k]
  BY <1>2, Parts DEF Typed
<1> HIDE DEF st, x
<1>4. Awaited(call, i)
  BY Parts DEF StartsAwaited
<1>5. Typed(call, st, server, serverPromise, cache)
  BY <1>3, Parts DEF Typed
<1>6. StartsAwaited(call, st) /\ NothingEarly(call, st, server)
  BY <1>2, <1>3, <1>4, Parts DEF StartsAwaited, NothingEarly, Awaited
<1>7. Connected(call, st, server, cache) /\ MakersWait(st, server)
  BY <1>2, <1>3, Parts DEF Connected, MakersWait
<1>8. FailuresNoticed(call, st, server, serverPromise, cache)
  <2>1. \A key \in Keys : serverPromise[key] # NoCall => serverPromise[key] \in Calls
    BY Parts DEF Typed, Calls, NoCall
  <2> QED
    BY <2>1, <1>3, <1>4, Parts DEF FailuresNoticed, FailuresAreForgotten
<1>9. LiveCached(call, st, server, cache)
  BY <1>2, <1>3, Parts DEF LiveCached
<1> QED
  BY <1>1, <1>5, <1>6, <1>7, <1>8, <1>9, Parts DEF Ready

LEMMA RefreshedStep ==
  ASSUME IInv, NEW i \in Calls, Refreshed(i)
  PROVE  IInv'
<1>1. PICK pc \in {"refreshing", "failed"} : pc = "failed"
  OBVIOUS
<1>2. /\ start[i].pc = "refreshing"
      /\ Settles(call, [start EXCEPT ![i].pc = pc], server, serverPromise, cache)
  BY <1>1 DEF Refreshed
<1>3. Ready(call, [start EXCEPT ![i].pc = pc], server, serverPromise, cache)
  BY <1>1, <1>2, GivesUp
<1> QED
  BY <1>2, <1>3, SettlesKeeps

LEMMA UnusableStep ==
  ASSUME IInv, NEW i \in Calls, Unusable(i)
  PROVE  IInv'
<1>1. PICK pc \in {"refreshing", "failed"} : pc = "refreshing"
  OBVIOUS
<1>2. /\ start[i].pc = "checking" /\ start' = [start EXCEPT ![i].pc = pc]
      /\ call' = call /\ server' = server /\ serverPromise' = serverPromise
      /\ cache' = cache /\ changes' = changes
  BY <1>1 DEF Unusable
<1>3. Ready(call, start', server, serverPromise, cache)
  BY <1>1, <1>2, GivesUp
<1>4. Ready(call, start, server, serverPromise, cache)'
  BY <1>2, <1>3 DEF Ready, Typed, OwnKey, StartsAwaited, NothingEarly, Connected,
                    MakersWait, FailuresNoticed, LiveCached
<1>5. start[i] \in Start /\ start'[i].pc = "refreshing"
      /\ \A k \in Calls \ {i} : start'[k] = start[k]
  BY <1>1, <1>2, Parts DEF Typed, Start
<1>6. FailuresAreForgotten'
  <2>1. \A key \in Keys : serverPromise[key] # NoCall => serverPromise[key] \in Calls
    BY Parts DEF Typed, Calls, NoCall
  <2> QED
    BY <2>1, <1>2, <1>5, Parts DEF FailuresAreForgotten, Broken
<1>7. Settled'
  BY <1>2, <1>5, <1>6, Parts DEF Settled
<1> QED
  BY <1>2, <1>4, <1>7 DEF IInv

-----------------------------------------------------------------------------
LEMMA CrashStep ==
  ASSUME IInv, NEW j \in Calls, Crash(j)
  PROVE  IInv'
<1>1. /\ server[j].work = "up" /\ server' = [server EXCEPT ![j].work = "crashed"]
      /\ call' = call /\ start' = start /\ serverPromise' = serverPromise
      /\ cache' = cache /\ changes' = changes
  BY DEF Crash
<1>2. /\ server' \in [Calls -> Server]
      /\ \A k \in Calls : server'[k].promise = server[k].promise
      /\ \A k \in Calls \ {j} : server'[k] = server[k]
      /\ server'[j].work = "crashed" /\ server[j].promise # "pending"
  BY <1>1, Parts DEF Typed, Server, MakersWait
<1>3. \A key \in Keys : cache[key] # NoCall => cache[key] \in Calls
  BY Parts DEF Typed, Calls, NoCall
<1>4. (Typed(call, start, server, serverPromise, cache))'
  BY <1>1, <1>2, Parts DEF Typed
<1>5. OwnKey(call, serverPromise)' /\ OwnKey(call, cache)' /\ StartsAwaited(call, start)'
  BY <1>1, Parts DEF OwnKey, StartsAwaited, Awaited
<1>6. NothingEarly(call, start, server)' /\ MakersWait(start, server)'
  BY <1>1, <1>2, Parts DEF NothingEarly, MakersWait
<1>7. Connected(call, start, server, cache)'
  BY <1>1, <1>2, <1>3, Parts DEF Connected
<1>8. FailuresAreForgotten'
  BY <1>1, <1>2, <1>3, Parts DEF FailuresAreForgotten, Broken
<1>9. FailuresNoticed(call, start, server, serverPromise, cache)'
  BY <1>8 DEF FailuresNoticed, FailuresAreForgotten
<1>10. LiveCached(call, start, server, cache)'
  <2>1. \A k \in Calls : LiveIn(server', k) => LiveIn(server, k)
    BY <1>2 DEF LiveIn
  <2> QED
    BY <2>1, <1>1, Parts DEF LiveCached, LiveIn
<1>11. Settled'
  <2>1. ASSUME NEW k \in Calls, start'[k].pc = "connecting"
        PROVE  server'[start'[k].joined].promise = "pending"
    BY <2>1, <1>1, <1>2, Parts DEF Connected
  <2> QED
    BY <2>1, <1>8 DEF Settled
<1> QED
  BY <1>1, <1>4, <1>5, <1>6, <1>7, <1>9, <1>10, <1>11 DEF IInv, Ready

LEMMA DidChangeUriStep ==
  ASSUME IInv, DidChangeUri
  PROVE  IInv'
<1>1. /\ changes' = changes + 1 /\ changes < MaxChanges /\ changes \in 0..MaxChanges
      /\ serverPromise' = [key \in Keys |-> NoCall] /\ cache' = [key \in Keys |-> NoCall]
      /\ call' = call /\ start' = start /\ server' = server
  BY DEF DidChangeUri, IInv
<1>2. (Typed(call, start, server, serverPromise, cache))'
  BY <1>1, Parts DEF Typed, NoCall
<1>3. OwnKey(call, serverPromise)' /\ OwnKey(call, cache)'
  BY <1>1 DEF OwnKey
<1>4. StartsAwaited(call, start)' /\ NothingEarly(call, start, server)' /\ MakersWait(start, server)'
  BY <1>1, Parts DEF StartsAwaited, Awaited, NothingEarly, MakersWait
<1>5. Connected(call, start, server, cache)'
  BY <1>1, Parts DEF Connected
<1>6. FailuresAreForgotten' /\ FailuresNoticed(call, start, server, serverPromise, cache)'
  BY <1>1 DEF FailuresAreForgotten, FailuresNoticed
<1>7. LiveCached(call, start, server, cache)'
  BY <1>1 DEF LiveCached
<1>8. Settled'
  BY <1>1, <1>6, Parts DEF Settled
<1> QED
  BY <1>1, <1>2, <1>3, <1>4, <1>5, <1>6, <1>7, <1>8 DEF IInv, Ready

LEMMA StutterKeeps ==
  ASSUME IInv, UNCHANGED vars
  PROVE  IInv'
  BY DEF vars, IInv, Ready, Settled, Typed, OwnKey, StartsAwaited, Awaited, NothingEarly,
         Connected, MakersWait, FailuresNoticed, LiveCached, LiveIn, FailuresAreForgotten,
         Broken

LEMMA NextKeeps ==
  ASSUME IInv, Next
  PROVE  IInv'
<1>1. ASSUME NEW c \in Calls, \E key \in Keys : GetOrCreate(c, key)
      PROVE  IInv'
  BY <1>1, GetOrCreateStep
<1>2. ASSUME NEW c \in Calls, Cancel(c) \/ Crash(c)
      PROVE  IInv'
  BY <1>2, CancelStep, CrashStep
<1>3. ASSUME NEW c \in Calls, Progress(c)
      PROVE  IInv'
  BY <1>3, CheckedStep, UnusableStep, RefreshedStep, WorkSteps DEF Progress
<1> QED
  BY <1>1, <1>2, <1>3, DidChangeUriStep DEF Next

(* The calls, the starts, the servers and both caches keep to IInv in      *)
(* every reachable state.                                                  *)
THEOREM Invariant == Spec => []IInv
<1>1. Init => IInv
  BY InitHolds
<1>2. IInv /\ [Next]_vars => IInv'
  BY NextKeeps, StutterKeeps
<1> QED
  BY <1>1, <1>2, PTL DEF Spec

-----------------------------------------------------------------------------
(* Until the user selects another server there is at most one server for a *)
(* key that is up or being started and that somebody can be given, however *)
(* many calls overlap and whichever of them are cancelled.                 *)
THEOREM SharedServers == Spec => []OneServerPerKey
  BY Invariant, Sound, PTL

(* Neither cache ever holds a start or a server that failed, so that the   *)
(* next call begins anew; what is cached under a key is of that key.       *)
THEOREM SoundCaches == Spec => []CachesAreSound
  BY Invariant, Sound, PTL
=============================================================================
