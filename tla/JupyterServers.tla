--------------------------- MODULE JupyterServers ---------------------------
(***************************************************************************)
(* NotebookServerProvider, HostJupyterExecution and ServerCache: who needs *)
(* a Jupyter server calls getOrCreateServer, and all calls are to share    *)
(* one server per key, the local one or a remote one.                      *)
(*                                                                         *)
(* Two caches of promises do this.  NotebookServerProvider keeps the calls *)
(* of startServer(), each of which first checks that a server can be used; *)
(* ServerCache keeps the calls of connectToNotebookServer() that they      *)
(* make.  A promise that rejects is deleted from its cache by those who    *)
(* wait for it, by its key: whatever the cache holds there by then.        *)
(*                                                                         *)
(* A start, and the server it makes, are named by the call of              *)
(* getOrCreateServer that began it.  The token of that call alone cancels  *)
(* them, for all who wait; and what was cancelled is abandoned, not undone.*)
(***************************************************************************)
EXTENDS Naturals

CONSTANTS MaxCalls,    \* bound: calls of getOrCreateServer, in their order
          MaxChanges   \* bound: changes of the URI of the server

ASSUME ServerBounds == MaxCalls \in Nat /\ MaxChanges \in Nat

Calls == 1..MaxCalls
NoCall == 0
Keys == {"local", "remote"}

VARIABLES call,            \* call[c]: getOrCreateServer
          start,           \* start[c]: startServer
          server,          \* server[c]: connectToNotebookServer and its server
          serverPromise,   \* of NotebookServerProvider: key -> start
          cache,           \* of ServerCache: key -> server
          changes          \* the URI was changed so many times

vars == <<call, start, server, serverPromise, cache, changes>>

Call == [key: Keys,
         pc: {"new", "waiting", "done", "failed"},
         cached: BOOLEAN,          \* waits for a server, not for a start
         of: 0..MaxCalls,
         cancelled: BOOLEAN]

Start == [pc: {"none", "checking", "connecting", "refreshing", "done", "failed"},
          joined: 0..MaxCalls]     \* the server it waits for

\* "stray": a process that runs although no server could be made for it.
Server == [promise: {"none", "pending", "resolved", "rejected", "cancelled"},
           work: {"none", "process", "creating", "up", "crashed", "stray", "ended"}]

\* With the types: what is cached under a key was made for that key.
TypeOK == /\ call \in [Calls -> Call]
          /\ start \in [Calls -> Start]
          /\ server \in [Calls -> Server]
          /\ serverPromise \in [Keys -> 0..MaxCalls]
          /\ cache \in [Keys -> 0..MaxCalls]
          /\ changes \in 0..MaxChanges
          /\ \A key \in Keys : \A c \in {serverPromise[key], cache[key]} \ {NoCall} :
                call[c].pc # "new" /\ call[c].key = key

Init == /\ call = [c \in Calls |-> [key |-> "local", pc |-> "new", cached |-> FALSE,
                                    of |-> NoCall, cancelled |-> FALSE]]
        /\ start = [c \in Calls |-> [pc |-> "none", joined |-> NoCall]]
        /\ server = [c \in Calls |-> [promise |-> "none", work |-> "none"]]
        /\ serverPromise = [key \in Keys |-> NoCall]
        /\ cache = [key \in Keys |-> NoCall]
        /\ changes = 0

KeyOf(c) == call[c].key
-----------------------------------------------------------------------------
(***************************************************************************)
(* Promises that settle, and all that goes on with them in the same task.  *)
(***************************************************************************)

\* The entries of the keys in F go.
\* Faulty variant: a failure clears the cache.
ForgottenAll(c, F) == [key \in Keys |-> IF F = {} THEN c[key] ELSE NoCall]

\* Faulty variant: a failure stays in the cache.
ForgottenNever(c, F) == c

Forgotten(c, F) == [key \in Keys |-> IF key \in F THEN NoCall ELSE c[key]]

Broken(sv, c) == sv[c].promise \in {"rejected", "cancelled"}

\* A start whose connection is cancelled fails at once if its own token is;
\* other failures first make the interpreter look for Jupyter anew.
StartSettled(st, promise, cancelled) ==
    IF st.pc # "connecting" THEN st
    ELSE CASE promise = "resolved" -> [st EXCEPT !.pc = "done"]
           [] promise = "cancelled" /\ cancelled -> [st EXCEPT !.pc = "failed"]
           [] promise \in {"rejected", "cancelled"} -> [st EXCEPT !.pc = "refreshing"]
           [] OTHER -> st

\* How call c ends when the start it waits for does.
\* Faulty variant: a call that did not begin the start misses its failure.
EndOfStartAlone(c, pc) == IF pc = "failed" /\ call[c].of # c THEN "waiting" ELSE pc

EndOfStart(c, pc) == pc

CallSettled(c, r) ==
    IF r.pc # "waiting" THEN r
    ELSE LET end == IF ~r.cached THEN EndOfStart(c, start'[r.of].pc)
                    ELSE CASE server'[r.of].promise = "resolved" -> "done"
                           [] Broken(server', r.of) -> "failed"
                           [] OTHER -> "waiting"
         IN  IF end \in {"done", "failed"} THEN [r EXCEPT !.pc = end] ELSE r

\* A step that makes the calls, starts, servers and caches cl, st, sv, pr
\* and ca, and lets settle whatever these settle.
Settles(cl, st, sv, pr, ca) ==
    LET broken == {cl[i].key : i \in {j \in Calls :
                      st[j].pc = "connecting" /\ Broken(sv, st[j].joined)}}
        failed == {cl[c].key : c \in {d \in Calls :
                      cl[d].pc = "waiting" /\ ~cl[d].cached /\ call'[d].pc = "failed"}}
    IN  /\ server' = sv
        /\ start' = [i \in Calls |-> StartSettled(st[i],
                        IF st[i].joined = NoCall THEN "none" ELSE sv[st[i].joined].promise,
                        cl[i].cancelled)]
        /\ call' = [c \in Calls |-> CallSettled(c, cl[c])]
        /\ serverPromise' = Forgotten(pr, failed)
        /\ cache' = Forgotten(ca, broken)
        /\ UNCHANGED changes
-----------------------------------------------------------------------------
(***************************************************************************)
(* Calls of getOrCreateServer.                                             *)
(***************************************************************************)

\* A local call takes the server that is cached, in whatever state it is;
\* otherwise a call waits for the start that is cached, or begins one.
GetOrCreate(c, key) ==
    LET hit   == key = "local" /\ cache[key] # NoCall
        begun == IF serverPromise[key] = NoCall THEN c ELSE serverPromise[key]
    IN  /\ call[c].pc = "new"
        /\ \A d \in 1..c - 1 : call[d].pc # "new"
        /\ Settles([call EXCEPT ![c] = [key |-> key, pc |-> "waiting", cached |-> hit,
                                        of |-> IF hit THEN cache[key] ELSE begun,
                                        cancelled |-> FALSE]],
                   IF ~hit /\ begun = c
                   THEN [start EXCEPT ![c].pc = "checking"] ELSE start,
                   server,
                   IF hit THEN serverPromise ELSE [serverPromise EXCEPT ![key] = begun],
                   cache)

\* The token of the call; the race around the connection it made is over.
\* A process that is not up yet is killed, a server that is being made is not.
CancelledServer(sv) ==
    IF sv.promise # "pending" THEN sv
    ELSE [promise |-> "cancelled",
          work |-> IF sv.work = "process" THEN "ended" ELSE sv.work]

Cancel(c) ==
    /\ call[c].pc = "waiting" /\ ~call[c].cancelled
    /\ Settles([call EXCEPT ![c].cancelled = TRUE], start,
               [server EXCEPT ![c] = CancelledServer(@)], serverPromise, cache)
-----------------------------------------------------------------------------
(***************************************************************************)
(* startServer().                                                          *)
(***************************************************************************)

\* A server can be used: wait for the one that is cached or make one.
Checked(i) ==
    LET key == KeyOf(i)
    IN  /\ start[i].pc = "checking"
        /\ IF cache[key] # NoCall
           THEN Settles(call, [start EXCEPT ![i] = [pc |-> "connecting",
                                                    joined |-> cache[key]]],
                        server, serverPromise, cache)
           ELSE Settles(call, [start EXCEPT ![i] = [pc |-> "connecting", joined |-> i]],
                        [server EXCEPT ![i] =
                            IF call[i].cancelled
                            THEN [promise |-> "cancelled", work |-> "none"]
                            ELSE [promise |-> "pending", work |-> "process"]],
                        serverPromise, [cache EXCEPT ![key] = i])

\* None can be used; as after other failures refreshCommands() is awaited.
Unusable(i) == /\ start[i].pc = "checking"
               /\ start' = [start EXCEPT ![i].pc = "refreshing"]
               /\ UNCHANGED <<call, server, serverPromise, cache, changes>>

Refreshed(i) == /\ start[i].pc = "refreshing"
                /\ Settles(call, [start EXCEPT ![i].pc = "failed"],
                           server, serverPromise, cache)
-----------------------------------------------------------------------------
(***************************************************************************)
(* connectToNotebookServer(): a process, or for a remote server its        *)
(* connection information, and then the HostJupyterServer.  There is only  *)
(* one attempt: the loop that retries throws at the end of the first.      *)
(***************************************************************************)
Works(j, promise, work) ==
    Settles(call, start,
            [server EXCEPT ![j] = [promise |-> IF @.promise = "pending" THEN promise
                                               ELSE @.promise,
                                   work |-> work]],
            serverPromise, cache)

Launched(j) == server[j].work = "process" /\ Works(j, "pending", "creating")

LaunchFails(j) == server[j].work = "process" /\ Works(j, "rejected", "ended")

Created(j) == server[j].work = "creating" /\ Works(j, "resolved", "up")

\* The connection is not disposed, and with it the process stays.
CreationFails(j) ==
    /\ server[j].work = "creating"
    /\ Works(j, "rejected", IF KeyOf(j) = "local" THEN "stray" ELSE "ended")

\* The process exits. HostJupyterServer shuts down and is not disposed, and
\* so nobody takes it out of the caches.
Crash(j) == /\ KeyOf(j) = "local" /\ server[j].work = "up"
            /\ server' = [server EXCEPT ![j].work = "crashed"]
            /\ UNCHANGED <<call, start, serverPromise, cache, changes>>

\* The user selects another server. Local starts were to be kept, but they
\* are looked up under another key than theirs.
DidChangeUri == /\ changes < MaxChanges
                /\ changes' = changes + 1
                /\ serverPromise' = [key \in Keys |-> NoCall]
                /\ cache' = [key \in Keys |-> NoCall]
                /\ UNCHANGED <<call, start, server>>
-----------------------------------------------------------------------------
Progress(c) == \/ Checked(c) \/ Unusable(c) \/ Refreshed(c)
               \/ Launched(c) \/ LaunchFails(c) \/ Created(c) \/ CreationFails(c)

Next == \/ \E c \in Calls : \/ \E key \in Keys : GetOrCreate(c, key)
                            \/ Cancel(c) \/ Progress(c) \/ Crash(c)
        \/ DidChangeUri

Spec == Init /\ [][Next]_vars

FairSpec == Spec /\ \A c \in Calls : WF_vars(Progress(c))
-----------------------------------------------------------------------------
(***************************************************************************)
(* As long as the user does not select another server, one server at most  *)
(* is up or being started for a key, but for those of starts that were     *)
(* cancelled or failed and that nobody can be given.                       *)
(***************************************************************************)
Live(j) == /\ server[j].work \in {"process", "creating", "up"}
           /\ server[j].promise \in {"pending", "resolved"}

OneServerPerKey ==
    changes = 0 => \A i, j \in Calls :
                       i # j /\ Live(i) /\ Live(j) => KeyOf(i) # KeyOf(j)

(***************************************************************************)
(* No cache ever holds a failure: a call made after it starts anew.        *)
(***************************************************************************)
FailuresAreForgotten ==
    \A key \in Keys :
        /\ serverPromise[key] # NoCall => start[serverPromise[key]].pc # "failed"
        /\ cache[key] # NoCall => ~Broken(server, cache[key])

(* The state of the caches is sound: well typed, and without failures.     *)
CachesAreSound == TypeOK /\ FailuresAreForgotten

(***************************************************************************)
(* Every call returns or throws: whoever cancels a start, or lets it fail, *)
(* takes along all the calls that wait for it, in whichever cache they met.*)
(***************************************************************************)
CallsReturn == \A c \in Calls : call[c].pc = "waiting" ~> call[c].pc \in {"done", "failed"}
=============================================================================
