--------------------------- MODULE WidgetMessages ---------------------------
(***************************************************************************)
(* IPyWidgetMessageDispatcher and the socket hooks it works through, for   *)
(* one notebook: the widgets live in a webview, behind a second kernel     *)
(* connection that is fed with every message of the real one.              *)
(*                                                                         *)
(* A socket calls its hooks for every message it receives and every        *)
(* request it sends, in two promise chains: one of each direction at a     *)
(* time.  The hook hands the message to the webview; it holds the chain    *)
(* back for requests, once widgets are in use, until the webview received  *)
(* them, and for updates of Output widgets until it handled them fully.    *)
(* The webview handles what it received later, in promises of its own.     *)
(* A restart brings a new socket, a session that failed a new session.     *)
(* The kernel of the notebook is there before it has a session, and while  *)
(* it has none; the dispatcher believes then that it registers targets.    *)
(*                                                                         *)
(* Message hooks, and the messages from the webview to the kernel, are not *)
(* modelled.  The names of the specification are its own, so that a module *)
(* can extend it beside that of another component.                         *)
(***************************************************************************)
EXTENDS Naturals, Sequences, FiniteSets

CONSTANTS MaxItems,      \* bound: messages and requests, in the order they come
          MaxSessions,   \* bound: sessions of the notebook's kernel
          MaxSockets,    \* bound: sockets of these sessions
          MaxReloads     \* bound: times the webview is loaded again

ASSUME WidgetBounds == /\ MaxItems \in Nat /\ MaxSessions \in Nat
                       /\ MaxSockets \in Nat /\ MaxReloads \in Nat

Items == 1..MaxItems
RestartMark == 0                      \* handed to the webview among the items
Default == "jupyter.widget"           \* Identifiers.DefaultCommTarget
Targets == {Default, "own.target"}

\* A message opens the Output widget, updates or closes it.  Others pass like
\* updates of a widget that is not open.
Incoming == {"open", "update", "close"}

VARIABLES kernel,         \* the kernel provider has a kernel for the notebook
          session,        \* the session made for the kernel, or 0
          sessions,       \* sessions made
          socket,         \* the socket of the session, or 0
          sockets,        \* sockets made
          announced,      \* what is or was announced of the session
          subscribed,     \* the session subscribedToKernelSocket is about, or 0
          listened,       \* kernelSocketInfo: the socket with the hooks, or 0
          item,           \* item[i]: a message received or a request sent
          fullHandle,     \* fullHandleMessage: the item, or 0
          outputWidget,   \* outputWidgetIds: there is an Output widget
          widgets,        \* isUsingIPyWidgets
          posted,         \* handed to the webview, not yet received
          unhandled,      \* received there, not yet handled
          pendingTargets, \* pendingTargetNames, in the order of insertion
          registered,     \* commTargetsRegistered
          kernelTargets,  \* the targets the session's connection has
          reloads         \* times the webview was loaded again

sessionVars == <<kernel, session, sessions, socket, sockets>>
targetVars == <<pendingTargets, registered, kernelTargets>>
webview == <<posted, unhandled, reloads>>
hookVars == <<fullHandle, outputWidget, widgets>>
widgetVars == <<sessionVars, announced, subscribed, listened, item, hookVars, webview,
                targetVars>>

Item == [kind: Incoming \cup {"execute"},
         socket: 0..MaxSockets,
         pc: {"unused", "queued", "posted", "handling", "passed", "threw"},
         full: BOOLEAN,     \* to be handled fully
         on: 0..MaxItems]   \* the item whose handling it awaits

\* The start or the restart that is to be announced, or that was.
Announcements == {"none", "start", "started", "restart", "restarted"}

WidgetsTypeOK == /\ kernel \in BOOLEAN
                 /\ session \in 0..MaxSessions /\ sessions \in 0..MaxSessions
                 /\ socket \in 0..MaxSockets /\ sockets \in 0..MaxSockets
                 /\ announced \in Announcements
                 /\ subscribed \in 0..MaxSessions /\ listened \in 0..MaxSockets
                 /\ item \in [Items -> Item]
                 /\ fullHandle \in 0..MaxItems
                 /\ outputWidget \in BOOLEAN /\ widgets \in BOOLEAN
                 /\ posted \in Seq(Items \cup {RestartMark}) /\ unhandled \subseteq Items
                 /\ pendingTargets \in Seq(Targets)
                 /\ registered \subseteq Targets /\ kernelTargets \subseteq Targets
                 /\ reloads \in 0..MaxReloads
                 /\ \A i \in Items : item[i].full => item[i].kind = "update"

WidgetsInit == /\ kernel = FALSE
               /\ session = 0 /\ sessions = 0 /\ socket = 0 /\ sockets = 0
               /\ announced = "none" /\ subscribed = 0 /\ listened = 0
               /\ item = [i \in Items |-> [kind |-> "open", socket |-> 0, pc |-> "unused",
                                           full |-> FALSE, on |-> 0]]
               /\ fullHandle = 0 /\ outputWidget = FALSE /\ widgets = FALSE
               /\ posted = <<>> /\ unhandled = {} /\ reloads = 0
               /\ pendingTargets = <<Default>> /\ registered = {} /\ kernelTargets = {}
-----------------------------------------------------------------------------
(***************************************************************************)
(* Comm targets.                                                           *)
(***************************************************************************)
Elements(s) == {s[n] : n \in DOMAIN s}

\* Set.add() keeps the order of insertion.
Added(s, t) == IF t \in Elements(s) THEN s ELSE Append(s, t)

\* registerCommTargets(): the loop ends at the first pending name that is
\* registered already, which stays pending, as do all names behind it.
Unregistered(pending, reg) ==
    SubSeq(pending, 1, CHOOSE n \in 0..Len(pending) :
        /\ \A m \in 1..n : pending[m] \notin reg
        /\ n < Len(pending) => pending[n + 1] \in reg)

\* The kernel may have no session: then nobody is told.
RegisterCommTargets(pending, reg, s, had) ==
    LET names == Unregistered(pending, reg)
    IN  /\ pendingTargets' = SubSeq(pending, Len(names) + 1, Len(pending))
        /\ registered' = reg \cup Elements(names)
        /\ kernelTargets' = IF s = 0 THEN had ELSE had \cup (Elements(names) \ {Default})
-----------------------------------------------------------------------------
(***************************************************************************)
(* The hook.                                                               *)
(***************************************************************************)

\* onKernelSocketResponse(), or a restart: the hook goes on with item r.  That
\* of an update reads fullHandleMessage again, which must be there.
Answered(r, handle) ==
    [r EXCEPT !.pc = IF r.kind = "execute" THEN "passed"
                     ELSE IF handle # 0 THEN "handling" ELSE "threw",
              !.on = IF r.kind = "execute" THEN 0 ELSE handle]

\* A restart answers what the webview did not.
\* Faulty variant: it does not.
ReleasedNever(items) == items

Released(items) == [i \in Items |-> IF items[i].pc = "posted"
                                    THEN Answered(items[i], fullHandle) ELSE items[i]]

\* The socket of the session is or becomes s: what subscribeToKernelSocket()
\* does about it, with what the connection has registered.
NewSocket(s, had) ==
    /\ listened' = s
    /\ IF listened = 0 THEN UNCHANGED <<item, posted>>
       ELSE item' = Released(item) /\ posted' = Append(posted, RestartMark)
    /\ RegisterCommTargets(pendingTargets, registered, session, had)

\* kernel.session: a session is handed to the kernel when it is started up.
KernelSession == IF announced = "start" THEN 0 ELSE session

\* What initialize() and a restart do with a kernel whose session is s: the
\* first session is subscribed to, and the pending targets are registered.
SubscribeAndRegister(s, pending, reg) ==
    LET first == subscribed = 0 /\ s # 0
    IN  /\ subscribed' = IF first THEN s ELSE subscribed
        /\ listened' = IF first THEN socket ELSE listened
        /\ RegisterCommTargets(pending, reg, s, kernelTargets)

\* initialize(), with the pending names in the argument.
InitializeDispatcher(s, pending) ==
    IF kernel THEN SubscribeAndRegister(s, pending, registered)
    ELSE /\ pendingTargets' = pending
         /\ UNCHANGED <<subscribed, listened, registered, kernelTargets>>
-----------------------------------------------------------------------------
(***************************************************************************)
(* The kernel.                                                             *)
(***************************************************************************)
KernelCreated == /\ ~kernel
                 /\ kernel' = TRUE
                 /\ UNCHANGED <<session, sessions, socket, sockets, announced, subscribed,
                                listened, item, hookVars, webview, targetVars>>

SessionStarts == /\ kernel /\ session = 0
                 /\ sessions < MaxSessions /\ sockets < MaxSockets
                 /\ session' = sessions + 1 /\ sessions' = sessions + 1
                 /\ socket' = sockets + 1 /\ sockets' = sockets + 1
                 /\ announced' = "start"
                 /\ kernelTargets' = {}
                 /\ UNCHANGED <<kernel, subscribed, listened, item, hookVars, webview,
                                pendingTargets, registered>>

\* The session is the kernel's; onDidStartKernel.  A restart of a kernel that
\* had no session is announced besides.
KernelStarted == /\ announced = "start"
                 /\ announced' \in {"started", "restart"}
                 /\ InitializeDispatcher(session, pendingTargets)
                 /\ UNCHANGED <<sessionVars, item, hookVars, webview>>

\* A failed start or restart, or the end of the process.
SessionLost == /\ session # 0
               /\ session' = 0 /\ socket' = 0
               /\ announced' = "none"
               /\ kernelTargets' = {}
               /\ UNCHANGED <<kernel, sessions, sockets, subscribed, listened, item, hookVars,
                              webview, pendingTargets, registered>>

\* A restart: a remote kernel keeps its connection, others get a new one.
SessionRestarts(remote) ==
    LET had == IF remote THEN kernelTargets ELSE {}
    IN  /\ announced \in {"started", "restarted"} /\ sockets < MaxSockets
        /\ socket' = sockets + 1 /\ sockets' = sockets + 1
        /\ announced' = "restart"
        /\ IF subscribed = session THEN NewSocket(sockets + 1, had)
           ELSE kernelTargets' = had
                /\ UNCHANGED <<listened, item, posted, pendingTargets, registered>>
        /\ UNCHANGED <<kernel, session, sessions, subscribed, hookVars, unhandled, reloads>>

\* handleKernelRestarts(): all that was registered is pending again.
\* Faulty variant: it counts as registered all the same.
ForgottenNot(reg) == reg

Forgotten(reg) == {}

KernelRestarted ==
    LET again(s, t) == IF t \in registered THEN Added(s, t) ELSE s
    IN  /\ announced = "restart"
        /\ announced' = "restarted"
        /\ IF registered = {} THEN UNCHANGED <<subscribed, listened, targetVars>>
           ELSE SubscribeAndRegister(session,
                                     again(again(pendingTargets, Default), "own.target"),
                                     Forgotten(registered))
        /\ UNCHANGED <<sessionVars, item, hookVars, webview>>
-----------------------------------------------------------------------------
(***************************************************************************)
(* The chains of the sockets.                                              *)
(***************************************************************************)

\* A message comes in, or a request is sent.
Arrives(i, kind) ==
    /\ item[i].pc = "unused" /\ \A j \in 1..i - 1 : item[j].pc # "unused"
    /\ socket # 0
    /\ item' = [item EXCEPT ![i] = [kind |-> kind, socket |-> socket, pc |-> "queued",
                                    full |-> FALSE, on |-> 0]]
    /\ UNCHANGED <<sessionVars, announced, subscribed, listened, hookVars, webview, targetVars>>

\* What holds a chain up.
\* Faulty variant: that a message is received is enough.
BusyUntilReceived(pc) == pc \in {"queued", "posted", "threw"}

Busy(pc) == pc \in {"queued", "posted", "handling", "threw"}

SameChain(i, j) == /\ item[i].socket = item[j].socket
                   /\ (item[i].kind = "execute") = (item[j].kind = "execute")

IsNext(i) == /\ item[i].pc = "queued"
             /\ \A j \in 1..i - 1 : SameChain(i, j) => ~Busy(item[j].pc)

\* A socket the dispatcher does not listen to calls no hooks.
Passes(i) == /\ IsNext(i) /\ item[i].socket # listened
             /\ item' = [item EXCEPT ![i].pc = "passed"]
             /\ UNCHANGED <<sessionVars, announced, subscribed, listened, hookVars, webview,
                            targetVars>>

\* mirrorSend() and onKernelSocketMessage().
HandledFully(kind) == kind = "update" /\ outputWidget

Hook(i) == /\ IsNext(i) /\ item[i].socket = listened
           /\ posted' = Append(posted, i)
           /\ LET kind == item[i].kind
                  waits == IF kind = "execute" THEN widgets ELSE HandledFully(kind)
              IN  /\ item' = [item EXCEPT ![i].pc = IF waits THEN "posted" ELSE "passed",
                                          ![i].full = HandledFully(kind)]
                  /\ fullHandle' = IF HandledFully(kind) THEN i ELSE fullHandle
                  /\ outputWidget' = (kind = "open" \/ (outputWidget /\ kind # "close"))
                  /\ widgets' = (widgets \/ kind = "open")
           /\ UNCHANGED <<sessionVars, announced, subscribed, listened, unhandled, reloads,
                          targetVars>>
-----------------------------------------------------------------------------
(***************************************************************************)
(* The webview.                                                            *)
(***************************************************************************)

\* It receives what comes first, and says so.  A restart makes it drop its
\* kernel connection, with what that has not handled.
Receives ==
    LET i == Head(posted)
    IN  /\ posted # <<>>
        /\ posted' = Tail(posted)
        /\ unhandled' = IF i = RestartMark THEN {}
                        ELSE IF item[i].kind = "execute" THEN unhandled ELSE unhandled \cup {i}
        /\ item' = IF i # RestartMark /\ item[i].pc = "posted"
                   THEN [item EXCEPT ![i] = Answered(@, fullHandle)] ELSE item
        /\ UNCHANGED <<sessionVars, announced, subscribed, listened, hookVars, reloads, targetVars>>

\* iopubMessageHandled().
IsAwaited(i) == fullHandle = i

\* Faulty variant: nobody is told.
FinishedNever(i) == item

Finished(i) == [j \in Items |-> IF item[j].pc = "handling" /\ item[j].on = i
                                THEN [item[j] EXCEPT !.pc = "passed", !.on = 0] ELSE item[j]]

Handles(i) ==
    /\ i \in unhandled /\ \A j \in unhandled : i <= j
    /\ unhandled' = unhandled \ {i}
    /\ IF IsAwaited(i) THEN item' = Finished(i) /\ fullHandle' = 0
       ELSE UNCHANGED <<item, fullHandle>>
    /\ UNCHANGED <<sessionVars, announced, subscribed, listened, outputWidget, widgets,
                   posted, reloads, targetVars>>

\* It has widgets that register a comm target.
RegisterCommTarget(t) ==
    /\ InitializeDispatcher(KernelSession, Added(pendingTargets, t))
    /\ UNCHANGED <<sessionVars, announced, item, hookVars, webview>>

\* It is loaded anew, and is ready: what was on its way is lost.
Reloads == /\ reloads < MaxReloads
           /\ reloads' = reloads + 1
           /\ posted' = <<>> /\ unhandled' = {}
           /\ InitializeDispatcher(KernelSession, pendingTargets)
           /\ UNCHANGED <<sessionVars, announced, item, hookVars>>
-----------------------------------------------------------------------------
Chains == \E i \in Items : Passes(i) \/ Hook(i)

Webview == Receives \/ \E i \in Items : Handles(i)

WidgetsNext == \/ KernelCreated \/ SessionStarts \/ KernelStarted \/ SessionLost
               \/ \E remote \in BOOLEAN : SessionRestarts(remote)
               \/ KernelRestarted
               \/ \E i \in Items, kind \in Incoming \cup {"execute"} : Arrives(i, kind)
               \/ Chains \/ Webview
               \/ \E t \in Targets : RegisterCommTarget(t)
               \/ Reloads

WidgetsSpec == WidgetsInit /\ [][WidgetsNext]_widgetVars

\* Promise chains go on, and so does the script of a webview.
WidgetsFairSpec == /\ WidgetsSpec
                   /\ \A i \in Items : WF_widgetVars(Passes(i) \/ Hook(i))
                   /\ WF_widgetVars(Receives)
                   /\ WF_widgetVars(\E i \in Items : Handles(i))
-----------------------------------------------------------------------------
InWebview(i) == i \in Elements(posted) \cup unhandled

(***************************************************************************)
(* The hook of an update finds fullHandleMessage when it reads it again    *)
(* after its wait.  If it did not it would throw, and the chain of a raw   *)
(* socket, which has no handler for that, would pass nothing any more.     *)
(***************************************************************************)
FullHandleIsThere == \A i \in Items : item[i].pc # "threw"

(***************************************************************************)
(* While the webview has an update of an Output widget that it must handle *)
(* fully, it is not handed any later message of the same kernel.           *)
(***************************************************************************)
UpdatesAreHandledFirst ==
    \A i, j \in Items :
        item[i].full /\ i < j /\ SameChain(i, j) /\ item[i].socket = listened
        => ~(InWebview(i) /\ InWebview(j))

(***************************************************************************)
(* Nothing waits for the webview to receive something of a kernel that was *)
(* restarted meanwhile, whose messages a new webview would never see.      *)
(***************************************************************************)
WaitersAreCurrent == \A i \in Items : item[i].pc = "posted" => item[i].socket = listened

(* The state of the dispatcher is sound: well typed, with the message that *)
(* is handled fully where its hook looks for it, and nothing waiting for a *)
(* socket that is gone.                                                    *)
DispatcherIsSound == WidgetsTypeOK /\ FullHandleIsThere /\ WaitersAreCurrent

(***************************************************************************)
(* From the announcement of a restart to the next restart or the end of    *)
(* the session, its connection knows every target the dispatcher has       *)
(* registered, also those that were registered without a session.          *)
(***************************************************************************)
RestartRegistersTargets ==
    announced = "restarted" => registered \ {Default} \subseteq kernelTargets

(***************************************************************************)
(* Messages and requests get through the hooks in the end, unless their    *)
(* socket is replaced, or the webview was loaded again and has lost what   *)
(* they, or one before them in their chain, wait for.                      *)
(***************************************************************************)
Lost(i) == /\ reloads > 0
           /\ \/ item[i].pc = "posted" /\ ~InWebview(i)
              \/ item[i].pc = "handling" /\ ~InWebview(item[i].on)

NothingIsHeldUp ==
    \A i \in Items :
        item[i].pc \in {"queued", "posted", "handling"}
        ~> \/ item[i].pc = "passed" \/ item[i].socket # socket
           \/ \E j \in 1..i : SameChain(i, j) /\ Lost(j)
=============================================================================
