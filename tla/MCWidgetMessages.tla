-------------------------- MODULE MCWidgetMessages --------------------------
(***************************************************************************)
(* WidgetMessages for TLC.  What happens to the dispatcher is bounded all  *)
(* together: many messages come with few restarts, and the other way       *)
(* round.                                                                  *)
(***************************************************************************)
EXTENDS WidgetMessages

CONSTANT MaxEvents   \* bound: messages and requests, sessions, sockets,
                     \* reloads, and comm targets of the widgets' own

Arrived == {i \in Items : item[i].pc # "unused"}

OwnTargets == (Elements(pendingTargets) \cup registered) \ {Default}

FewEvents == Cardinality(Arrived) + Cardinality(OwnTargets)
             + sessions + sockets + reloads <= MaxEvents
=============================================================================
