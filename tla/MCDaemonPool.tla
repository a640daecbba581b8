---------------------------- MODULE MCDaemonPool ----------------------------
(***************************************************************************)
(* DaemonPool for TLC.  Requests are numbered, and those of a type begin   *)
(* in this order: they differ in nothing but name.  They do not all begin, *)
(* but any of them may.                                                    *)
(***************************************************************************)
EXTENDS DaemonPool

CONSTANT MaxBegun   \* bound: requests that begin

Begun == {r \in Requests : request[r].pc # "new"}

FewBegin ==
    /\ \A q, r \in Requests : TypeOf(q) = TypeOf(r) /\ q < r /\ r \in Begun => q \in Begun
    /\ Cardinality(Begun) <= MaxBegun
=============================================================================
