------------------------------- MODULE PathLease -------------------------------
(***************************************************************************)
(* What the workspace claims promise, without rows, clocks, owners or      *)
(* retries: every task holds at most one area of a repository, an area is  *)
(* handed out only while nobody else holds an overlapping one, and a       *)
(* finished task never holds anything again.                               *)
(***************************************************************************)
EXTENDS PathScopes

CONSTANTS Task, Base, ScopeSet, NoArea

VARIABLES
    lease,      \* [Task -> area], an area is a commit of a repository and scopes
    finished    \* the tasks whose work is done for good

Area == [base : Base, scopes : ScopeSet]

AreasOverlap(a, b) == a.base = b.base /\ ScopesOverlap(a.scopes, b.scopes)

Init ==
    /\ lease = [t \in Task |-> NoArea]
    /\ finished = {}

\* Any leases may end (release, expiry, a dead owner); afterwards at most one
\* task is given an area that is disjoint from the areas still held.
Reassign(dropped, granted, area) ==
    LET kept == [t \in Task |-> IF t \in dropped THEN NoArea ELSE lease[t]]
    IN  /\ granted \notin finished
        /\ \A t \in Task \ {granted} :
              kept[t] # NoArea => ~AreasOverlap(area, kept[t])
        /\ lease' = [kept EXCEPT ![granted] = area]
        /\ UNCHANGED finished

Drop(dropped) ==
    /\ lease' = [t \in Task |-> IF t \in dropped THEN NoArea ELSE lease[t]]
    /\ finished \subseteq finished'
    /\ finished' \subseteq finished \cup dropped

Next ==
    \/ \E dropped \in SUBSET Task, granted \in Task, area \in Area :
          Reassign(dropped, granted, area)
    \/ \E dropped \in SUBSET Task : Drop(dropped)

vars == <<lease, finished>>

Spec == Init /\ [][Next]_vars
================================================================================
