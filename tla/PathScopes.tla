------------------------------ MODULE PathScopes ------------------------------
(***************************************************************************)
(* Repository-relative path scopes of sentinel/workspace.py.  A scope is a *)
(* sequence of path segments; the whole repository (".") is the empty      *)
(* sequence.  Comparison is case-insensitive: Fold is str.casefold on a    *)
(* segment.                                                                *)
(***************************************************************************)
EXTENDS Integers, Sequences

CONSTANTS Segment, Fold

ASSUME FoldAssumption ==
    /\ Fold \in [Segment -> Segment]
    /\ \A s \in Segment : Fold[Fold[s]] = Fold[s]

Scope == Seq(Segment)

\* A claim on a scope already owns everything below it.
Contains(parent, child) ==
    /\ Len(parent) <= Len(child)
    /\ \A i \in 1..Len(parent) : Fold[parent[i]] = Fold[child[i]]

\* Mutant: only the direction "the new scope is above the held one" is tested.
OneWayOverlap(left, right) ==
    \E a \in left, b \in right : Contains(a, b)

ScopesOverlap(left, right) ==
    \E a \in left, b \in right : Contains(a, b) \/ Contains(b, a)

\* The repository path f lies under one of the scopes.
Covers(scopes, f) == \E s \in scopes : Contains(s, f)
===============================================================================
