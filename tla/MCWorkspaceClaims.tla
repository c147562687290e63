--------------------------- MODULE MCWorkspaceClaims ---------------------------
(* Small instances of WorkspaceClaims for TLC. *)
EXTENDS WorkspaceClaims, TLC

CONSTANTS src, SRC, api, docs    \* path segments; SRC is src in another case

MCFold == [s \in {src, SRC, api, docs} |-> IF s = SRC THEN src ELSE s]

\* src, SRC/api, docs and the whole repository
MCScopeSet == {{<<src>>}, {<<SRC, api>>}, {<<docs>>, <<src, docs>>}, {<<>>}}

\* src/api and a single pair of scope sets, for the instances about owners
MCTwoScopes == {{<<src>>}, {<<SRC, api>>}}

MCPath == {<<>>, <<src>>, <<docs>>, <<src, api>>, <<src, docs>>, <<src, docs, api>>}

CONSTANT waiter                  \* the task that keeps claiming

MCWaitSpec == Spec /\ WF_vars(Tick) /\ WF_vars(WaiterClaims(waiter))

TaskSymmetry == Permutations(Task)
================================================================================
