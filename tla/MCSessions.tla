------------------------------- MODULE MCSessions -------------------------------
(* Small instances of Sessions for TLC. *)
EXTENDS Sessions, TLC

\* Tasks a and b; sessions s1 and s2 on one worker; agent processes: x1 and y1
\* of s1, x2 of s2.
CONSTANTS a, b, src, s1, s2, x1, y1, x2, laptop

MCFold == [s \in {src} |-> s]

MCAgentOf == [p \in Agent |-> IF p = x2 THEN s2 ELSE s1]

MCTakes == [s \in Session |-> Task]

MCWorkerOf == [s \in Session |-> laptop]

MCInflight == [s \in Session |-> 1]

MCTwoSlots == [w \in Worker |-> 2]

MCOneSlot == [w \in Worker |-> 1]

MCBaseOf == [t \in Task |-> CHOOSE c \in Base : TRUE]

\* All tasks write the same files of the same commit; or only b writes.
MCAllWrite == [t \in Task |-> {<<src>>}]

MCNoneWrites == [t \in Task |-> {}]

MCOnlyBWrites == [t \in Task |-> IF t = b THEN {<<src>>} ELSE {}]

MCNoDeps == [t \in Task |-> {}]

MCBAfterA == [t \in Task |-> IF t = b THEN {a} ELSE {}]
=================================================================================
