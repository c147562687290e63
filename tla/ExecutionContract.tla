---------------------------- MODULE ExecutionContract ----------------------------
(***************************************************************************)
(* The executions of the local adapter as a specification of their own:    *)
(* the operations the orchestrator's modules use, and what happens when    *)
(* calls overlap, which takes no part in them.                             *)
(***************************************************************************)
EXTENDS ExecutionAdapter

\* A call that began before the execution had its result replaces it: cancel() any
\* result, status() that of a cancel() and that of an execution which is not
\* known.  The runner of such an execution replaces the result of a call.
Overtaken(j) ==
    /\ Exists(j)
    /\ ext[j].result # "NONE"
    /\ \E r \in Result \ {"NONE"}, alive \in BOOLEAN :
          /\ alive => ext[j].alive
          /\ \/ r = "CANCELLED" /\ ~(alive /\ ext[j].known)
             \/ r = "FAILED" /\ ext[j].result = "CANCELLED" /\ ~alive
             \/ ~ext[j].known
          /\ ext' = [ext EXCEPT ![j].result = r, ![j].alive = alive]

Init == ext = [j \in {} |-> {}]

Answer(j) == \E a \in Result : Status(j, a)

Step(j) ==
    \/ Create(j, FALSE, FALSE, "NONE") \/ Spawn(j) \/ Register(j) \/ Forget(j)
    \/ Finish(j) \/ Vanish(j) \/ Answer(j) \/ Cancel(j) \/ Overtaken(j)

Next == \E j \in JobId : Step(j)

Spec == Init /\ [][Next]_ext
=================================================================================
