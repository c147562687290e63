---------------------------- MODULE ExecutionAdapter ----------------------------
(***************************************************************************)
(* What an execution adapter has in the outside world: one execution per   *)
(* dispatch key, its process and its result file.  Modelled from           *)
(* sentinel/adapters/persistent_local.py (directory, runner, meta.json,    *)
(* result.json) and http.py (a provider's job); the runner's inside is     *)
(* left out.                                                               *)
(***************************************************************************)
EXTENDS Integers

CONSTANTS JobId      \* uuid4 dispatch keys

VARIABLE ext         \* the executions by dispatch key

\* alive: the command is running; known: meta.json names the runner and psutil
\* finds it (a remote provider always knows its job); result: what result.json says.
Result == {"NONE", "SUCCEEDED", "FAILED", "CANCELLED"}

Execution == [alive : BOOLEAN, known : BOOLEAN, result : Result]

ExtTypeOK ==
    /\ DOMAIN ext \subseteq JobId
    /\ ext \in [DOMAIN ext -> Execution]

Exists(j) == j \in DOMAIN ext

Alive(j) == Exists(j) /\ ext[j].alive

Create(j, alive, known, result) ==
    /\ ~Exists(j)
    /\ ext' = [k \in DOMAIN ext \cup {j} |->
          IF k = j THEN [alive |-> alive, known |-> known, result |-> result]
          ELSE ext[k]]

\* The runner starts the command; its pid is not yet on disk.
Spawn(j) == Exists(j) /\ ext' = [ext EXCEPT ![j].alive = TRUE]

\* meta.json is renamed into place.
Register(j) == Exists(j) /\ ext' = [ext EXCEPT ![j].known = TRUE]

\* psutil is missing or fails, now and perhaps again: a runner that is named may be
\* found or not, as one that is not named yet.
Forget(j) ==
    /\ Exists(j) /\ ext[j].known
    /\ ext' = [ext EXCEPT ![j].known = FALSE]

\* The command ends and the runner writes result.json, over one that is there;
\* it honours cancel.requested.
Finish(j) ==
    /\ Alive(j)
    /\ \E r \in {"SUCCEEDED", "FAILED", "CANCELLED"} :
          /\ (r = "CANCELLED") = (ext[j].result = "CANCELLED")
          /\ ext' = [ext EXCEPT ![j].alive = FALSE, ![j].result = r]

\* The machine or the runner goes down without a result.
Vanish(j) == Alive(j) /\ ext' = [ext EXCEPT ![j].alive = FALSE]

\* Mutants: an execution without a result is lost; a runner that is named is
\* taken for alive.
UnaccountedUnfinished(j) == ext[j].result = "NONE"

UnaccountedUnnamed(j) == ext[j].result = "NONE" /\ ~ext[j].known

\* status(): a result is final; a runner that cannot be identified as alive is
\* given a grace period ("RUNNING") and is then declared lost.
Unaccounted(j) == ext[j].result = "NONE" /\ ~(ext[j].alive /\ ext[j].known)

Status(j, answer) ==
    /\ Exists(j)
    /\ \/ /\ answer = IF ext[j].result = "NONE" THEN "RUNNING" ELSE ext[j].result
          /\ UNCHANGED ext
       \/ /\ Unaccounted(j)
          /\ answer = "FAILED"
          /\ ext' = [ext EXCEPT ![j].result = "FAILED"]

\* cancel() asks status() first, and leaves an execution with a result alone.
\* A command whose runner is not known may not be found.
Cancel(j) ==
    \/ \E answer \in Result \ {"NONE"} : Status(j, answer)
    \/ /\ Exists(j)
       /\ ext[j].result = "NONE"
       /\ \E survives \in {FALSE, ext[j].alive /\ ~ext[j].known} :
             ext' = [ext EXCEPT ![j].alive = survives, ![j].result = "CANCELLED"]
=================================================================================
