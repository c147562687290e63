------------------------------- MODULE Reconcile -------------------------------
(***************************************************************************)
(* The first two phases of a tick: reconcile_stale_routing and reconcile.  *)
(* Each works through the rows it has read when it began.                  *)
(* (reconcile_sessions between them is about SESSION tasks.)               *)
(***************************************************************************)
EXTENDS TaskLedger

StartTick(p) ==
    /\ At(p, "idle")
    /\ Goto(p, "recover",
            [left |-> {t \in DOMAIN task : task[t].state = "ROUTING" /\ task[t].old}])
    /\ ReadOnly

\* Mutant: a task that has ever had a job is not recovered.
AbandonedFirstTime(t) == JobsOf(t) = {} /\ task[t].state = "ROUTING" /\ task[t].old

\* Tested again in the transaction that recovers the task.
Abandoned(t) == ActiveJobs(t) = {} /\ task[t].state = "ROUTING" /\ task[t].old

RecoverRouting(p) ==
    /\ At(p, "recover")
    /\ \E t \in proc[p].left :
          LET rest == proc[p].left \ {t}
          IN  \/ /\ Abandoned(t)
                 /\ task' = [task EXCEPT ![t] = [@ EXCEPT
                       !.state = "RETRYABLE", !.old = FALSE, !.unknown = FALSE]]
                 /\ Goto(p, "recover",
                         [left |-> rest, t |-> t, todo |-> Release(t, "RETRYABLE")])
              \/ ~Abandoned(t) /\ Goto(p, "recover", [left |-> rest]) /\ UNCHANGED task
    /\ UNCHANGED <<job, reserved, claims, ext, faults>>

\* reconcile reads all rows of active jobs at once ...
ListJobs(p) ==
    /\ At(p, "recover")
    /\ proc[p].left = {}
    /\ Goto(p, "poll",
            [left |-> {[id |-> j, row |-> job[j]] :
                          j \in {i \in DOMAIN job : job[i].status \in ACTIVE_JOB_STATES}}])
    /\ ReadOnly

\* ... and the task of each when its turn comes.
PollJob(p) ==
    /\ At(p, "poll")
    /\ \E r \in proc[p].left :
          LET t == r.id[1]
              rest == proc[p].left \ {r}
              unsent == r.row.status = "SUBMITTING" /\ ~r.row.sent
          IN  \/ /\ StateIs(t, TERMINAL_TASK_STATES)
                 /\ Goto(p, "poll", [left |-> rest])
              \/ /\ ~StateIs(t, TERMINAL_TASK_STATES)
                 /\ Goto(p, IF unsent THEN "inquire" ELSE "ask",
                         [left |-> rest, t |-> t, j |-> r.id, row |-> task[t],
                          jrow |-> r.row])
    /\ ReadOnly

\* Some live process is inside adapter.submit for j.
Submitting(j) ==
    \E p \in Proc : proc[p].j = j /\ proc[p].pc \in {"submit", "spawn", "register"}

\* adapter.status(j) answers a.  The two seconds of grace before an execution is
\* declared lost pass under a live submitter only if that one stalls.
Answers(j, a) ==
    /\ Exists(j)
    /\ a = "FAILED" /\ Unaccounted(j) /\ Submitting(j) => "stall" \in Faults
    /\ Status(j, a)

\* A job without external id: the local adapter knows the dispatch key as its
\* own job id, so the execution is found again ...
InquireDispatchKey(p) ==
    LET j == proc[p].j
    IN  /\ At(p, "inquire")
        /\ Kind[job[j].worker] = "local"
        /\ \E a \in {"RUNNING", "SUCCEEDED", "FAILED", "CANCELLED"} :
              /\ Answers(j, a)
              /\ Goto(p, "ask", [todo |-> <<SetSent(j, a)>>])
        /\ UNCHANGED <<task, job, reserved, claims, faults>>

\* Mutant: what nobody knows of is tried again.
TryAgain(t) == Release(t, "RETRYABLE") \o <<SetError(t, "RETRYABLE")>>

Block(t) == <<[Set(t, "BLOCKED") EXCEPT !.error = "unknown"]>>

\* ... otherwise the task is blocked after two minutes.
OutcomeUnknown(p) ==
    LET j == proc[p].j
    IN  /\ At(p, "inquire")
        /\ Kind[job[j].worker] = "local" => ~Exists(j) \/ "adapter" \in Faults
        /\ Decide(p, "poll",
                  IF proc[p].jrow.old THEN Block(proc[p].t) ELSE <<>>)
        /\ ReadOnly

\* adapter.status raises: the leases are renewed, nothing else is known.
PollError(p) ==
    /\ At(p, "ask")
    /\ "adapter" \in Faults
    /\ Decide(p, "poll", Renew(proc[p].t))
    /\ ReadOnly

\* The remote adapter reports an error of its own request as FAILED.
PollMisreported(p) ==
    LET j == proc[p].j
    IN  /\ At(p, "ask")
        /\ "adapter" \in Faults
        /\ Kind[job[j].worker] = "remote"
        /\ Decide(p, "poll", Failure(proc[p].t, proc[p].row, j, "FAILED"))
        /\ ReadOnly

PollRunning(p) ==
    LET t == proc[p].t
        j == proc[p].j
    IN  /\ At(p, "ask")
        /\ Answers(j, "RUNNING")
        /\ Decide(p, "poll", Renew(t) \o <<SetJob(j, "RUNNING")>> \o
                  IF proc[p].row.state # "RUNNING" THEN <<Set(t, "RUNNING")>> ELSE <<>>)
        /\ UNCHANGED <<task, job, reserved, claims, faults>>

PollSucceeded(p) ==
    /\ At(p, "ask")
    /\ Answers(proc[p].j, "SUCCEEDED")
    /\ Decide(p, "poll", Success(proc[p].t, proc[p].j))
    /\ UNCHANGED <<task, job, reserved, claims, faults>>

\* collect_result raises; it is tried again by a later tick.
CollectError(p) ==
    LET t == proc[p].t
        j == proc[p].j
    IN  /\ At(p, "ask")
        /\ "adapter" \in Faults
        /\ Answers(j, "SUCCEEDED")
        /\ Decide(p, "poll", <<SetJob(j, "RUNNING")>> \o Renew(t) \o
                  IF proc[p].row.state # "RUNNING" THEN <<SetError(t, "RUNNING")>> ELSE <<>>)
        /\ UNCHANGED <<task, job, reserved, claims, faults>>

PollFailed(p) ==
    /\ At(p, "ask")
    /\ \E a \in {"FAILED", "CANCELLED"} :
          /\ Answers(proc[p].j, a)
          /\ Decide(p, "poll", Failure(proc[p].t, proc[p].row, proc[p].j, a))
    /\ UNCHANGED <<task, job, reserved, claims, faults>>

\* The tick goes on to its last phase with the schedulable tasks.
ListCandidates(p) ==
    /\ At(p, "poll")
    /\ proc[p].left = {}
    /\ Goto(p, "dispatch", [left |-> {t \in DOMAIN task : task[t].state \in SCHEDULABLE}])
    /\ ReadOnly

ReconcileStep(p) ==
    \/ StartTick(p) \/ RecoverRouting(p) \/ ListJobs(p) \/ PollJob(p)
    \/ InquireDispatchKey(p) \/ OutcomeUnknown(p) \/ PollError(p)
    \/ PollMisreported(p) \/ PollRunning(p) \/ PollSucceeded(p)
    \/ CollectError(p) \/ PollFailed(p) \/ ListCandidates(p)
================================================================================
