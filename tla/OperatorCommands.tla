---------------------------- MODULE OperatorCommands ----------------------------
(***************************************************************************)
(* What an operator does to tasks by hand: retry, complete-manual,         *)
(* resolve-dispatch and cancel, each run by a process of its own next to   *)
(* the ticks.                                                              *)
(***************************************************************************)
EXTENDS TaskLedger

Command(p, t, name) ==
    At(p, "idle") /\ p \in Operator /\ name \in Commands /\ Known(t)

REOPENABLE == {"FAILED", "BLOCKED", "CANCELLED", "RETRYABLE", "AWAITING_MANUAL"}

MayReopen(t) == ~task[t].unknown /\ task[t].state \in REOPENABLE

\* Bound: a task that has made MaxJobs attempts is not reopened.
Retry(p, t) ==
    /\ Command(p, t, "retry")
    /\ MayReopen(t)
    /\ task[t].attempts < MaxJobs
    /\ Goto(p, "idle", [t |-> t, todo |-> <<[op |-> "reopen", id |-> t]>>])
    /\ ReadOnly

\* The job it finishes is the task's active_job_id.
CompleteManual(p, t) ==
    /\ Command(p, t, "complete")
    /\ task[t].state = "AWAITING_MANUAL"
    /\ \E steps \in {Success(t, task[t].job), Failure(t, task[t], task[t].job, "FAILED")} :
          Goto(p, "idle", [t |-> t, todo |-> steps])
    /\ ReadOnly

MayResolve(t) == task[t].state = "BLOCKED" /\ task[t].unknown

BeginResolve(p, t) ==
    /\ Command(p, t, "resolve")
    /\ MayResolve(t)
    /\ Goto(p, "resolve", [t |-> t])
    /\ ReadOnly

SubmittingJobs(t) == {j \in JobsOf(t) : job[j].status = "SUBMITTING"}

\* The operator looks at the provider and tells the truth about it.
ResolveDispatch(p) ==
    LET t == proc[p].t
    IN  /\ At(p, "resolve")
        /\ \/ SubmittingJobs(t) = {} /\ Exit(p) /\ UNCHANGED reserved
           \/ \E j \in SubmittingJobs(t) :
                 /\ \A i \in SubmittingJobs(t) : i[2] <= j[2]
                 /\ \/ /\ ~Exists(j)
                       /\ Decide(p, "idle", <<SetJob(j, "FAILED")>> \o Release(t, "RETRYABLE") \o
                             <<[SetError(t, "RETRYABLE") EXCEPT !.job = NoJob]>>)
                       /\ UNCHANGED reserved
                    \/ /\ Exists(j) /\ t \notin DOMAIN reserved
                       /\ Exit(p) /\ UNCHANGED reserved
                    \/ /\ Exists(j) /\ t \in DOMAIN reserved
                       /\ reserved' = [reserved EXCEPT ![t].fresh = TRUE]
                       /\ Decide(p, "idle", <<Hold(t), SetSent(j, "SUBMITTED"),
                                             SetError(t, "RUNNING")>>)
        /\ UNCHANGED <<task, job, claims, ext, faults>>

BeginCancel(p, t) ==
    /\ Command(p, t, "cancel")
    /\ Goto(p, "cancel", [t |-> t, row |-> task[t]])
    /\ ReadOnly

\* adapter.cancel gets the recorded external id; without one it raises, and
\* what it raises is swallowed.
CancelTask(p) ==
    LET t == proc[p].t
        j == proc[p].row.job
        active == j \in ActiveJobs(t)
        reached == active /\ job[j].sent
        steps == Release(t, "FAILED") \o <<SetDropJob(t, "CANCELLED")>>
    IN  /\ At(p, "cancel")
        /\ \/ reached /\ Cancel(j)
           \/ (reached => "adapter" \in Faults) /\ UNCHANGED ext
        /\ Decide(p, "idle", IF active THEN <<SetJob(j, "CANCELLED")>> \o steps ELSE steps)
        /\ UNCHANGED <<task, job, reserved, claims, faults>>

CommandStep(p) ==
    \/ \E t \in Task :
          \/ Retry(p, t) \/ CompleteManual(p, t)
          \/ BeginResolve(p, t) \/ BeginCancel(p, t)
    \/ ResolveDispatch(p) \/ CancelTask(p)
=================================================================================
