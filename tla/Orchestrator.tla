------------------------------ MODULE Orchestrator ------------------------------
(***************************************************************************)
(* The orchestrator of sentinel/orchestrator.py as a whole: any number of  *)
(* ticks and operator commands next to each other, the executions they     *)
(* start, agents that submit tasks, the passage of time, and crashes.      *)
(***************************************************************************)
EXTENDS Reconcile, Dispatch, OperatorCommands

\* submit_task by an agent
SubmitTask(t) ==
    /\ ~Known(t)
    /\ ~IsVerification(t)
    /\ task' = With(task, t, NewTask(NoJob))
    /\ UNCHANGED <<job, reserved, claims, ext, proc, faults>>

ExecutionEnds(j) ==
    /\ Finish(j)
    /\ UNCHANGED <<task, job, reserved, claims, proc, faults>>

ExecutionVanishes(j) ==
    /\ "vanish" \in Faults
    /\ Vanish(j)
    /\ UNCHANGED <<task, job, reserved, claims, proc, faults>>

\* psutil fails in the calls about the job from now on.
ExecutionForgotten(j) ==
    /\ "nometer" \in Faults
    /\ j \in DOMAIN job /\ Kind[job[j].worker] = "local"
    /\ Forget(j)
    /\ UNCHANGED <<task, job, reserved, claims, proc, faults>>

\* Inside dispatch_one with a row of t that it has stamped.
DispatchPlaces == {"route", "claim", "insert", "submit", "spawn", "register", "answer",
                   "settle", "dispatch"}

\* A row is not 120 seconds old while the tick that stamped it lives, unless that
\* tick stalls.  The code compares with the time at which the tick that looks has
\* begun; here it is the present, so that more rows are old.
Ages(t) ==
    "stall" \in Faults \/ \A p \in Ticker : proc[p].t = t => proc[p].pc \notin DispatchPlaces

TwoMinutes ==
    /\ task' = [t \in DOMAIN task |->
          [task[t] EXCEPT !.old = @ \/ (task[t].state = "ROUTING" /\ Ages(t))]]
    /\ job' = [j \in DOMAIN job |->
          [job[j] EXCEPT !.old = @ \/ (job[j].status = "SUBMITTING" /\ Ages(j[1]))]]
    /\ <<task, job>>' # <<task, job>>
    /\ UNCHANGED <<reserved, claims, ext, proc, faults>>

\* Every lease expires.
Outage ==
    /\ "outage" \in Faults
    /\ faults < MaxCrashes
    /\ faults' = faults + 1
    /\ reserved' = [t \in DOMAIN reserved |-> [reserved[t] EXCEPT !.fresh = FALSE]]
    /\ W!Tick
    /\ UNCHANGED <<task, job, ext, proc>>

Crash(p) ==
    /\ "crash" \in Faults
    /\ faults < MaxCrashes
    /\ faults' = faults + 1
    /\ proc[p] # Idle
    /\ Exit(p)
    /\ UNCHANGED <<task, job, reserved, claims, ext>>

Init ==
    /\ task = [t \in {} |-> NewTask(NoJob)]
    /\ job = [j \in {} |-> NoRow]
    /\ reserved = [t \in {} |-> NoRow]
    /\ W!Init
    /\ ext = [j \in {} |-> NoRow]
    /\ proc = [p \in Proc |-> Idle]
    /\ faults = 0

Run(p) ==
    \/ Perform(p)
    \/ p \in Ticker /\ (ReconcileStep(p) \/ DispatchStep(p))

Environment ==
    \/ \E t \in Task : SubmitTask(t)
    \/ \E j \in JobId : ExecutionEnds(j) \/ ExecutionVanishes(j) \/ ExecutionForgotten(j)
    \/ TwoMinutes
    \/ Outage

Next ==
    \/ \E p \in Proc : Run(p) \/ CommandStep(p) \/ Crash(p)
    \/ Environment

Spec == Init /\ [][Next]_vars

(***************************************************************************)
(* Ticks come around again and again and are not cut off forever, commands *)
(* end, a running command ends, time passes.  Ticks are a minute apart, so *)
(* the two seconds of grace of an execution without a result are over when *)
(* it has been polled again and again.                                     *)
(***************************************************************************)
DeclareLost(p) ==
    p \in Ticker /\ (PollFailed(p) \/ InquireDispatchKey(p)) /\ ext' # ext

Fairness ==
    /\ \A p \in Proc : WF_vars(Run(p)) /\ SF_vars(DeclareLost(p))
    /\ \A p \in Operator : WF_vars(ResolveDispatch(p) \/ CancelTask(p))
    /\ \A j \in JobId : WF_vars(ExecutionEnds(j))
    /\ SF_vars(TwoMinutes)

FairSpec == Spec /\ Fairness

-----------------------------------------------------------------------------
(***************************************************************************)
(* Properties.                                                             *)
(***************************************************************************)

\* Type invariant of the tables and of the executions.
TypeOK ==
    /\ DOMAIN task \subseteq Task
    /\ task \in [DOMAIN task -> TaskRow]
    /\ DOMAIN job \subseteq JobId
    /\ job \in [DOMAIN job -> JobRow]
    /\ DOMAIN reserved \subseteq Task
    /\ reserved \in [DOMAIN reserved -> Reservation]
    /\ W!TypeOK
    /\ ExtTypeOK

\* "so only one tick may dispatch it": a task never has two executions running,
\* however ticks interleave that last less than two minutes, if it has one attempt.
OneLiveExecution ==
    \A i, j \in JobId : Alive(i) /\ Alive(j) /\ i[1] = j[1] => i = j

\* Tasks whose claims exclude each other.
Overlap(t, u) ==
    /\ BaseOf[t] = BaseOf[u]
    /\ W!ScopesOverlap(ScopesOf[t], ScopesOf[u])

\* The claim must be had before dispatch "so that two agents do not change the
\* same repository, commit and path at the same time".
ScopeExclusion ==
    \A i, j \in JobId : Alive(i) /\ Alive(j) /\ Overlap(i[1], j[1]) => i[1] = j[1]

\* What runs is accounted for: its job is one that reconcile polls, its worker
\* is reserved and its paths are claimed for as long as it runs.
ExecutionAccounted ==
    \A j \in JobId : Alive(j) =>
        /\ j \in DOMAIN job /\ job[j].status \in ACTIVE_JOB_STATES
        /\ j[1] \in DOMAIN reserved
        /\ NeedsClaim(j[1]) => W!Leased(claims, j[1])

\* A task whose handlers are all through, and that is over or waits for another
\* try, holds neither a worker nor paths.
Resting(t) == \A p \in Proc : proc[p].t # t

ReleasedWhenOver ==
    \A t \in DOMAIN task :
        (task[t].state \in {"DONE", "FAILED", "CANCELLED"} \cup SCHEDULABLE /\ Resting(t)) =>
            t \notin DOMAIN reserved /\ ~W!Leased(claims, t)

\* An execution of the task has really succeeded.
Succeeded(t) == \E j \in JobId : j[1] = t /\ Exists(j) /\ ext[j].result = "SUCCEEDED"

\* "Only when the local verification passes is the parent task DONE", across
\* crashes, retries and late or repeated polls.
VerifiedBeforeDone ==
    \A t \in DOMAIN task :
        ChildOf[t] # NoTask /\ task[t].state = "DONE" => Succeeded(ChildOf[t])

\* A task is started only after everything it depends on has succeeded, and
\* has been verified if that was asked for.
DependenciesRanFirst ==
    \A j \in JobId : Exists(j) =>
        \A d \in DependsOn[j[1]] :
            /\ Succeeded(d)
            /\ ChildOf[d] # NoTask => Succeeded(ChildOf[d])

\* No task is lost: it ends, or waits for a person.
Settled(t) == StateIs(t, TERMINAL_TASK_STATES \cup {"AWAITING_MANUAL"})

Settles == \A t \in Task : Known(t) ~> Settled(t)

\* "for one additional attempt": a task is executed at most max_attempts times,
\* whatever crashes, resolutions and retries come in between.
AttemptBudget ==
    \A t \in DOMAIN task :
        Cardinality({j \in DOMAIN ext : j[1] = t}) <= task[t].max

\* "Recover a crash between the ROUTING CAS and durable job creation": no task
\* is routed forever.
RoutingEnds == \A t \in Task : StateIs(t, {"ROUTING"}) ~> ~StateIs(t, {"ROUTING"})
=================================================================================
