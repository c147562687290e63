------------------------------- MODULE TaskLedger -------------------------------
(***************************************************************************)
(* The tables of sentinel/orchestrator.py (tasks and jobs), the            *)
(* reservations and claims next to them in the same database, and the      *)
(* one-shot processes that work on them: ticks and operator commands.      *)
(*                                                                         *)
(* A handler is not one transaction but a chain of them.  What it has read *)
(* stays in the process (proc[p].row, .left, ...) while others run.        *)
(* Once its outcome is decided, the transactions that carry it out wait in *)
(* proc[p].todo and are performed one per step; a crash forgets them.      *)
(***************************************************************************)
EXTENDS ExecutionAdapter, Sequences, FiniteSets

CONSTANTS
    Task, NoTask, NoJob, KeepJob, NoRow,
    ChildOf,              \* the verification task of a task, or NoTask
    DependsOn,            \* depends_on
    Base, BaseOf, ScopesOf, Segment, Fold,  \* repository commit, path scopes
    Worker, Fits, Kind,   \* workers, those a task may use, their adapters
    Concurrency,          \* max_concurrency of the workers
    MaxAttempts,          \* max_attempts of the tasks
    Ticker, Operator,     \* processes that tick, that run commands
    Commands,             \* the commands operators use
    Faults,               \* what may go wrong, see below
    MaxJobs, MaxCrashes,  \* bounds: jobs per task, crashes and outages
    NoProcess, NoArea     \* of WorkspaceClaims

(***************************************************************************)
(* "crash": a process dies between two of its steps.  "vanish": a runner   *)
(* dies without a result.  "stall": a live tick lasts two minutes, or      *)
(* takes two seconds to name the runner it has started.  "outage": two     *)
(* hours pass without a heartbeat.  "adapter": calls of an adapter raise,  *)
(* or fail although the execution is there.  "nometer": the local adapter  *)
(* finds no psutil, or it fails.                                           *)
(***************************************************************************)
AllFaults == {"crash", "vanish", "stall", "outage", "adapter", "nometer"}

AllCommands == {"retry", "resolve", "cancel", "complete"}

ASSUME LedgerAssumption ==
    /\ JobId \subseteq Task \X (1..MaxJobs)
    /\ NoTask \notin Task
    /\ NoJob \notin JobId /\ KeepJob \notin JobId \cup {NoJob}
    /\ ChildOf \in [Task -> Task \cup {NoTask}]
    /\ DependsOn \in [Task -> SUBSET Task]
    /\ BaseOf \in [Task -> Base]
    /\ Fits \in [Task -> SUBSET Worker]
    /\ Kind \in [Worker -> {"local", "remote", "manual", "none"}]
    /\ Concurrency \in [Worker -> Nat]
    /\ MaxAttempts \in Nat \ {0}
    /\ MaxJobs \in Nat /\ MaxCrashes \in Nat
    /\ Ticker \cap Operator = {}
    /\ Commands \subseteq AllCommands
    /\ Faults \subseteq AllFaults

\* A verification belongs to one parent, after which it is named, and is not
\* verified itself.
ASSUME VerificationAssumption ==
    /\ \A t, u \in Task : ChildOf[t] = ChildOf[u] /\ ChildOf[t] # NoTask => t = u
    /\ \A t, u \in Task : ChildOf[t] = u => ChildOf[u] = NoTask

VARIABLES
    task,       \* orchestrator_tasks
    job,        \* orchestrator_jobs
    reserved,   \* worker_reservations, by task
    claims,     \* workspace_claims
    proc,       \* the processes
    faults      \* how many crashes and outages there have been

vars == <<task, job, reserved, claims, ext, proc, faults>>

\* A step that reads and decides, but writes nothing.
ReadOnly == UNCHANGED <<task, job, reserved, claims, ext, faults>>

W == INSTANCE WorkspaceClaims WITH
        ScopeSet <- {ScopesOf[t] : t \in Task},
        Owner <- {"orchestrator"}, Process <- {}, Ttl <- {1}, MaxLag <- 0,
        Path <- {}, dead <- {}

Proc == Ticker \cup Operator

TERMINAL_TASK_STATES == {"DONE", "FAILED", "CANCELLED", "BLOCKED"}
SCHEDULABLE == {"QUEUED", "WAITING_CAPACITY", "RETRYABLE"}
TASK_STATES == TERMINAL_TASK_STATES \cup SCHEDULABLE \cup
    {"ROUTING", "RESERVED", "RUNNING", "AWAITING_MANUAL", "VERIFYING"}
ACTIVE_JOB_STATES == {"SUBMITTING", "SUBMITTED", "QUEUED", "RUNNING"}
JOB_STATES ==
    ACTIVE_JOB_STATES \cup {"SUCCEEDED", "FAILED", "CANCELLED", "AWAITING_MANUAL"}

\* old: updated_at (of a job heartbeat_at) lies 120 seconds back; kept where it is
\* read, for tasks in ROUTING and jobs in SUBMITTING.  unknown:
\* last_error is dispatch_outcome_unknown.  of: the job whose result the
\* specification of a verification task contains.
TaskRow ==
    [state : TASK_STATES, attempts : Nat, max : Nat, job : JobId \cup {NoJob},
     unknown : BOOLEAN, old : BOOLEAN, of : JobId \cup {NoJob}]

\* sent: external_job_id is recorded.
JobRow == [status : JOB_STATES, sent : BOOLEAN, old : BOOLEAN, worker : Worker]

\* fresh: expires_at lies ahead.
Reservation == [worker : Worker, fresh : BOOLEAN]

Known(t) == t \in DOMAIN task

StateIs(t, states) == Known(t) /\ task[t].state \in states

JobsOf(t) == {j \in DOMAIN job : j[1] = t}

ActiveJobs(t) == {j \in JobsOf(t) : job[j].status \in ACTIVE_JOB_STATES}

IsVerification(t) == \E u \in Task : ChildOf[u] = t

ParentOf(t) == CHOOSE u \in Task : ChildOf[u] = t

\* What a tick stamps a row with is the time the tick began at.  That lies 120
\* seconds back only if the tick stalls; since when it does is left open.
Stamp == {old \in BOOLEAN : old => "stall" \in Faults}

Without(f, x) == [y \in DOMAIN f \ {x} |-> f[y]]

With(f, x, v) == [y \in DOMAIN f \cup {x} |-> IF y = x THEN v ELSE f[y]]

NewTask(of) ==
    [state |-> "QUEUED", attempts |-> 0, max |-> MaxAttempts, job |-> NoJob,
     unknown |-> FALSE, old |-> FALSE, of |-> of]

-----------------------------------------------------------------------------
(***************************************************************************)
(* Processes.  pc is "idle", a phase of a tick (recover, poll, dispatch)   *)
(* with the items left in it, or a place inside the handler of task t.     *)
(***************************************************************************)
Idle == [pc |-> "idle", t |-> NoTask, j |-> NoJob, row |-> NoRow, jrow |-> NoRow,
         place |-> NoRow, answer |-> NoRow, left |-> {}, todo |-> <<>>]

At(p, pc) == proc[p].pc = pc /\ proc[p].todo = <<>>

\* p goes on at pc, with the fields in r changed.
Goto(p, pc, r) ==
    proc' = [proc EXCEPT ![p] =
        [f \in DOMAIN Idle |->
            IF f = "pc" THEN pc ELSE IF f \in DOMAIN r THEN r[f] ELSE @[f]]]

\* The handler of a task is decided: p performs the steps, then is back at pc
\* and has no task in its hands.
Decide(p, pc, steps) ==
    proc' = [proc EXCEPT ![p] = [Idle EXCEPT
        !.pc = pc, !.left = proc[p].left, !.todo = steps,
        !.t = IF steps = <<>> THEN NoTask ELSE proc[p].t]]

Exit(p) == proc' = [proc EXCEPT ![p] = Idle]

-----------------------------------------------------------------------------
(***************************************************************************)
(* The transactions a handler may still have to perform.                   *)
(***************************************************************************)
\* _set_task_state and its options: active_job_id, last_error, attempts + 1
Set(t, state) ==
    [op |-> "task", id |-> t, to |-> state, job |-> KeepJob, error |-> "keep",
     bump |-> 0]
SetError(t, state) == [Set(t, state) EXCEPT !.error = "other"]
SetDropJob(t, state) == [Set(t, state) EXCEPT !.job = NoJob]

SetJob(j, status) == [op |-> "job", id |-> j, to |-> status, sent |-> FALSE]
SetSent(j, status) == [SetJob(j, status) EXCEPT !.sent = TRUE]

Unreserve(t) == [op |-> "unreserve", id |-> t]

\* Mutant: the claim is left to its time limit.
ReleaseWorkerOnly(t, outcome) == <<Unreserve(t)>>

\* Maintainer.release and _release_claim
Release(t, outcome) ==
    <<Unreserve(t), [op |-> "unclaim", id |-> t, to |-> outcome]>>

\* Maintainer.heartbeat and _heartbeat_claim
Hold(t) == [op |-> "hold", id |-> t]
Renew(t) == <<[op |-> "renew", id |-> t], Hold(t)>>

\* Mutant: the parent is done as soon as its verification is submitted.
SuccessUnverified(t, j) ==
    <<SetJob(j, "SUCCEEDED")>> \o Release(t, "DONE") \o
    (IF ChildOf[t] # NoTask /\ ~IsVerification(t)
     THEN <<[op |-> "child", id |-> ChildOf[t], of |-> j]>> ELSE <<>>) \o
    <<SetDropJob(t, "DONE")>>

\* _finish_success: the verification is submitted, or the task is done, and
\* so is the parent of a verification.
Success(t, j) ==
    <<SetJob(j, "SUCCEEDED")>> \o Release(t, "DONE") \o
    IF ChildOf[t] # NoTask /\ ~IsVerification(t)
    THEN <<[op |-> "child", id |-> ChildOf[t], of |-> j], SetDropJob(t, "VERIFYING")>>
    ELSE <<SetDropJob(t, "DONE")>> \o
         IF IsVerification(t) THEN <<SetDropJob(ParentOf(t), "DONE")>> ELSE <<>>

\* Mutants: one attempt too many; a state that does not exist.
NextTryInclusive(attempts, max) == IF attempts <= max THEN "RETRYABLE" ELSE "FAILED"

NextTryMisnamed(attempts, max) == IF attempts < max THEN "RETRY" ELSE "FAILED"

NextTry(attempts, max) == IF attempts < max THEN "RETRYABLE" ELSE "FAILED"

\* _finish_failure; row is the task as the handler has read it
Failure(t, row, j, status) ==
    LET next == NextTry(row.attempts, row.max)
    IN  <<SetJob(j, status)>> \o Release(t, "RETRYABLE") \o
        <<[SetError(t, next) EXCEPT !.job = NoJob]>> \o
        IF next = "FAILED" /\ IsVerification(t)
        THEN <<SetError(ParentOf(t), "FAILED")>> ELSE <<>>

-----------------------------------------------------------------------------
Due(p, op) == proc[p].todo # <<>> /\ Head(proc[p].todo).op = op

Step(p) == Head(proc[p].todo)

Phases == {"idle", "recover", "poll", "dispatch"}

Pop(p) ==
    LET rest == Tail(proc[p].todo)
    IN  proc' = [proc EXCEPT ![p] = [@ EXCEPT
            !.todo = rest,
            !.t = IF rest = <<>> /\ proc[p].pc \in Phases THEN NoTask ELSE proc[p].t]]

\* An UPDATE by id, whatever the present state is.
PerformTask(p) ==
    LET e == Step(p)
    IN  /\ Due(p, "task")
        /\ task' = IF ~Known(e.id) THEN task ELSE
              [task EXCEPT ![e.id] = [@ EXCEPT
                 !.state = e.to,
                 !.old = FALSE,
                 !.attempts = task[e.id].attempts + e.bump,
                 !.job = IF e.job = KeepJob THEN task[e.id].job ELSE e.job,
                 !.unknown = IF e.error = "keep" THEN task[e.id].unknown
                             ELSE e.error = "unknown"]]
        /\ Pop(p)
        /\ UNCHANGED <<job, reserved, claims, ext, faults>>

PerformJob(p) ==
    LET e == Step(p)
    IN  /\ Due(p, "job")
        /\ job' = IF e.id \notin DOMAIN job THEN job ELSE
              [job EXCEPT ![e.id] = [@ EXCEPT
                 !.status = e.to, !.sent = job[e.id].sent \/ e.sent, !.old = FALSE]]
        /\ Pop(p)
        /\ UNCHANGED <<task, reserved, claims, ext, faults>>

PerformUnreserve(p) ==
    /\ Due(p, "unreserve")
    /\ reserved' = Without(reserved, Step(p).id)
    /\ Pop(p)
    /\ UNCHANGED <<task, job, claims, ext, faults>>

PerformUnclaim(p) ==
    LET t == Step(p).id
    IN  /\ Due(p, "unclaim")
        /\ \/ W!Release(t, Step(p).to)
           \/ /\ t \in DOMAIN claims => claims[t].state \in W!TERMINAL_STATES
              /\ UNCHANGED claims
        /\ Pop(p)
        /\ UNCHANGED <<task, job, reserved, ext, faults>>

\* An expired reservation that is still there is revived.
PerformRenew(p) ==
    LET t == Step(p).id
    IN  /\ Due(p, "renew")
        /\ reserved' = IF t \in DOMAIN reserved
                       THEN [reserved EXCEPT ![t].fresh = TRUE] ELSE reserved
        /\ Pop(p)
        /\ UNCHANGED <<task, job, claims, ext, faults>>

\* A refused heartbeat still commits the cleanup of expired claims.
PerformHold(p) ==
    LET t == Step(p).id
    IN  /\ Due(p, "hold")
        /\ \/ W!Heartbeat(t, 1, 0)
           \/ /\ t \in DOMAIN claims =>
                    W!Cleaned(0, {})[t].state \notin W!EXPIRING_STATES
              /\ W!Cleanup(0, {})
        /\ Pop(p)
        /\ UNCHANGED <<task, job, reserved, ext, faults>>

\* submit_task for the verification: a task of that name must have the same
\* specification, and this one contains the parent's result; else ValueError.
PerformChild(p) ==
    LET c == Step(p).id
    IN  /\ Due(p, "child")
        /\ \/ /\ ~Known(c)
              /\ task' = With(task, c, NewTask(Step(p).of))
              /\ Pop(p)
           \/ /\ Known(c) /\ task[c].of = Step(p).of
              /\ Pop(p)
              /\ UNCHANGED task
           \/ /\ Known(c) /\ task[c].of # Step(p).of
              /\ Exit(p)
              /\ UNCHANGED task
        /\ UNCHANGED <<job, reserved, claims, ext, faults>>

\* The transaction of retry.
PerformReopen(p) ==
    LET t == Step(p).id
    IN  /\ Due(p, "reopen")
        /\ task' = [task EXCEPT ![t] = [@ EXCEPT
              !.state = "QUEUED", !.job = NoJob, !.unknown = FALSE, !.old = FALSE,
              !.max = IF task[t].max <= task[t].attempts THEN task[t].attempts + 1
                      ELSE task[t].max]]
        /\ Pop(p)
        /\ UNCHANGED <<job, reserved, claims, ext, faults>>

Perform(p) ==
    \/ PerformTask(p) \/ PerformJob(p) \/ PerformUnreserve(p)
    \/ PerformUnclaim(p) \/ PerformRenew(p) \/ PerformHold(p)
    \/ PerformChild(p) \/ PerformReopen(p)
=================================================================================
