-------------------------------- MODULE Dispatch --------------------------------
(***************************************************************************)
(* The last phase of a tick: dispatch_one for every candidate.  The limit  *)
(* of dispatches per tick and the window of the oldest candidates are left *)
(* out: the instances have fewer tasks than either.                        *)
(***************************************************************************)
EXTENDS TaskLedger

BeginDispatch(p) ==
    /\ At(p, "dispatch")
    /\ \E t \in proc[p].left :
          LET rest == proc[p].left \ {t}
          IN  IF task[t].state \in SCHEDULABLE
              THEN Goto(p, "depend", [left |-> rest, t |-> t, row |-> task[t]])
              ELSE Goto(p, "dispatch", [left |-> rest])
    /\ ReadOnly

EndTick(p) ==
    /\ At(p, "dispatch")
    /\ proc[p].left = {}
    /\ Exit(p)
    /\ ReadOnly

\* _dependencies_ready: the first dependency that is not DONE decides.
Failed(d) == ~Known(d) \/ StateIs(d, {"FAILED", "CANCELLED", "BLOCKED"})

\* Mutant: a dependency is over once its own phase is.
ReadyWhenVerifying(d) == StateIs(d, {"DONE", "VERIFYING"})

Ready(d) == StateIs(d, {"DONE"})

CheckDependencies(p) ==
    LET t == proc[p].t
    IN  /\ At(p, "depend")
        /\ \/ /\ \A d \in DependsOn[t] : Ready(d)
              /\ Goto(p, "acquire", [t |-> t])
           \/ \E d \in DependsOn[t] :
                 /\ ~Ready(d)
                 /\ Decide(p, "dispatch",
                           IF Failed(d) THEN <<SetError(t, "BLOCKED")>> ELSE <<>>)
        /\ ReadOnly

\* uuid4().hex
FreshJob(t) == <<t, Cardinality(JobsOf(t)) + 1>>

MayAcquire(t) == task[t].state \in SCHEDULABLE

\* _acquire_dispatch_lease.  Bound: a task gets at most MaxJobs jobs.
AcquireDispatchLease(p) ==
    LET t == proc[p].t
        acquired == MayAcquire(t) /\ FreshJob(t) \in JobId
    IN  /\ At(p, "acquire")
        /\ \/ /\ acquired
              /\ \E old \in Stamp : task' = [task EXCEPT ![t] = [@ EXCEPT
                    !.state = "ROUTING", !.old = old, !.unknown = FALSE]]
              /\ Goto(p, "route", [t |-> t])
           \/ ~acquired /\ Decide(p, "dispatch", <<>>) /\ UNCHANGED task
        /\ UNCHANGED <<job, reserved, claims, ext, faults>>

(***************************************************************************)
(* Maintainer.route_and_reserve: expired reservations go, then the task's  *)
(* own reservation is reused, or a worker with room is reserved (which of  *)
(* them is left open), or there is none.                                   *)
(***************************************************************************)
Unexpired == {u \in DOMAIN reserved : reserved[u].fresh}

HasRoom(w) == Cardinality({u \in Unexpired : reserved[u].worker = w}) < Concurrency[w]

RouteAndReserve(p) ==
    LET t == proc[p].t
        kept == [u \in Unexpired |-> reserved[u]]
    IN  /\ At(p, "route")
        /\ \/ /\ t \in Unexpired
              /\ reserved' = kept
              /\ Goto(p, "claim",
                      [place |-> [worker |-> reserved[t].worker, reused |-> TRUE]])
           \/ /\ t \notin Unexpired
              /\ \E w \in Fits[t] :
                    /\ HasRoom(w)
                    /\ reserved' = With(kept, t, [worker |-> w, fresh |-> TRUE])
                    /\ Goto(p, "claim", [place |-> [worker |-> w, reused |-> FALSE]])
           \/ /\ t \notin Unexpired
              /\ \A w \in Fits[t] : ~HasRoom(w)
              /\ reserved' = kept
              /\ Decide(p, "dispatch", <<SetError(t, "WAITING_CAPACITY")>>)
        /\ UNCHANGED <<task, job, claims, ext, faults>>

\* _claim; a task without path scopes needs no claim.
Request(t, w) ==
    [base |-> BaseOf[t], scopes |-> ScopesOf[t], owner |-> "orchestrator",
     worker |-> w, pid |-> NoProcess, ttl |-> 1, queue |-> TRUE]

\* Mutant: the claim is skipped.
NeedsNoClaim(t) == FALSE

NeedsClaim(t) == ScopesOf[t] # {}

ClaimWorkspace(p) ==
    LET t == proc[p].t
        req == Request(t, proc[p].place.worker)
    IN  /\ At(p, "claim")
        /\ \/ /\ ~NeedsClaim(t)
              /\ Goto(p, "insert", [t |-> t])
              /\ UNCHANGED claims
           \/ /\ NeedsClaim(t)
              /\ W!ClaimGranted(t, req, 0) \/ W!ClaimRenewed(t, req, 0)
              /\ Goto(p, "insert", [t |-> t])
           \/ /\ NeedsClaim(t)
              /\ W!ClaimRefused(t, req, 0) \/ W!ClaimQueued(t, req, 0)
              /\ Decide(p, "dispatch", <<Unreserve(t), SetError(t, "QUEUED")>>)
        /\ UNCHANGED <<task, job, reserved, ext, faults>>

\* _prepare_workspace raises: no isolated worktree can be made.
WorkspaceFails(p) ==
    LET t == proc[p].t
    IN  /\ At(p, "insert")
        /\ "adapter" \in Faults
        /\ NeedsClaim(t)
        /\ Kind[proc[p].place.worker] = "local"
        /\ Decide(p, "dispatch", Release(t, "BLOCKED") \o <<SetError(t, "BLOCKED")>>)
        /\ ReadOnly

\* A reused reservation comes without "reservation_id": KeyError, and the
\* process ends.
ReservationReused(p) ==
    /\ At(p, "insert")
    /\ proc[p].place.reused
    /\ Exit(p)
    /\ ReadOnly

Attempt(t, j, state) == [Set(t, state) EXCEPT !.job = j, !.bump = 1]

NewJob(w, status) == [status |-> status, sent |-> FALSE, old |-> FALSE, worker |-> w]

\* No adapter is configured for the worker: the claim is kept.
InsertManualJob(p) ==
    LET t == proc[p].t
        j == FreshJob(t)
        w == proc[p].place.worker
    IN  /\ At(p, "insert")
        /\ Kind[w] = "none" /\ ~proc[p].place.reused /\ j \in JobId
        /\ job' = With(job, j, NewJob(w, "AWAITING_MANUAL"))
        /\ Decide(p, "dispatch", <<Unreserve(t), Attempt(t, j, "AWAITING_MANUAL")>>)
        /\ UNCHANGED <<task, reserved, claims, ext, faults>>

\* The attempt and its dispatch key are durable before the adapter is called.
InsertJob(p) ==
    LET t == proc[p].t
        j == FreshJob(t)
        w == proc[p].place.worker
    IN  /\ At(p, "insert")
        /\ Kind[w] # "none" /\ ~proc[p].place.reused /\ j \in JobId
        /\ \E old \in Stamp :
              job' = With(job, j, [NewJob(w, "SUBMITTING") EXCEPT !.old = old])
        /\ Goto(p, "submit", [j |-> j, todo |-> <<Attempt(t, j, "RESERVED")>>])
        /\ UNCHANGED <<task, reserved, claims, ext, faults>>

-----------------------------------------------------------------------------
(***************************************************************************)
(* adapter.submit, from the caller's side.                                 *)
(***************************************************************************)
\* It raises before the runner is started, or because its pid cannot be written.
SubmitFails(p) ==
    LET t == proc[p].t
        next == NextTry(proc[p].row.attempts + 1, proc[p].row.max)
    IN  /\ \E pc \in {"submit", "spawn", "register"} : At(p, pc)
        /\ "adapter" \in Faults
        /\ Decide(p, "dispatch", <<SetJob(proc[p].j, "FAILED")>> \o Release(t, "RETRYABLE") \o
                  <<[SetError(t, next) EXCEPT !.job = NoJob]>>)
        /\ ReadOnly

\* The adapter has answered: the answer is recorded, then acted on.
Returned(p, status) ==
    Goto(p, "settle", [answer |-> status, todo |-> <<SetSent(proc[p].j, status)>>])

SubmitTo(p, kind) == At(p, "submit") /\ Kind[proc[p].place.worker] = kind

\* persistent_local.submit: the job directory, the runner, then meta.json
MakeJobDirectory(p) ==
    /\ SubmitTo(p, "local")
    /\ Create(proc[p].j, FALSE, FALSE, "NONE")
    /\ Goto(p, "spawn", [t |-> proc[p].t])
    /\ UNCHANGED <<task, job, reserved, claims, faults>>

SpawnRunner(p) ==
    /\ At(p, "spawn")
    /\ Spawn(proc[p].j)
    /\ Goto(p, "register", [t |-> proc[p].t])
    /\ UNCHANGED <<task, job, reserved, claims, faults>>

RegisterRunner(p) ==
    /\ At(p, "register")
    /\ Register(proc[p].j)
    /\ Returned(p, "RUNNING")
    /\ UNCHANGED <<task, job, reserved, claims, faults>>

SubmitManual(p) ==
    /\ SubmitTo(p, "manual")
    /\ Returned(p, "AWAITING_MANUAL")
    /\ ReadOnly

\* The remote provider starts the job, may even have ended it when it answers,
\* or does not take it.  An error of the request looks like the latter.
SubmitRemote(p) ==
    LET j == proc[p].j
    IN  /\ SubmitTo(p, "remote")
        /\ \/ Create(j, TRUE, TRUE, "NONE")
           \/ \E r \in {"SUCCEEDED", "FAILED"} : Create(j, FALSE, TRUE, r)
           \/ ~Exists(j) /\ UNCHANGED ext
        /\ Goto(p, "answer", [t |-> proc[p].t])
        /\ UNCHANGED <<task, job, reserved, claims, faults>>

RemoteAnswers(p) ==
    LET j == proc[p].j
    IN  /\ At(p, "answer")
        /\ \/ Exists(j) /\ Returned(p, IF ext[j].result = "NONE" THEN "RUNNING"
                                       ELSE ext[j].result)
           \/ /\ Exists(j) => "adapter" \in Faults
              /\ Returned(p, "AWAITING_MANUAL")
        /\ ReadOnly

\* The task's row is read again before a finished execution is settled.
SettleAnswer(p) ==
    LET t == proc[p].t
        j == proc[p].j
        status == proc[p].answer
    IN  /\ At(p, "settle")
        /\ \/ /\ status = "AWAITING_MANUAL"
              /\ Decide(p, "dispatch",
                        Release(t, "RETRYABLE") \o <<Set(t, "AWAITING_MANUAL")>>)
           \/ status = "RUNNING" /\ Decide(p, "dispatch", <<Set(t, "RUNNING")>>)
           \/ status = "SUCCEEDED" /\ Decide(p, "dispatch", Success(t, j))
           \/ /\ status = "SUCCEEDED" /\ "adapter" \in Faults
              /\ Decide(p, "dispatch", <<SetJob(j, "RUNNING")>> \o Renew(t) \o
                        <<SetError(t, "RUNNING")>>)
           \/ /\ status \in {"FAILED", "CANCELLED"}
              /\ Decide(p, "dispatch", Failure(t, task[t], j, status))
        /\ ReadOnly

DispatchStep(p) ==
    \/ BeginDispatch(p) \/ EndTick(p) \/ CheckDependencies(p)
    \/ AcquireDispatchLease(p) \/ RouteAndReserve(p) \/ ClaimWorkspace(p)
    \/ WorkspaceFails(p) \/ ReservationReused(p) \/ InsertManualJob(p)
    \/ InsertJob(p) \/ SubmitFails(p) \/ MakeJobDirectory(p) \/ SpawnRunner(p)
    \/ RegisterRunner(p) \/ SubmitManual(p) \/ SubmitRemote(p)
    \/ RemoteAnswers(p) \/ SettleAnswer(p)
=================================================================================
