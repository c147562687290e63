# Resource Sentinel in TLA+

This directory holds the formal model of Resource Sentinel: TLA+ modules
translated from the source, TLC configurations that check them on small
instances, and proofs that TLAPS checks for every value of the constants.

    tlc -config WorkspaceClaims_table.cfg MCWorkspaceClaims
    tlc -config Orchestrator_serial.cfg   MCOrchestrator
    tlc -config Sessions_pull.cfg         MCSessions
    tlc -config Maintainer_capacity.cfg   MCMaintainer
    tlc -config LocalJob_files.cfg        LocalJob
    tlc -config Admission_slots.cfg       MCAdmission
    tlapm WorkspaceClaimsProofs.tla

and `tlapm` likewise for `OrchestratorTypes`, `OrchestratorProofs`,
`OneTickProofs`, `SessionsProofs`, `MaintainerProofs`, `LocalJobProofs` and
`AdmissionProofs`.

## 1. The system

Resource Sentinel keeps a workstation usable while several coding agents run
heavy commands on it, and hands tasks to workers. There is no daemon. All parts
are short processes over one SQLite database, `sentinel.db`, and every block
`BEGIN IMMEDIATE ... COMMIT` is one atomic step. Whatever a process has read
before such a block may be out of date inside it.

| Part | Source | State | Operations |
| --- | --- | --- | --- |
| Workspace claims | `sentinel/workspace.py` | table `workspace_claims`: one row per task with commit, scopes, owner, state, expiry | claim, transition, heartbeat, release, cleanup, snapshot |
| Task orchestrator | `sentinel/orchestrator.py` | tables `orchestrator_tasks`, `orchestrator_jobs` | submit, tick (recover routing, reconcile sessions, reconcile jobs, dispatch), retry, resolve-dispatch, cancel, complete-manual |
| Session registry | `sentinel/orchestrator.py` | table of agent sessions | register, heartbeat, pull, complete, close, reconcile_sessions |
| Maintainer | `sentinel/maintainer.py` | tables `workers`, `worker_reservations` | upsert, state updates, route_and_reserve, release, heartbeat, cleanup |
| Execution adapters | `sentinel/adapters/` | job directories with `meta.json` and `result.json`; a provider's jobs | submit, status, cancel, collect_result |
| Admission coordinator | `sentinel/coordinator.py` | queue and reservations of heavy commands | admit, retry_queued, release, cancel_queued, cleanup |
| Exemptions | `sentinel/exemptions.py`, `scripts/exemption-policy.ps1` | grants with an end | grant, revoke, match |
| Hooks | `hooks/` | block counter of the stop hook | gate, stop, inject |
| Collector | `scripts/collect*.ps1` | `status.json`, the light and its streaks | one run a minute: measure, judge, demote, clean up, tick |
| Watchdog, guard | `scripts/watchdog.ps1`, `scripts/rsguard/` | cool-down, failure count | restart of the collector |
| Command lines | `scripts/*ctl.py`, `wait-slot.ps1`, `invoke-sentinel.ps1` | none | one call each |

How they interact. The collector runs `orchestratorctl.py tick` once a minute
(`scripts/collect.ps1:972`) under its own mutex. The same command can be given
by hand (`README.md:174`), so two ticks can overlap. A tick calls the
maintainer (a worker), the claims (paths) and an adapter (execution), one
transaction or call after the other, and an operator's command may run between
any two of them. Agents submit tasks. An adapter's execution outlives the tick
that started it, and later ticks poll it.

What is hard in it:

- *Handlers are chains of transactions.* Finishing a job is up to six of them.
  A crash, another tick or a command can come between any two.
- *Stale reads.* `reconcile` reads all active jobs once. `dispatch_one` keeps
  the task row it began with. `retry` and `cancel` decide on a row they read
  before.
- *The boundary to the outside.* A submission is not atomic with the record of
  it. Results may be lost, late, or wrong.
- *Leases.* Reservations and claims expire, and callers read the clock before
  they wait for the database lock.

What makes each part correct:

- Claims: no two leases overlap; no lease is taken early; a dead owner's lease
  ends; a row keeps its identity.
- Orchestrator: one execution of a task at a time; overlapping paths only one
  after the other; no more attempts than allowed; `DONE` only after
  verification; dependencies first; nothing held by what is over; nothing lost.
- Maintainer: what is reserved stays within every pool's, account's and the
  local machine's limit, whatever is registered anew, renewed or expires; a
  reservation that nobody renews ends.
- Adapters: a dispatch key has one execution; a job gets one result, and no
  caller takes a running job for a lost one.
- Coordinator: admission in order, within capacity, never on a stale or red
  light; a request is queued or reserved, never both; no more heavy commands
  *run* than there are slots; no slot is lost to a run that never came.
- Sessions: at most `max_inflight` tasks at once; two sessions never work on the
  same paths; a lost session's tasks come back; what is over holds nothing.
- Collector and watchdog: the light changes only after its streak; a restart
  eventually happens and is not repeated within the cool-down.

`PROJECT.json` lists the hazards with their lines and the property for each.

## 2. Modules

| Module | What it is |
| --- | --- |
| `PathScopes` | path scopes, containment and overlap |
| `PathLease` | what the claims promise, without rows and clocks |
| `WorkspaceClaims` | the table and its operations; refines `PathLease` |
| `WorkspaceClaimsProofs` | the theorems about it |
| `ExecutionAdapter` | executions in the outside world, as adapters see them |
| `TaskLedger` | tasks, jobs, reservations, claims, processes, and the transactions a handler ends with |
| `Reconcile` | first phases of a tick: stale routing, polling |
| `Dispatch` | last phase of a tick: dependencies to submission |
| `OperatorCommands` | retry, resolve-dispatch, cancel, complete-manual |
| `Orchestrator` | all of these together with agents, time and crashes; the properties |
| `OrchestratorTypes` | its type correctness |
| `OrchestratorProofs` | what precedes what: the theorems about it that need no condition on processes |
| `OneTickProofs` | the theorems about it for one tick at a time |
| `Sessions` | agent sessions and the tasks they pull, with `WorkspaceClaims` for the paths |
| `SessionsProofs` | the theorems about it |
| `Maintainer` | the worker registry, selection and capacity accounting |
| `MaintainerProofs` | the theorems about it |
| `LocalJob` | one job of the persistent local adapter: its files, callers and runner |
| `ExecutionContract` | what `ExecutionAdapter` promises, as a specification; `LocalJob` refines it |
| `LocalJobProofs` | the theorems about `LocalJob` |
| `Admission` | heavy commands: queue and reservations with hooks, waiters and wrappers; the properties |
| `AdmissionProofs` | the theorems about it |
| `MCWorkspaceClaims`, `MCOrchestrator`, `MCSessions`, `MCMaintainer`, `MCAdmission` | instances for TLC |

### 2.1 WorkspaceClaims

One action per operation, since each is one transaction. `claims` is the table
by task id, `dead` the processes that are gone. The sweep `_cleanup_locked` is
the operator `Cleaned`, applied first in every operation that calls it.

Time: a row stores `expires_at`. The model stores `left`, the distance to it,
and `Tick` counts it down. A call's `now` may be up to `MaxLag` old when it gets
the lock, so an operation chooses a `lag`, and all comparisons inside it use
that one value, as the code does. A refused call commits its sweep; `Cleanup`
covers refused calls of `transition` and `heartbeat`.

`PathLease` knows areas and tasks only. The mapping sends a row in a lease state
to its area and a `DONE` row to `finished`. That `DONE` is final, that a grant
is disjoint from everything still held, and that a transaction gives out at most
one area is what the refinement says.

### 2.2 Orchestrator

`proc` holds the processes. A process has a place `pc` in its handler, what it
has read (`row`, `jrow`, `left`, `place`, `answer`) and `todo`, the transactions
still to come once the handler's outcome is decided. Each transaction is one
step, and other processes may run before it. `Crash` sets a process back to
`Idle` and so forgets `todo`: durable are only the tables and the executions.

| Code | Model |
| --- | --- |
| `tick` | `StartTick`, `RecoverRouting`, `ListJobs`, `PollJob`, the `Poll...` and `Inquire...` actions, `ListCandidates`, then `BeginDispatch` ... `SettleAnswer`, `EndTick` |
| `_finish_success`, `_finish_failure` | `Success`, `Failure`: sequences of transactions for `todo` |
| `_set_task_state` | `PerformTask`, an unconditional UPDATE by id |
| `_acquire_dispatch_lease` | `AcquireDispatchLease` |
| `route_and_reserve` | `RouteAndReserve`; which worker with room is left open |
| `_claim`, `_release_claim`, `_heartbeat_claim` | the actions of `WorkspaceClaims`, by INSTANCE on the same table |
| `persistent_local.submit` | `MakeJobDirectory`, `SpawnRunner`, `RegisterRunner` |
| `http.submit` | `SubmitRemote`, `RemoteAnswers` |

`Faults` names what may go wrong in an instance: `crash` (a process dies between
two steps), `vanish` (an execution ends without a result), `stall` (a live tick
lasts two minutes, or takes two seconds to name the runner it has started),
`outage` (every lease expires), `adapter` (calls of an adapter raise or
misreport), `nometer` (psutil is missing or begins to fail, and a runner that was
named may no longer be found: `ExecutionForgotten`). Ages are abstracted to one
bit per row: 120 seconds old or not. A tick reads its clock once, at its
beginning (`orchestrator.py:1441`), and stamps leases and jobs with that time
(999, 832-835, 1083-1084), so that with `stall` a row may be old at the moment it
is written (`Stamp`), and without it no row is old while the tick that wrote it is
still dispatching its task (`Ages`). The code compares a stamp with the beginning
of the tick that looks, the model with the present, so that more rows are old.

Left out: the candidate window and dispatch limit (more tasks than an instance
has), SESSION tasks (see `Sessions`), the polled state `AWAITING_MANUAL` and unknown provider
states, contents of results, messages and the event log. An operator who
resolves a dispatch tells the truth. A verification has the name its parent gives
it by default (`orchestrator.py:1196`), so that no two parents share one and no
agent submits one by itself (`VerificationAssumption`, `SubmitTask`). A command that `cancel` reaches is dead
afterwards. A resource fit is a set of workers per task plus a number of slots;
the arithmetic behind it is `Maintainer`. `Dispatch` treats an execution as
`ExecutionAdapter` does, one step for what the adapter does in many; `LocalJob`
has the many.

### 2.3 Admission

A *use* is one tool call, or one run of the wrapper `invoke-sentinel.ps1`. Its
`tool_use_id` determines its `request_key`, so that the use stands for both.
`reservations` and `queue` are the two tables by key. Of the columns the model
keeps what decides: `use` (the tool_use_id a reservation names; `NoUse` is the
empty one), `expired`, whether it was granted by exemption; for a queue row
`ahead`, the rows queued earlier and still there (ORDER BY queued_at), and
`idle`, its heartbeat older than the limit. Reservations are numbered in the
order of `created_at` by `grants`, and the number is also the row's id.

| Code | Model |
| --- | --- |
| `_cleanup_locked` | `Kept`, `KeptQueue`: applied first by everything `admit` does, and by `Cleanup` |
| `admit` | `Renew`, `TakeOver`, `Grant`, `Refuse`: one outcome each, one transaction |
| gate before and after a tool call | `Gate`, `Release` (by owner and tool_use_id) |
| `sentinelctl wait` and the wrapper | `WrapperPolls`, `WrapperRuns`, `WrapperGivesUp`, `Release` |
| `sentinelctl wait-existing` | `WaiterStarts`, `WaiterReads`, `WaiterRefused` or `WaiterAllowed`, `WaiterResets`, `WaiterGivesUp` |
| stop hook | `StopCancels`, after its third reminder |
| time | `Expire`, `GoIdle` |

`retry_queued` is three transactions: it reads the queue row, admits with what
it has read, and empties the tool_use_id of the reservation it got. Anything
may come between them. That is the heart of the component: a reservation is
handed from a blocked call to a waiter, freed, and taken over by the rerun,
which is another call with another key.

Load, light, CPU, RAM and age of `status.json` are one open choice: a request
that is first and for which there is a slot may still be refused. Only the I/O
slots are counted, because only they depend on the tables alone. `Faults` names
what may go wrong: `abandon` (a process ends without its release, a waiter is
killed), `die` (an agent ends, and what it started ends with it), `overstay` (a
command outlives `reservation_ttl_min`), `exempt` (exemptions come and go),
`stop` (the stop hook gives up on a request), `share` (a waiter polls for a key
that someone polls for already). `excused` are running uses that the code itself
leaves out of the count: exempt ones, and those whose reservation has expired
under them.

Left out: calls without a tool_use_id (their keys are shared, and they are
released by command), the wrapper's fallback to a dedicated process, requests
for one key with two specifications (`request_spec_mismatch`), a gate that
fails on a locked database (the call then runs without a reservation), a psutil
that fails, on which `_pid_alive` sweeps the rows of owners that live
(`coordinator.py:148-155`), samples, the JSON mirror.

### 2.4 Sessions

Every command of an agent, and every tick, is a process and a chain of
transactions. What a call has read (candidates, a count, rows of lost
assignments) stays in `proc[p]` while others run; writes that are decided and not
yet made wait in `proc[p].todo`. A session may have several processes at once
(`AgentOf`), because nothing keeps an agent from calling twice.

| Code | Model |
| --- | --- |
| `register_session`, `discover_session` | `RegisterSession`, `DiscoverSession`: one transaction each |
| `heartbeat_session` | `Pulse`, `ListRenewals`, then `Each`: renew reservation and claim of every task |
| `session_pull` | `BeginPull`, `CountAssigned`, `ListCandidates`, and for each candidate `CheckDependencies`, `AcquireDispatchLease`, `RouteAndReserve`, `ClaimWorkspace`, `WorkspaceFails`, `AssignTask` or `LoseAssignment` |
| `session_complete` | `BeginComplete`, `RecordCompletion`, two releases |
| `close_session` | `CloseSession`, then two releases for every task it had |
| `reconcile_stale_routing`, `reconcile_sessions` | `StartTick` ... `EndTick` |

The states IDLE, BUSY, ONLINE and STALE are one, `OPEN`: nothing tells them apart.
`fresh` stands for `heartbeat_at` and `expires_at`. The claims are
`WorkspaceClaims` by INSTANCE, with the session as owner. `gone` are sessions
whose agent was killed with all its processes; its row stays until `Lapse`.
`MaxAssigned` bounds the assignments of a task.

`Faults`: `late` (a live agent misses its heartbeat), `stall` (a live call or
tick lasts two minutes; rows are stamped with its beginning, as in 2.2), `crash`,
`outage` (two hours without a heartbeat), `worktree` (no isolated worktree can be made), `early` (a task is
submitted before one it depends on).

Left out: priorities (candidates come in any order), agent kinds and repositories
(`Takes` says which session may take which task), a bound worker that disappears
from the registry (no operation deletes one), WORKER tasks on the same workers,
an operator's commands on SESSION tasks, `current_task_id`.

### 2.5 Maintainer

Each operation is one transaction and one action on `workers` and
`reservations`. A registration replaces the whole row (`UpsertWorker`, of which
`import` and `sync-local` are cases), so that what a worker offers may change
while its capacity is reserved; `Configs` says which rows a worker may get. The
bounds of the pool properties are the largest that `Configs` has for a worker of
the pool, which is somewhat looser than the largest ever registered.
Amounts are natural numbers, and a sum over rows is the number of units held
(`Units`), which keeps the module free of recursion. `direct` are the coordinator's
reservations in the same database, which count against the local machine.

`spec` stands for `spec_hash`: the whole placement, as the code hashes the whole
task. Probe freshness and the worker's state are one bit, since `_fits` only asks
for both. Which of several equally good workers is taken is left open (the code
takes the smallest id).

`Dispatch` and `Sessions` do not use this module: they need which task has a
reservation, not the arithmetic.

### 2.6 LocalJob

One dispatch key: its directory, the processes that call the adapter about it,
and the detached runner. They share nothing but files, and every access to a file
and every signal to a process is a step. `dir` holds what decides: `exists`
(mkdir), `named` (meta.json with a start time), `runtime` (runtime.json), `grace`
(missing-result.json), `cancel` (cancel.requested), `result`. `psutil` says whether
it works or has begun to fail (`PsutilFails`, at any moment). From then on (`Blind`)
every call of `process_started_at` and `pid_alive` may miss a process that lives,
or find it: a runner is not named, a named one is not seen by `status`
(`TestRunner`), and `terminate_tree` kills nothing (`KillCommand`, `KillRunner`,
`SendFails`).

| Code | Model |
| --- | --- |
| `submit` | `BeginSubmit`, `Popen`, `Send` or `SendFails`, `Name`; or a `status` if the directory is there |
| `status` | `Inspect`, `ReadResult`, `TestRunner`, `ReadGrace`, `WriteLost` |
| `cancel` | a `status`, then `Touch`, `ReadPids`, `KillCommand`, `KillRunner`, `WriteCancelled` |
| `local_runner.run` | `SpawnCommand`, `Publish`, `CommandEnds`, `Judge`, `WriteResult`; `Break`, `WriteError` |

`ExecutionContract` is the specification that `LocalJob` implements
(`ImplementsAdapter`): the operations of `ExecutionAdapter`, from which the
orchestrator's modules are built, and one more, `Overtaken`, for what overlapping
calls can do to a result. So the orchestrator's model may treat the adapter's
calls as single steps, as far as they do not overlap `Overtaken`. The mapping
sends a runner or a command that is running to `alive`, `named` to `known` as long
as psutil works, and the result LOST to FAILED, which is what the orchestrator gets
to see. That psutil begins to fail is the abstract `Forget`: of an execution that
is not known the contract allows that it is declared lost while it runs, or
cancelled without being killed.

`Faults`: `crash` (a caller dies between two steps), `reboot`, `error` (the runner
fails, or the pipe to it), `nometer` (psutil is missing or begins to fail), `early`
(calls about a job whose `submit` is still under way), `stall` (a call lasts
longer than the two seconds of grace). Termination is that of Windows
(`taskkill /T /F`, which returns when the tree is dead): the agents' machine is
one.

Left out: output and metrics of a job, contents of the request, a runner that is
killed alone (its command is then an orphan, which `status` does not look for,
`persistent_local.py:238`), files that cannot be read for a moment.

## 3. Runs

Runs that pass:

| Run | Question | Bounds |
| --- | --- | --- |
| `claims` | Do leases exclude each other whatever the callers' clocks say, for prefixes and upper case; is one ever taken early; does a dead owner's lease end without any sweep; is `PathLease` implemented? | 2 tasks, 2 overlapping scope sets, 1 mortal owner process, time limit 1, lag up to 1 |
| `serial` | Exclusion, accounting, release, and does every task settle? | 1 ticker, 2 tasks and a verification, 2 workers, 2 attempts; `vanish`, `stall` |
| `ticks` | One execution at a time under overlapping ticks that last less than two minutes; dependencies and their verification first | 2 tickers, 3 tasks, max_attempts 1, two jobs for the task depended on; no faults |
| `crash` | One execution at a time through crashes; does routing end? | 1 ticker, operator resolving and cancelling, remote worker, 2 crashes or outages, 3 jobs |
| `commands` | Attempts within the maximum; `DONE` only after verification | 1 ticker, operator retrying and completing by hand; local, remote, manual and unconfigured workers; `stall`, `adapter`, `nometer`, 1 outage |
| `admission_slots` | Is no slot given twice, does every command run on a reservation of its own, do no more heavy commands run than slots, does a waiting wrapper get its turn? | 1 slot; 2 calls of one command by one agent, 1 wrapper of another agent behind them; 1 waiter, killed at most once; all faults but `share` |
| `sessions_pull` | Never more than `max_inflight` tasks at once, nothing held by what is over, what is over stays over | 1 session with 2 commands at a time, max_inflight 1, 2 tasks of which one writes, 2 attempts; missed heartbeats, closing, ticks |
| `sessions_pair` | Do two sessions ever work on the same files, and does who works on a task own its claim? | 2 sessions, 2 tasks that write the same files of one commit, heartbeats, closing, ticks; no faults |
| `sessions_live` | Is a dead agent's task taken from it, and does routing end? | 1 session whose agent may be killed, 2 tasks, one after the other, 1 slot; all six faults, 1 crash or outage |
| `maintainer` | Are pools, accounts, job limits and the local machine's memory ever promised twice, and does a reservation nobody renews end? | 4 workers in 3 pools and 3 quota domains, 3 tasks with 2, 2 and 1 placements, 2 local commands; registration with two amounts of free memory |
| `local_job` | One runner per dispatch key, a result in the end, every call a step of the abstract adapter? | 2 callers, 2 faults out of `crash`, `reboot`, `error`; psutil begins to fail at any time |

Why the bounds are enough to be interesting. Two tasks compete for one set of
paths and for one slot. Two attempts let a retry meet what the first left
behind. Two tickers give every pair of steps in both orders. Time limit 1 with
lag 1 puts a call before, at and after expiry; `WorkspaceClaims_paths.cfg` and
`WorkspaceClaims_owners.cfg` are wider instances of `claims` (three tasks, four
scope sets with the whole repository among them; two owners, and `IdentityFixed`)
that take longer and show nothing else. `MaxJobs` and `JobId` limit jobs per task
and stop dispatches beyond them; `MaxCrashes` limits crashes and outages. In
`ticks` the tasks have max_attempts 1 and the ticks last less than two minutes,
because with a second attempt or a longer tick `OneLiveExecution` does not hold, as
`Orchestrator_second_attempt.cfg` and `Orchestrator_slow_tick.cfg` show. The
dependency still has a second job, so that a double dispatch would show. For `admission_slots`, a
blocked call, its waiter and its rerun are two uses and a waiter; the wrapper of
another agent competes for the slot and, being of lower priority, waits behind
everything the first agent leaves in the queue. `MaxGrants` does not bind: with 4
TLC reaches the same states. In `sessions_pull` the limit and the number of
overlapping calls are 1 and 2, so that the count a call has read is stale when the
other assigns. In `maintainer` two workers share a pool with one job at a time, a
third shares the account of one of them with other limits, and the laptop's free
memory can fall below what it has promised. Two callers of `local_job` overlap in
every pair of steps; that more of them do no harm is proved (section 4).

A crash is kept out of `serial`, an operator's cancel and a persistent local
worker out of the wrong company in the others, faults out of `sessions_pair`, a
killed agent out of `sessions_pull`, overlapping submissions out of `local_job`,
all for the same reason: each statement below is about a neighbour of a passing
run, with one ingredient more.

The run that finds a violation checks one statement of the code's own documents,
quoted in `PROJECT.json`:

| Run | What the code does |
| --- | --- |
| `sessions_requeue` | a task that is requeued keeps a claim in the name of the session that lost it, and `claim` refuses every other session for ever (`TakenUp`); for tasks without paths (`MCNoneWrites`) the property holds |

Others of this kind, with their configurations at hand:

| Configuration | Property | What the code does | What it says |
| --- | --- | --- | --- |
| `Orchestrator_crashed_finish.cfg` | `Settles` | a crash between the commits of job and task leaves the task RUNNING for ever (`orchestrator.py:1191`) | "can crash or the machine can reboot; SQLite remains authoritative and the next tick resumes polling, routing, reservations, claims, and result collection" (`orchestrator.py:4`) |
| `Orchestrator_second_attempt.cfg` | `OneLiveExecution` | a tick with an old list of jobs undoes a newer attempt: two executions (`orchestrator.py:1349`) | "CAS a schedulable task into ROUTING so only one tick may dispatch it." (`orchestrator.py:829`) |
| `Orchestrator_slow_tick.cfg` | `OneLiveExecution` | a lease is stamped with the beginning of the tick (`orchestrator.py:1441`, `999`, `832`), so that after slow polls it is stale when it is taken; an overlapping tick recovers the task (`1266`) and dispatches it, and both submit | the same |
| `Orchestrator_crashed_submit.cfg` | `OneLiveExecution` | a crash before `meta.json` names the runner: declared lost while running, executed again (`persistent_local.py:204`) | "A crash can therefore be reconciled without silently creating another attempt with the same task id." (`orchestrator.py:1072`) |
| `Orchestrator_cancel.cfg` | `ScopeExclusion` | cancelling a dispatch under way frees the paths while its execution starts (`orchestrator.py:1639`) | the claim must be had before dispatch, so that two agents do not change the same paths (`docs/architecture.md:56`) |
| `Admission_shared_slot.cfg` | `HeavyRunsBounded` | a waiter frees the reservation a wrapper's command is running on, and the next identical call takes it over: two heavy commands on one slot (`coordinator.py:517`) | a reservation per tool call; parallel heavy commands of a session no longer share or wrongly release a slot (`CHANGELOG.md:70`) |
| `LocalJob_lost.cfg` | `ResultKept` | a poll that found neither result nor runner declares the job lost over the result written since, because `missing-result.json` is never removed: a look during the submission has begun the grace period | "Require two observations separated by a grace interval before declaring LOST." (`persistent_local.py:241`) |

More can be reproduced with small changes of these instances.

Orchestrator:

- One local worker, task and verification, one attempt, an operator who only
  retries, no faults, `FairSpec` and `Settles`: a task whose claim has ended DONE
  or FAILED can be reopened by `retry`; its claim is then refused as final at
  every tick and the task goes back to QUEUED for ever (`orchestrator.py:1549`).
- The same without the verification, two attempts, and the action property "DONE
  stays DONE": `retry` decides on a state it has read before its transaction and
  reopens a task that a tick has finished in between (`orchestrator.py:1545`).
- In `Orchestrator_crashed_finish.cfg` with two tickers and no crash, the
  dispatcher's late RUNNING (`orchestrator.py:1169`) overwrites the end that the
  other tick has recorded.
- With a task that has no path scopes, the retry of a task that was
  verified before ends in the `ValueError` of `submit_task`
  (`orchestrator.py:391`), after its job has been committed as SUCCEEDED.
- In `crash` with cancel, a task that was BLOCKED for an unknown submission and
  then cancelled keeps `last_error`: `retry` refuses it for that, and
  `resolve_dispatch` because it is not BLOCKED.

Sessions (definitions of `Sessions` that no listed run checks, or listed ones on
other instances):

- `AssignedReserved` with two sessions, one task without paths (`MCNoneWrites`) and
  no faults: the late releases of one session's `complete` take the reservation
  that another session's pull of the same task has meanwhile got. `AssignedClaimed` and
  `ScopeExclusion` likewise with two processes of one session, whose claims have
  the same owner.
- `TakenFromLost` with `late`: a heartbeat between the tick's list of lost
  assignments and its write does not save the assignment (the docstring at
  `orchestrator.py:1303` speaks of sessions "whose controlling session lease has
  expired"). With tasks that write the same files this breaks `ScopeExclusion`.
- `OverIsFinal` with `stall`: a pull whose ROUTING a tick has taken back, and
  whose task another pull has completed, ends by writing QUEUED.
- `ReleasedWhenOver` with `early`, `crash` or a mortal agent, and
  `AssignedClaimed` with a mortal agent or `disable`: what a killed call had
  reserved or claimed is held until it expires.

LocalJob: with `early` or `stall` among the faults, `ImplementsAdapter` fails: a
call that overlaps the submission begins a grace period which ends under the
running job. Without faults `ResultKept` holds. Also, `cancel` overwrites a
result that came after its `status`; a `status` next to it may turn CANCELLED into
LOST; and when psutil is missing or raises (`persistent_local.py:59`), a job is
declared LOST two seconds after the first look that missed its runner, while it
runs, or is recorded as CANCELLED while nothing was killed. `ImplementsAdapter`
holds in `local_job` because the contract says as much of a runner that is no longer
known; mapped to a runner that stays known (`known |-> dir.named`), either breaks it.

Maintainer: a reservation that exists is handed out again without a look at the
state of its worker, also when that worker's quota is exhausted
(`docs/architecture.md:77` wants no routing then); and a worker can be registered
into another pool or account while it holds reservations, which is why the quota
property speaks of workers that have not moved (`SettledQuota`).

Fairness (`FairSpec`). Ticks come around for ever because the collector is
scheduled every minute, and a started tick goes on: WF of `Run(p)`. Commands of
an operator, once begun, end; nobody is obliged to begin one. A running command
ends: WF of `ExecutionEnds`. Two minutes pass again and again unless a live
process holds the task: SF of `TwoMinutes`. An execution without a result is
polled minutes apart, so the two seconds of grace end: SF of `DeclareLost`,
because the choice between "still in grace" and "lost" is time, which the model
does not count. Crashes are not fair. For the claims: time passes, and the
waiter's calls come.

For the sessions: `Run(p)` as above. An agent that lives registers, and pulls and
reports again and again, since that is its loop (`docs/agent-integration.md`): SF
of `BeginPull` and `BeginComplete`, whose guards other calls of the session may
disable now and then. A dead agent's lease runs out (`Lapse`), and two minutes
pass. For the maintainer: the collector's snapshot comes every minute, which
sweeps, and a reservation that nobody renews expires. For the local job:
processes run, commands end by themselves or at their deadline, the grace period
passes, and a tick asks for the status; calls of one process follow one another,
so WF suffices.

For the admission: the collector's `Cleanup` comes once a minute, time passes
(`Expire`, `GoIdle`), a command ends and its release follows unless the process
was killed, and a waiter's steps follow one another: all WF. Whether a request
that could be granted is refused depends on the load, which is not modelled; the
load lets up again and again while the request is possible, hence SF of
`WrapperRuns` and `WaiterAllowed`. Neither agents nor the stop hook have to do
anything, so a blocked call may never be repeated and a waiter never started:
`Served` then rests on `GoIdle` and `Expire`.

## 4. Proofs

`WorkspaceClaimsProofs`, from `ClaimsAssumption` and `FoldAssumption` alone, for
any sets of tasks, owners, processes, scopes, any lag bound and time limits:

- `TypeCorrect`: `Spec => []TypeOK`.
- `Exclusion`: `Spec => []LeasesDisjoint`. The invariant is inductive together
  with `TypeOK`. A grant or a transition into a lease state is tested against
  the swept table. Every lease that survives the sweep with lag *l* has
  `left + l > 0`, so the conflict query, which asks for that, misses none. A
  sweep only takes leases away, and no operation changes base or scopes of a row
  that keeps a lease. This is where the boundaries `<=` of the sweep and `>` of
  the query meet, and where one `now` per transaction is needed.
- `SingleWriter`: no path under two leases, from `Exclusion` and the lemma that
  two scopes above the same path contain one another.
- `IdentityNeverChanges`: `Spec => IdentityFixed`.
- `NeverPreempted`: `Spec => NoPreemption`. A step that grants no lease is no
  matter, and a grant takes leases only by its own sweep, whose `now` lags behind
  the present by a lag that is never negative.
- `Refinement`: `Spec => ImplementsPathLease`, step by step under the mapping.

`AdmissionProofs`, from `AdmissionAssumption` and `FiniteAssumption` (finitely
many uses), for any number of uses, agents, waiters and slots:

- `AdmissionTypeCorrect`: `Spec => []TypeOK`, which says too that no request is
  queued and reserved at once.
- `SlotsBounded`: `Spec => []SlotBound`. Inductive with `TypeOK`: the rows that
  count only shrink, except in `Grant`, which counts the swept table and adds one
  row in the same transaction. Hand-over and renewal keep the row's key, and with
  it its class, so that the count does not move.
- `RunsAreReserved`: `Spec => []RunsReserved`, if `share` is not among the
  faults. The invariant needed, `IInv`, says for every key where it may be at
  this moment: a process that was not allowed to run yet has no row
  (`FreshUnreserved`), what a hook has queued was blocked (`QueuedRefused`), a
  waiter asks only for such a call, for which nobody else asks and which has no
  row (`WaitersAsk`), a waiter between its two transactions holds a row that
  names no running use (`WaitersHold`, `IdsGranted`), a running use is alive
  (`RunnersLive`) and, if its row has expired or was granted by exemption, is
  excused (`RunnersExcused`). So a reset, a release, a sweep or a hand-over never
  meets the row of somebody else's run.
  With `share` this is wrong, as `admission_shared_slot` shows: the waiter of a
  wrapper's key resets the row of the running wrapper.
- `HeavyRunsAreBounded`: `Spec => []HeavyRunsBounded`, under the same condition:
  the run maps to its reservation, the map is injective because a row names one
  use, and the image is within what `SlotsBounded` bounds.

`OrchestratorProofs`, from `LedgerAssumption` and `VerificationAssumption`, for any
number of tickers and operators, tasks, workers, attempts, faults and crashes:

- `VerificationFirst`: `Spec => []VerifiedBeforeDone`.
- `DependenciesFirst`: `Spec => []DependenciesRanFirst`.

`PerformTask` writes a state without looking at the present one, and the decision
to write DONE may be any number of steps old. So neither property is inductive.
`IInv` says of everything durable or pending what it was earned by: a row that is
DONE (`Rows`), an execution that exists (`Executions`), a job whose poll may finish
its task (`Jobs`), a call at each place of its handler and every write it still
owes (`Calls`, `Owed`, `Good`). What has been earned stays earned because a result
SUCCEEDED is never written over (`Grows`): `Status` and `Cancel` leave a result
alone, `Finish` needs a live command, and an execution with that result has none.
The last is where `OneSpawner` is needed: only the call whose `mkdir` succeeded
spawns the runner, once.

`VerificationFirst` assumes that nobody completes by hand (`NoManualCompletion`) or
that verifications may only run locally (`LocalVerifications`), which is how
`_finish_success` submits them (`orchestrator.py:1221`): otherwise a verification
could be waiting for a person and be completed without having run.
`DependenciesFirst` assumes the former: a task completed by hand is DONE without an
execution, and what depends on it starts.

`OrchestratorTypes`, from the same assumptions: `TypeCorrect`, `Spec => []TypeOK`.
A table takes whatever a call has decided to write, perhaps long ago, so the types
of the writes that calls still owe, and of what they have read, are part of the
invariant (`ProcOK`). A poll may only finish a job that has a row, and a write to a
task that is not there would be lost: hence also that what is written exists.

`OneTickProofs`, from the same assumptions. Its first four theorems have one
condition, `OneTick`: there is one ticker, no operator, and of the faults only
`vanish` (a runner dies without a result) and `stall` (a tick lasts minutes). This is the setting of
`serial`, for any tasks, verifications, workers, scopes and attempts. It is what
the collector's mutex gives while nobody steps in (`scripts/collect.ps1`). Under it:

- `OneExecutionPerTask`: `Spec => []OneLiveExecution`.
- `ScopesExclusive`: `Spec => []ScopeExclusion`.
- `Accounted`: `Spec => []ExecutionAccounted`.
- `Released`: `Spec => []ReleasedWhenOver`.

The four are one invariant, `TickInv`, which says for every task, at every step of
every handler, what it holds. A task that the tick does not have in its hands is
at rest (`AtRest`): either free, with no job, worker or lease, in a state that has
let go; or RUNNING with one execution whose job is RUNNING, polled and known, and
whose reservation and lease are there; or waiting for a person. The task in its
hands is at one of the places of its handler (`InHand`), each of which says what
has been got so far. Where the handler's outcome is decided, the transactions still
to come must lead back to rest (`Finishing`): either all that is held is among
them to be let go, and nothing runs any more (`LettingGo`), or the task goes on
(`GoingOn`). Since each transaction is a step of its own, this is an invariant
about every suffix of every list of writes. Besides, what the tick has read in a
phase is still so when its turn comes (`Lists`), a lease is one for the scopes of
its task, and leases are disjoint (`Leases`), and what has a result does not run
(`Results`).

The condition cannot be dropped: with two tickers, an operator or a crash each of
the first two properties fails in an instance of section 3. Where the invariant
would break is where the code relies on the mutex: `Lists` with a second tick
(`orchestrator.py:1349` acts on a list read at the start of the phase), `InHand`
with a crash or a cancel in the middle of a handler.

- `AttemptsBounded`: `Spec => []AttemptBudget`, from the weaker condition
  `LoneTick`: one ticker, which may be killed and started again, any faults (a psutil
  that begins to fail is one), and any number of operators that retry and cancel.

A task is charged an attempt in a transaction before the adapter is called, and
may be started only while it has one to spare; both rest on rows read earlier. The
invariant `BudgetInv` says that a task in a state from which it can be started has
an attempt left (`Ledger`); that the executions of a task, together with the one
that a tick has paid for and not yet submitted, are at most the attempts counted
(`PaidFor`, `Made`); that what the tick has read of its task is still so, but for a
maximum that was raised and the attempt it has just counted itself (`Counting`);
and that no write an operator owes counts an attempt or makes a task startable,
except by the comparison that `retry_task` makes in its own statement (`Harmless`).
With two ticks the property fails in an instance with one attempt: a tick lasts
minutes and has not counted yet, the other takes the stale task over, and both count and submit.
It also fails, with two operators and two attempts, when one reports a failure by
hand of a task that the other's retry puts back on its way in between: what is
written late makes the task RETRYABLE although its attempts are used up by then.
`complete_manual` is therefore kept out, and so is `resolve_dispatch`, which makes
a task RETRYABLE without a look at its attempts (no violation is known with it).

`SessionsProofs`, from the assumptions of `Sessions`, for any sessions, agents,
ticks and tasks. The first two hold for any faults and commands; the others name
what must be kept out, and section 3 describes instances that break with it:

- `TypeCorrect`: `Spec => []TypeOK`. As in the orchestrator, the writes that calls
  still owe and the rows they have read are part of the invariant (`TypeInv`), and
  an agent's process only makes agents' calls (`AgentsCall`).
- `InflightLimit`: `Spec => []InflightBound`. The count that `session_pull` makes
  at its beginning is out of date when it assigns, since other pulls of the same
  session may be under way. `AssignTask` counts again in its own transaction.
  That is enough only if nothing else assigns: `Owing` says that no write that a
  call decided on earlier does, whatever it has read, so that every other step
  leaves a session the tasks it had or fewer (`Unassigning`).
- `OverStaysOver`: `Spec => OverIsFinal`, if `Orderly`: no live call or tick lasts
  two minutes (`stall`), and a task is submitted after those it depends on
  (`early`). `_set_task_state` writes by task id without a look at the present
  state, so the theorem is about what may still be written. `PullInv` says that a
  call which routes a task finds it in ROUTING, and that nobody else routes it
  (`Sound`, `OneHolder`), that writes which are due are about the task in the
  call's hands (`Shape`), and that a task whose dependencies a pull has found
  failed cannot have been begun in the meantime (`InOrder`).
- `NothingKept`: `Spec => []ReleasedWhenOver`, if besides no process is killed
  (`Unkilled`). Releases are calls of their own after the transaction that ends,
  returns or loses a task. `FreeInv` says that a reservation or a lease belongs to
  an assigned task, or to a task that some call has in its hands and will let go
  or assign (`KeepsWorker`, `KeepsPaths`). Nobody's release can be lost, but a
  release may come late and take what another call has got: that the two facts are
  one-sided is why this theorem needs less than the next.
- `AssignedHoldsClaim` and `SessionsApart`: `Spec => []AssignedClaimed` and
  `Spec => []ScopeExclusion`, if besides nobody misses a heartbeat, disables a
  session or runs two commands of a session at once (`Attended`), which is the
  setting of `sessions_pair` with closing and ticks at any time. Two exclusions
  meet in `ShareInv`: leases are disjoint (`Leases`, the invariant proved in
  `WorkspaceClaimsProofs`), and a claim names the session that works under it
  (`Cared`). The late releases by task id are harmless because `claim` refuses the
  next session while the first one's claim stands, so no task is assigned anew
  before they are made. No claim expires and no session is lost (`Ready`), so that
  a tick finds nothing to take away (`Vain`).

`MaintainerProofs`, from `MaintainerAssumption` and finitely many tasks, for any
workers, pools, quota domains, placements and amounts:

- `TypeCorrect`, `WithinCapacity` (`PoolWithinCapacity`), `JobsBounded`
  (`PoolJobsBounded`), `QuotaWithin` (`QuotaBounded`) and `HeadroomOnce`
  (`LocalHeadroomSpentOnce`). A sum is the cardinality of a set of units, so a
  reservation adds the units of its own task, which are disjoint from those of
  others, and expiry, release and renewal add none. `route_and_reserve` counts the
  swept table in the transaction that adds the row. A registration changes the
  limit, not the count, so a limit is one that some worker of the pool or account
  may be registered with (`Configs`).

`LocalJobProofs`, for any number of callers, any set of faults and any number of
them:

- `TypeCorrect`: `Spec => []TypeOK`, with "a command runs only under a runner that
  watches it".
- `SingleRunner`: `Spec => []OneRunner`. `Owned` says that whoever is inside
  `submit`, or has started a runner, is one process: the one whose `mkdir`
  succeeded. `Phases` and `NamedLate` say where the runner is at each step of it,
  and that nobody can have read its name before it was written.
- `Refinement`: `Spec => ImplementsAdapter`, if no call overlaps a submission or
  outlasts the grace period (`Careful`: neither `early` nor `stall` is among the
  faults). Besides those invariants the mapping needs to know what calls can know
  of each other: while a client submits nobody else is in a call (`Alone`), what
  was read of `meta.json` is still so (`NameRead`), a verdict CANCELLED was asked
  for (`Verdicts`), a runner that has a name and can be found (`Known`) is dead once
  its job has a result, once a grace period has begun and when a call is about to
  write a result itself (`Over`), and no call is about to declare lost what such a
  runner has finished (`Kept`). psutil may begin to fail at any step, which is the
  contract's `Forget`; after that less is promised. Then every access to a file is the abstract operation of the same
  name, or leaves the abstract execution as it is. For the orchestrator's
  modules, which are built on `ExecutionAdapter`, this says for any number of
  overlapping ticks and commands what `local_job` checks for two.

Only model-checked: everything with fairness (`CrashedOwnerReleases`, `Settles`,
`RoutingEnds`, `Served`, `OrphansRequeued`, `LeakedReservationEnds`, `Reported`),
since liveness and ENABLED are out of the prover's reach, and the
orchestrator's `AttemptBudget` where an operator also completes tasks by hand
(`commands`). The orchestrator's `OneLiveExecution` is proved for one tick at a
time; that overlapping ticks of less than two minutes with one attempt (`ticks`)
and crashes between steps with a remote worker (`crash`) leave it intact is checked
on those instances.

## 5. Plan

Done: claims with proofs; the orchestrator's tasks, jobs, ticks and commands, with
proofs of what precedes what, of its types, and, for one tick at a time, of
exclusion, accounting, release and the bound on attempts; the admission coordinator with its callers and
proofs; the maintainer with proofs; sessions over the claims, with proofs of
their types, limit, finality, release and exclusion; the local adapter and its runner with the proof
that they implement the adapter the orchestrator uses. What is left, in this
order:

1. More proofs: `OneLiveExecution` under overlapping ticks with one attempt;
   `AttemptBudget` with one operator that also completes by hand and resolves.
2. `CandidateWindow`: selection of a tick as an operator, and its starvation.
3. `StatusLight`, `Watchdog`: hysteresis; mutex, cool-down, back-off.
4. `Dispatch` and `Sessions` composed with `Maintainer` in place of their slot
   count.
5. `Admission`: an abstract counting lock that it refines; calls without a
   tool_use_id; the agents as processes that repeat what was blocked.
6. `ScopeNormalization` against a reference definition.

Not modelled, and not planned: git worktrees (subprocess I/O next to the table),
measuring the machine, the in-process `LocalAdapter` that the control plane does
not configure, the wire format of providers, the dashboard, message texts,
argument parsing.
