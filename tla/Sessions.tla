-------------------------------- MODULE Sessions --------------------------------
(***************************************************************************)
(* Agent sessions and the SESSION tasks they pull (sentinel/orchestrator.py*)
(* register_session ... close_session, reconcile_sessions).                *)
(*                                                                         *)
(* Every call is a process of its own (an orchestratorctl command of an    *)
(* agent, a tick), and a chain of transactions: what it has read stays in  *)
(* the process while others run.  What is decided and still to be written  *)
(* waits in proc[p].todo.                                                  *)
(*                                                                         *)
(* Time.  A session row is fresh while heartbeat_at and expires_at say so. *)
(* Reservations and claims last two hours, sessions ten minutes.           *)
(***************************************************************************)
EXTENDS Integers, Sequences, FiniteSets

CONSTANTS
    Task, NoTask, Session, NoSession,
    Takes,                \* the tasks whose agent kinds, repository and workers
                          \* admit the session
    WorkerOf, Worker,     \* bound_worker_id of a session
    MaxInflight,          \* max_inflight of a session
    Agent, AgentOf,       \* processes that issue commands for a session
    Ticker,               \* processes that tick
    DependsOn, MaxAttempts,
    Concurrency,          \* max_concurrency of the workers
    Base, BaseOf, ScopesOf, Segment, Fold,
    Commands,             \* the commands agents use
    Mortal,               \* sessions whose agent may be killed
    Faults,               \* what may go wrong
    MaxFaults,            \* bound: crashes and outages
    MaxAssigned,          \* bound: assignments of a task
    NoProcess, NoArea     \* of WorkspaceClaims

(***************************************************************************)
(* "late": a live agent misses its heartbeat.  "stall": a live call or     *)
(* tick lasts two minutes.  "crash": a process dies between two of its     *)
(* steps.  "outage": two hours pass without a heartbeat.  "worktree": no   *)
(* isolated worktree can be made.  "early": a task is submitted before one *)
(* that it depends on.                                                     *)
(***************************************************************************)
AllFaults == {"late", "stall", "crash", "outage", "worktree", "early"}

AllCommands == {"pulse", "discover", "complete", "close", "disable"}

ASSUME SessionsAssumption ==
    /\ NoTask \notin Task /\ NoSession \notin Session
    /\ Takes \in [Session -> SUBSET Task]
    /\ WorkerOf \in [Session -> Worker]
    /\ MaxInflight \in [Session -> Nat \ {0}]
    /\ AgentOf \in [Agent -> Session]
    /\ Agent \cap Ticker = {}
    /\ DependsOn \in [Task -> SUBSET Task]
    /\ MaxAttempts \in Nat \ {0} /\ MaxAssigned \in Nat /\ MaxFaults \in Nat
    /\ Concurrency \in [Worker -> Nat]
    /\ BaseOf \in [Task -> Base]
    /\ Commands \subseteq AllCommands /\ Faults \subseteq AllFaults
    /\ Mortal \subseteq Session

VARIABLES
    task,       \* orchestrator_tasks with dispatch_mode SESSION
    session,    \* agent_sessions
    reserved,   \* worker_reservations, by task
    claims,     \* workspace_claims
    proc,       \* the processes
    gone,       \* sessions whose agent is dead
    faults      \* how many crashes and outages there have been

vars == <<task, session, reserved, claims, proc, gone, faults>>

tables == <<task, session, reserved, claims>>

W == INSTANCE WorkspaceClaims WITH
        ScopeSet <- {ScopesOf[t] : t \in Task}, Owner <- Session,
        Process <- {}, Ttl <- {1}, MaxLag <- 0, Path <- {}, dead <- {}

SCHEDULABLE == {"QUEUED", "WAITING_CAPACITY", "RETRYABLE"}
TERMINAL == {"DONE", "FAILED", "BLOCKED"}

\* old: updated_at lies 120 seconds back.
TaskRow ==
    [state : SCHEDULABLE \cup TERMINAL \cup {"ROUTING", "ASSIGNED"},
     attempts : Nat, session : Session \cup {NoSession}, old : BOOLEAN]

\* OPEN stands for IDLE, BUSY, ONLINE and STALE, which no operation tells apart.
\* hand: the explicit handshake of a session that was not only discovered.
SessionRow ==
    [state : {"OPEN", "CLOSED", "DISABLED"}, accepts : BOOLEAN, hand : BOOLEAN,
     fresh : BOOLEAN]

Reservation == [worker : Worker, fresh : BOOLEAN]

Known(t) == t \in DOMAIN task

Registered(s) == s \in DOMAIN session

StateIs(t, states) == Known(t) /\ task[t].state \in states

AssignedTo(s) == {t \in DOMAIN task : task[t].state = "ASSIGNED" /\ task[t].session = s}

Without(f, x) == [y \in DOMAIN f \ {x} |-> f[y]]

\* A call stamps a row with the time the call began at, which lies 120 seconds
\* back only if the call stalls; since when it does is left open.
Stamp == {old \in BOOLEAN : old => "stall" \in Faults}

With(f, x, v) == [y \in DOMAIN f \cup {x} |-> IF y = x THEN v ELSE f[y]]

-----------------------------------------------------------------------------
(***************************************************************************)
(* Processes.  left is what the loop of a call has still to do: tasks, or  *)
(* rows that were read before the loop.                                    *)
(***************************************************************************)
Proc == Agent \cup Ticker

Idle == [pc |-> "idle", t |-> NoTask, to |-> "", left |-> {}, todo |-> <<>>]

At(p, pc) == proc[p].pc = pc /\ proc[p].todo = <<>>

Goto(p, pc, r) ==
    proc' = [proc EXCEPT ![p] =
        [f \in DOMAIN Idle |->
            IF f = "pc" THEN pc ELSE IF f \in DOMAIN r THEN r[f] ELSE @[f]]]

\* The task at hand is decided: p writes the steps, then is back at pc.
Decide(p, pc, steps) ==
    proc' = [proc EXCEPT ![p] = [Idle EXCEPT
        !.pc = pc, !.left = IF pc = "idle" THEN {} ELSE proc[p].left, !.todo = steps,
        !.t = IF steps = <<>> THEN NoTask ELSE proc[p].t]]

Exit(p) == proc' = [proc EXCEPT ![p] = Idle]

ReadOnly == UNCHANGED <<tables, gone, faults>>

-----------------------------------------------------------------------------
(***************************************************************************)
(* Writes by task id that a call still has to perform.                     *)
(***************************************************************************)
Set(t, state) == [op |-> "task", id |-> t, to |-> state]
Unreserve(t) == [op |-> "unreserve", id |-> t, to |-> ""]
Unclaim(t, outcome) == [op |-> "unclaim", id |-> t, to |-> outcome]
Renew(t) == [op |-> "renew", id |-> t, to |-> ""]
Hold(t) == [op |-> "hold", id |-> t, to |-> ""]

\* Mutant: the reservation is left to its time limit.
ReleaseClaimOnly(t, outcome) == <<Unclaim(t, outcome)>>

Release(t, outcome) == <<Unreserve(t), Unclaim(t, outcome)>>

Due(p, op) == proc[p].todo # <<>> /\ Head(proc[p].todo).op = op

Step(p) == Head(proc[p].todo)

Loops == {"idle", "pull", "recover", "expire", "each"}

Pop(p) ==
    LET rest == Tail(proc[p].todo)
    IN  proc' = [proc EXCEPT ![p] = [@ EXCEPT
            !.todo = rest,
            !.t = IF rest = <<>> /\ proc[p].pc \in Loops THEN NoTask ELSE proc[p].t]]

\* _set_task_state: whatever the present state is.
PerformTask(p) ==
    /\ Due(p, "task")
    /\ task' = [task EXCEPT ![Step(p).id].state = Step(p).to, ![Step(p).id].old = FALSE]
    /\ Pop(p)
    /\ UNCHANGED <<session, reserved, claims, gone, faults>>

\* Maintainer.release
PerformUnreserve(p) ==
    /\ Due(p, "unreserve")
    /\ reserved' = Without(reserved, Step(p).id)
    /\ Pop(p)
    /\ UNCHANGED <<task, session, claims, gone, faults>>

\* _release_claim
PerformUnclaim(p) ==
    LET t == Step(p).id
    IN  /\ Due(p, "unclaim")
        /\ \/ W!Release(t, Step(p).to)
           \/ /\ t \in DOMAIN claims => claims[t].state \in W!TERMINAL_STATES
              /\ UNCHANGED claims
        /\ Pop(p)
        /\ UNCHANGED <<task, session, reserved, gone, faults>>

\* Maintainer.heartbeat: an expired reservation that is still there is revived.
PerformRenew(p) ==
    LET t == Step(p).id
    IN  /\ Due(p, "renew")
        /\ reserved' = IF t \in DOMAIN reserved
                       THEN [reserved EXCEPT ![t].fresh = TRUE] ELSE reserved
        /\ Pop(p)
        /\ UNCHANGED <<task, session, claims, gone, faults>>

\* _heartbeat_claim: a refused one still commits the cleanup of expired claims.
PerformHold(p) ==
    LET t == Step(p).id
    IN  /\ Due(p, "hold")
        /\ \/ W!Heartbeat(t, 1, 0)
           \/ /\ t \in DOMAIN claims =>
                    W!Cleaned(0, {})[t].state \notin W!EXPIRING_STATES
              /\ W!Cleanup(0, {})
        /\ Pop(p)
        /\ UNCHANGED <<task, session, reserved, gone, faults>>

Perform(p) ==
    \/ PerformTask(p) \/ PerformUnreserve(p) \/ PerformUnclaim(p)
    \/ PerformRenew(p) \/ PerformHold(p)

\* A loop over tasks with the same writes for each, in any order.
Each(p) ==
    /\ At(p, "each")
    /\ \E steps \in proc[p].left :
          Goto(p, "each", [t |-> steps[1].id, todo |-> steps,
                           left |-> proc[p].left \ {steps}])
    /\ ReadOnly

EndEach(p) ==
    /\ At(p, "each")
    /\ proc[p].left = {}
    /\ Exit(p)
    /\ ReadOnly

-----------------------------------------------------------------------------
(***************************************************************************)
(* Commands on the session itself: one transaction on its row each.        *)
(***************************************************************************)
Command(p, s, name) ==
    p \in Agent /\ s = AgentOf[p] /\ s \notin gone /\ At(p, "idle") /\ name \in Commands

\* register_session (orchestratorctl session-heartbeat)
RegisterSession(p) ==
    LET s == AgentOf[p]
    IN  /\ At(p, "idle") /\ s \notin gone
        /\ session' = With(session, s,
              [state |-> "OPEN", accepts |-> TRUE, hand |-> TRUE, fresh |-> TRUE])
        /\ UNCHANGED <<task, reserved, claims, proc, gone, faults>>

\* discover_session, by whoever has seen the agent's process
DiscoverSession(s) ==
    /\ "discover" \in Commands
    /\ s \notin gone
    /\ session' = With(session, s,
          IF Registered(s)
          THEN [session[s] EXCEPT !.fresh = TRUE, !.accepts = @ /\ session[s].hand]
          ELSE [state |-> "OPEN", accepts |-> FALSE, hand |-> FALSE, fresh |-> TRUE])
    /\ UNCHANGED <<task, reserved, claims, proc, gone, faults>>

\* heartbeat_session, possibly with --state DISABLED: an expired row is revived.
Pulse(p) ==
    LET s == AgentOf[p]
    IN  /\ \/ /\ Command(p, s, "pulse")
              /\ Registered(s)
              /\ session' = [session EXCEPT ![s].fresh = TRUE]
           \/ /\ Command(p, s, "disable")
              /\ Registered(s)
              /\ session' = [session EXCEPT ![s].fresh = TRUE, ![s].state = "DISABLED"]
        /\ Goto(p, "pulsed", Idle)
        /\ UNCHANGED <<task, reserved, claims, gone, faults>>

\* ... and the leases of what it is working on are renewed.
ListRenewals(p) ==
    /\ At(p, "pulsed")
    /\ Goto(p, "each",
            [left |-> {<<Renew(t), Hold(t)>> : t \in AssignedTo(AgentOf[p])}])
    /\ ReadOnly

CloseSession(p) ==
    LET s == AgentOf[p]
        mine == AssignedTo(s)
    IN  /\ Command(p, s, "close")
        /\ Registered(s)
        /\ task' = [t \in DOMAIN task |->
              IF t \in mine
              THEN [task[t] EXCEPT !.state = "RETRYABLE", !.session = NoSession, !.old = FALSE]
              ELSE task[t]]
        /\ session' = [session EXCEPT ![s] = [@ EXCEPT
              !.state = "CLOSED", !.accepts = FALSE, !.fresh = FALSE]]
        /\ Goto(p, "each", [left |-> {Release(t, "RETRYABLE") : t \in mine}])
        /\ UNCHANGED <<reserved, claims, gone, faults>>

-----------------------------------------------------------------------------
(***************************************************************************)
(* session_pull.                                                           *)
(***************************************************************************)
MayPull(s) ==
    /\ Registered(s)
    /\ session[s].fresh /\ session[s].accepts /\ session[s].state = "OPEN"

BeginPull(p) ==
    /\ p \in Agent /\ At(p, "idle") /\ AgentOf[p] \notin gone
    /\ MayPull(AgentOf[p])
    /\ Goto(p, "count", Idle)
    /\ ReadOnly

HasRoomFor(s) == Cardinality(AssignedTo(s)) < MaxInflight[s]

CountAssigned(p) ==
    /\ At(p, "count")
    /\ IF HasRoomFor(AgentOf[p]) THEN Goto(p, "list", Idle) ELSE Exit(p)
    /\ ReadOnly

\* Candidates in any order: priorities are left out.
ListCandidates(p) ==
    /\ At(p, "list")
    /\ Goto(p, "pull", [left |-> {t \in DOMAIN task \cap Takes[AgentOf[p]] :
                                    task[t].state \in SCHEDULABLE}])
    /\ ReadOnly

NextCandidate(p) ==
    /\ At(p, "pull")
    /\ \E t \in proc[p].left : Goto(p, "depend", [t |-> t, left |-> proc[p].left \ {t}])
    /\ ReadOnly

EndPull(p) ==
    /\ At(p, "pull")
    /\ proc[p].left = {}
    /\ Exit(p)
    /\ ReadOnly

\* _dependencies_ready: the first dependency that is not DONE decides.
CheckDependencies(p) ==
    LET t == proc[p].t
    IN  /\ At(p, "depend")
        /\ \/ /\ \A d \in DependsOn[t] : StateIs(d, {"DONE"})
              /\ Goto(p, "acquire", [t |-> t])
           \/ \E d \in DependsOn[t] :
                 /\ ~StateIs(d, {"DONE"})
                 /\ Decide(p, "pull", IF ~Known(d) \/ StateIs(d, {"FAILED", "BLOCKED"})
                                      THEN <<Set(t, "BLOCKED")>> ELSE <<>>)
        /\ ReadOnly

\* Mutant: the task is taken although another call has got it meanwhile.
MayAcquireAny(t) == task[t].attempts < MaxAssigned

\* Bound: a task is assigned at most MaxAssigned times.
MayAcquire(t) == task[t].state \in SCHEDULABLE /\ task[t].attempts < MaxAssigned

AcquireDispatchLease(p) ==
    LET t == proc[p].t
    IN  /\ At(p, "acquire")
        /\ \/ /\ MayAcquire(t)
              /\ \E old \in Stamp :
                    task' = [task EXCEPT ![t].state = "ROUTING", ![t].old = old]
              /\ Goto(p, "route", [t |-> t])
           \/ ~MayAcquire(t) /\ Decide(p, "pull", <<>>) /\ UNCHANGED task
        /\ UNCHANGED <<session, reserved, claims, gone, faults>>

Unexpired == {u \in DOMAIN reserved : reserved[u].fresh}

HasRoom(w) == Cardinality({u \in Unexpired : reserved[u].worker = w}) < Concurrency[w]

\* route_and_reserve with the session's worker as the only one allowed: a
\* reservation for another worker has another spec_hash.
RouteAndReserve(p) ==
    LET t == proc[p].t
        w == WorkerOf[AgentOf[p]]
        kept == [u \in Unexpired |-> reserved[u]]
        own == t \in Unexpired /\ reserved[t].worker = w
        new == t \notin Unexpired /\ HasRoom(w)
    IN  /\ At(p, "route")
        /\ \/ /\ own
              /\ reserved' = kept
              /\ Goto(p, "claim", [t |-> t])
           \/ /\ new
              /\ reserved' = With(kept, t, [worker |-> w, fresh |-> TRUE])
              /\ Goto(p, "claim", [t |-> t])
           \/ /\ ~own /\ ~new
              /\ reserved' = kept
              /\ Decide(p, "pull", <<Set(t, "WAITING_CAPACITY")>>)
        /\ UNCHANGED <<task, session, claims, gone, faults>>

\* _claim with owner=session_id
Request(t, s) ==
    [base |-> BaseOf[t], scopes |-> ScopesOf[t], owner |-> s,
     worker |-> WorkerOf[s], pid |-> NoProcess, ttl |-> 1, queue |-> TRUE]

NeedsClaim(t) == ScopesOf[t] # {}

\* Mutant: a claim that is only queued counts as granted.
GrantedIfQueued(t, req) ==
    W!ClaimGranted(t, req, 0) \/ W!ClaimRenewed(t, req, 0) \/ W!ClaimQueued(t, req, 0)

Granted(t, req) == W!ClaimGranted(t, req, 0) \/ W!ClaimRenewed(t, req, 0)

ClaimWorkspace(p) ==
    LET t == proc[p].t
        req == Request(t, AgentOf[p])
    IN  /\ At(p, "claim")
        /\ \/ ~NeedsClaim(t) /\ Goto(p, "assign", [t |-> t]) /\ UNCHANGED claims
           \/ /\ NeedsClaim(t)
              /\ Granted(t, req)
              /\ Goto(p, "assign", [t |-> t])
           \/ /\ NeedsClaim(t)
              /\ W!ClaimRefused(t, req, 0) \/ W!ClaimQueued(t, req, 0)
              /\ Decide(p, "pull", <<Unreserve(t), Set(t, "QUEUED")>>)
        /\ UNCHANGED <<task, session, reserved, gone, faults>>

\* _prepare_workspace raises, and the pull ends.
WorkspaceFails(p) ==
    LET t == proc[p].t
    IN  /\ At(p, "assign")
        /\ "worktree" \in Faults
        /\ NeedsClaim(t)
        /\ Decide(p, "idle", Release(t, "BLOCKED") \o <<Set(t, "BLOCKED")>>)
        /\ ReadOnly

\* Mutant: the number of assignments is not looked at again.
MayAssignUncounted(t, s) == task[t].state = "ROUTING"

MayAssign(t, s) == HasRoomFor(s) /\ task[t].state = "ROUTING"

AssignTask(p) ==
    LET t == proc[p].t
        s == AgentOf[p]
    IN  /\ At(p, "assign")
        /\ MayAssign(t, s)
        /\ task' = [task EXCEPT ![t] = [@ EXCEPT !.state = "ASSIGNED",
              !.session = s, !.attempts = task[t].attempts + 1, !.old = FALSE]]
        /\ session' = [session EXCEPT ![s].state = "OPEN", ![s].fresh = TRUE]
        /\ Exit(p)
        /\ UNCHANGED <<reserved, claims, gone, faults>>

\* The task stays in ROUTING until a tick recovers it.
LoseAssignment(p) ==
    LET t == proc[p].t
    IN  /\ At(p, "assign")
        /\ ~MayAssign(t, AgentOf[p])
        /\ Decide(p, "pull", Release(t, "RETRYABLE"))
        /\ ReadOnly

-----------------------------------------------------------------------------
(***************************************************************************)
(* session_complete: the row is read, then changed if it is still the same *)
(* session's; claim and reservation are released afterwards.               *)
(***************************************************************************)
\* Mutant: a state that no query looks for.
NextTryElsewhere(t) == IF task[t].attempts < MaxAttempts THEN "RETRY" ELSE "FAILED"

NextTry(t) == IF task[t].attempts < MaxAttempts THEN "RETRYABLE" ELSE "FAILED"

BeginComplete(p) ==
    /\ Command(p, AgentOf[p], "complete")
    /\ \E t \in AssignedTo(AgentOf[p]) : \E to \in {"DONE", NextTry(t)} :
          Goto(p, "complete", [t |-> t, to |-> to])
    /\ ReadOnly

RecordCompletion(p) ==
    LET t == proc[p].t
        s == AgentOf[p]
        to == proc[p].to
    IN  /\ At(p, "complete")
        /\ \/ /\ t \in AssignedTo(s)
              /\ task' = [task EXCEPT ![t] = [@ EXCEPT
                    !.state = to, !.session = NoSession, !.old = FALSE]]
              /\ session' = [session EXCEPT ![s].state = "OPEN", ![s].fresh = TRUE]
              /\ Decide(p, "idle", <<Unclaim(t, to), Unreserve(t)>>)
           \/ /\ t \notin AssignedTo(s)
              /\ Exit(p)
              /\ UNCHANGED <<task, session>>
        /\ UNCHANGED <<reserved, claims, gone, faults>>

AgentStep(p) ==
    \/ CountAssigned(p) \/ ListCandidates(p) \/ NextCandidate(p) \/ EndPull(p)
    \/ CheckDependencies(p) \/ AcquireDispatchLease(p) \/ RouteAndReserve(p)
    \/ ClaimWorkspace(p) \/ WorkspaceFails(p) \/ AssignTask(p) \/ LoseAssignment(p)
    \/ RecordCompletion(p) \/ ListRenewals(p) \/ Each(p) \/ EndEach(p)

AgentCommand(p) ==
    p \in Agent /\ (RegisterSession(p) \/ Pulse(p) \/ CloseSession(p) \/ BeginPull(p)
                    \/ BeginComplete(p))

-----------------------------------------------------------------------------
(***************************************************************************)
(* The two phases of a tick that concern SESSION tasks:                    *)
(* reconcile_stale_routing and reconcile_sessions.                         *)
(***************************************************************************)
StartTick(p) ==
    /\ p \in Ticker /\ At(p, "idle")
    /\ Goto(p, "recover", [left |-> {t \in DOMAIN task : StateIs(t, {"ROUTING"}) /\ task[t].old}])
    /\ ReadOnly

\* Mutant: only tasks that have had a session.
AbandonedIfTaken(t) ==
    task[t].state = "ROUTING" /\ task[t].old /\ task[t].session # NoSession

\* Tested again in the transaction that recovers the task.
Abandoned(t) == task[t].state = "ROUTING" /\ task[t].old

RecoverRouting(p) ==
    /\ At(p, "recover")
    /\ \E t \in proc[p].left :
          LET rest == proc[p].left \ {t}
          IN  \/ /\ Abandoned(t)
                 /\ task' = [task EXCEPT ![t].state = "RETRYABLE", ![t].old = FALSE]
                 /\ Goto(p, "recover",
                         [left |-> rest, t |-> t, todo |-> Release(t, "RETRYABLE")])
              \/ ~Abandoned(t) /\ Goto(p, "recover", [left |-> rest]) /\ UNCHANGED task
    /\ UNCHANGED <<session, reserved, claims, gone, faults>>

\* Mutant: only what was closed or disabled counts as lost.
LostIfClosed(s) == session[s].state # "OPEN"

Lost(s) == ~session[s].fresh \/ session[s].state # "OPEN"

ListLostAssignments(p) ==
    /\ At(p, "recover")
    /\ proc[p].left = {}
    /\ Goto(p, "expire",
            [left |-> {[t |-> t, s |-> task[t].session, to |-> NextTry(t)] :
                 t \in {u \in DOMAIN task : task[u].state = "ASSIGNED" /\ Lost(task[u].session)}}])
    /\ ReadOnly

\* Whether the lease is still expired is not tested again.
ExpireAssignment(p) ==
    /\ At(p, "expire")
    /\ \E r \in proc[p].left :
          LET rest == proc[p].left \ {r}
          IN  \/ /\ r.t \in AssignedTo(r.s)
                 /\ task' = [task EXCEPT ![r.t] = [@ EXCEPT
                       !.state = r.to, !.session = NoSession, !.old = FALSE]]
                 /\ session' = IF session[r.s].fresh THEN session
                               ELSE [session EXCEPT ![r.s].state = "OPEN"]
                 /\ Goto(p, "expire", [left |-> rest, t |-> r.t, todo |-> Release(r.t, r.to)])
              \/ /\ r.t \notin AssignedTo(r.s)
                 /\ Goto(p, "expire", [left |-> rest])
                 /\ UNCHANGED <<task, session>>
    /\ UNCHANGED <<reserved, claims, gone, faults>>

EndTick(p) ==
    /\ At(p, "expire")
    /\ proc[p].left = {}
    /\ Exit(p)
    /\ ReadOnly

TickStep(p) ==
    \/ StartTick(p) \/ RecoverRouting(p) \/ ListLostAssignments(p)
    \/ ExpireAssignment(p) \/ EndTick(p)

-----------------------------------------------------------------------------
\* submit_task
SubmitTask(t) ==
    /\ ~Known(t)
    /\ "early" \in Faults \/ \A d \in DependsOn[t] : Known(d)
    /\ task' = With(task, t, [state |-> "QUEUED", attempts |-> 0,
                              session |-> NoSession, old |-> FALSE])
    /\ UNCHANGED <<session, reserved, claims, proc, gone, faults>>

\* Ten minutes without a heartbeat.
Lapse(s) ==
    /\ Registered(s) /\ session[s].fresh
    /\ s \in gone \/ "late" \in Faults
    /\ session' = [session EXCEPT ![s].fresh = FALSE]
    /\ UNCHANGED <<task, reserved, claims, proc, gone, faults>>

\* A row is not 120 seconds old while the call that stamped it lives, or one that
\* has decided about its task, unless that call stalls.
Ages(t) ==
    \/ "stall" \in Faults
    \/ \A p \in Proc : proc[p].t = t => proc[p].pc \in {"depend", "acquire"}

TwoMinutes ==
    /\ task' = [t \in DOMAIN task |->
          [task[t] EXCEPT !.old = @ \/ (task[t].state = "ROUTING" /\ Ages(t))]]
    /\ task' # task
    /\ UNCHANGED <<session, reserved, claims, proc, gone, faults>>

\* Two hours: every lease expires.
Outage ==
    /\ "outage" \in Faults /\ faults < MaxFaults
    /\ faults' = faults + 1
    /\ session' = [s \in DOMAIN session |-> [session[s] EXCEPT !.fresh = FALSE]]
    /\ reserved' = [t \in DOMAIN reserved |-> [reserved[t] EXCEPT !.fresh = FALSE]]
    /\ claims' = [t \in DOMAIN claims |->
          IF claims[t].state \in W!EXPIRING_STATES THEN [claims[t] EXCEPT !.left = 0]
          ELSE claims[t]]
    /\ UNCHANGED <<task, proc, gone>>

\* A process is killed.
Crash(p) ==
    /\ "crash" \in Faults /\ faults < MaxFaults
    /\ faults' = faults + 1
    /\ proc[p] # Idle
    /\ Exit(p)
    /\ UNCHANGED <<tables, gone>>

\* The agent is killed, with all its processes, and never comes back.
Die(s) ==
    /\ s \in Mortal \ gone
    /\ gone' = gone \cup {s}
    /\ proc' = [p \in Proc |-> IF p \in Agent /\ AgentOf[p] = s THEN Idle ELSE proc[p]]
    /\ UNCHANGED <<tables, faults>>

Init ==
    /\ task = [t \in {} |-> {}]
    /\ session = [s \in {} |-> {}]
    /\ reserved = [t \in {} |-> {}]
    /\ W!Init
    /\ proc = [p \in Proc |-> Idle]
    /\ gone = {}
    /\ faults = 0

Run(p) == Perform(p) \/ AgentStep(p) \/ TickStep(p)

Environment ==
    \/ \E t \in Task : SubmitTask(t)
    \/ \E s \in Session : DiscoverSession(s) \/ Lapse(s) \/ Die(s)
    \/ TwoMinutes \/ Outage

Next ==
    \/ \E p \in Proc : Run(p) \/ AgentCommand(p) \/ Crash(p)
    \/ Environment

Spec == Init /\ [][Next]_vars

(***************************************************************************)
(* Processes that are not killed go on, an agent that is not dead has      *)
(* registered and pulls and reports again and again, ticks come around,    *)
(* time passes, and a dead agent's lease runs out.                         *)
(***************************************************************************)
Fairness ==
    /\ \A p \in Proc : WF_vars(Run(p))
    /\ \A p \in Agent : SF_vars(BeginPull(p)) /\ SF_vars(BeginComplete(p))
    /\ \A p \in Agent : WF_vars(~Registered(AgentOf[p]) /\ RegisterSession(p))
    /\ \A s \in Session : WF_vars(s \in gone /\ Lapse(s))
    /\ SF_vars(TwoMinutes)

FairSpec == Spec /\ Fairness

-----------------------------------------------------------------------------
(***************************************************************************)
(* Properties.                                                             *)
(***************************************************************************)

\* Type invariant of the tables.
TypeOK ==
    /\ DOMAIN task \subseteq Task
    /\ task \in [DOMAIN task -> TaskRow]
    /\ DOMAIN session \subseteq Session
    /\ session \in [DOMAIN session -> SessionRow]
    /\ DOMAIN reserved \subseteq Task
    /\ reserved \in [DOMAIN reserved -> Reservation]
    /\ W!TypeOK

\* However many pulls of one session overlap, with completions, closings and
\* expiries in between, it never has more than max_inflight tasks.
InflightBound ==
    \A s \in Session : Cardinality(AssignedTo(s)) <= MaxInflight[s]

\* Two sessions never work on overlapping paths of one commit.
Overlap(t, u) ==
    /\ BaseOf[t] = BaseOf[u]
    /\ W!ScopesOverlap(ScopesOf[t], ScopesOf[u])

ScopeExclusion ==
    \A t, u \in DOMAIN task :
        StateIs(t, {"ASSIGNED"}) /\ StateIs(u, {"ASSIGNED"}) /\ Overlap(t, u) => t = u

\* An assigned task spends the capacity of its session's worker.
AssignedReserved ==
    \A t \in DOMAIN task : task[t].state = "ASSIGNED" =>
        t \in DOMAIN reserved /\ reserved[t].worker = WorkerOf[task[t].session]

\* An assigned task that writes a repository holds its claim.
AssignedClaimed ==
    \A t \in DOMAIN task : task[t].state = "ASSIGNED" /\ NeedsClaim(t) =>
        W!Leased(claims, t) /\ claims[t].owner = task[t].session

\* A task that is over, or waits for another try, and that no call has in its
\* hands, holds neither a worker nor paths.
Resting(t) ==
    \A p \in Proc :
        /\ proc[p].t # t
        /\ proc[p].pc = "each" => \A steps \in proc[p].left : steps[1].id # t

ReleasedWhenOver ==
    \A t \in DOMAIN task :
        task[t].state \in SCHEDULABLE \cup TERMINAL /\ Resting(t) =>
            t \notin DOMAIN reserved /\ ~W!Leased(claims, t)

\* Pulls write by task id, from lists and states they have read long before: a
\* task that is over stays over all the same.
OverIsFinal ==
    [][\A t \in DOMAIN task : task[t].state \in TERMINAL => task'[t].state = task[t].state]_vars

\* A task is assigned at most max_attempts times.
AttemptBudget == \A t \in DOMAIN task : task[t].attempts <= MaxAttempts

\* "Requeue assignments whose controlling session lease has expired": a tick
\* takes a task only from a session whose lease has expired, or is closed.
TakenFromLost ==
    [][\A p \in Ticker, t \in DOMAIN task :
          task[t].state = "ASSIGNED" /\ ExpireAssignment(p) /\ task'[t].state # "ASSIGNED"
          => Lost(task[t].session)]_vars

\* What a dead agent was working on is taken from it.
OrphansRequeued ==
    \A t \in Task, s \in Session :
        (s \in gone /\ Known(t) /\ t \in AssignedTo(s)) ~> (t \notin AssignedTo(s))

\* No task is in ROUTING for ever, whichever pull lost it or died on it.
RoutingEnds == \A t \in Task : StateIs(t, {"ROUTING"}) ~> ~StateIs(t, {"ROUTING"})

\* A task that waits is taken up by a session that keeps asking, or is over.
TakenUp ==
    \A t \in Task : StateIs(t, SCHEDULABLE) ~> StateIs(t, TERMINAL \cup {"ASSIGNED"})
=================================================================================
