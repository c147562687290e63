---------------------------- MODULE WorkspaceClaims ----------------------------
(***************************************************************************)
(* The table workspace_claims and the operations of WorkspaceClaims        *)
(* (sentinel/workspace.py).  Every operation is one BEGIN IMMEDIATE ...    *)
(* COMMIT transaction, so it is one action; the callers are any number of  *)
(* independent processes (ticks, sessions, command lines).                 *)
(*                                                                         *)
(* Time.  A row stores expires_at; the model stores left, the time from    *)
(* the present to expires_at, which Tick counts down.  A call reads its    *)
(* own now = time.time() before it waits for the database lock, so inside  *)
(* the transaction now lags behind the present by 0..MaxLag (busy_timeout, *)
(* 10 s): expires_at <= now is left + lag <= 0, and expires_at = now + ttl *)
(* is left = ttl - lag.                                                    *)
(***************************************************************************)
EXTENDS PathScopes, FiniteSets

CONSTANTS
    Task, Base, ScopeSet,   \* task ids, commits of repositories, scope tuples
    Owner, Worker,          \* owner and worker names passed to claim()
    Process, NoProcess,     \* owner_pid: a process, or 0
    Ttl,                    \* the ttl_sec values callers use
    MaxLag,                 \* bound of a call's wait for the database lock
    Path,                   \* the paths of the repositories that are looked at
    NoArea                  \* used by the mapping to PathLease only

ASSUME ClaimsAssumption ==
    /\ ScopeSet \subseteq SUBSET Scope
    /\ Path \subseteq Scope
    /\ NoProcess \notin Process
    /\ Ttl \subseteq Nat \ {0}
    /\ MaxLag \in Nat
    /\ NoArea \notin [base : Base, scopes : ScopeSet]

VARIABLES
    claims,     \* the table, keyed by the UNIQUE task_id
    dead        \* the processes that are gone

vars == <<claims, dead>>

LEASE_STATES == {"CLAIMED", "RUNNING", "VERIFYING"}
EXPIRING_STATES == LEASE_STATES \cup {"QUEUED"}
TERMINAL_STATES == {"DONE", "FAILED"}
STATES == EXPIRING_STATES \cup TERMINAL_STATES \cup {"RETRYABLE", "BLOCKED"}

ALLOWED_TRANSITIONS ==
    [QUEUED    |-> {"CLAIMED", "RETRYABLE", "BLOCKED", "FAILED"},
     CLAIMED   |-> STATES \ {"CLAIMED"},
     RUNNING   |-> {"VERIFYING", "DONE", "FAILED", "RETRYABLE", "BLOCKED"},
     VERIFYING |-> {"RUNNING", "DONE", "FAILED", "RETRYABLE", "BLOCKED"},
     RETRYABLE |-> {"QUEUED", "CLAIMED", "FAILED", "BLOCKED"},
     BLOCKED   |-> {"QUEUED", "CLAIMED", "FAILED", "RETRYABLE"},
     FAILED    |-> {"RETRYABLE", "QUEUED"},
     DONE      |-> {}]

MayLeaveDone(from, to) ==                    \* mutant: DONE may be reopened too
    to \in ALLOWED_TRANSITIONS[IF from = "DONE" THEN "FAILED" ELSE from]

MayLeave(from, to) == to \in ALLOWED_TRANSITIONS[from]

Row == [base : Base, scopes : ScopeSet, owner : Owner, worker : Worker,
        pid : Process \cup {NoProcess}, state : STATES, ttl : Ttl, left : Int]

\* The arguments of a claim() call.
Request == [base : Base, scopes : ScopeSet, owner : Owner, worker : Worker,
            pid : Process \cup {NoProcess}, ttl : Ttl, queue : BOOLEAN]

Lag == 0..MaxLag

Put(tbl, t, row) ==
    [u \in DOMAIN tbl \cup {t} |-> IF u = t THEN row ELSE tbl[u]]

Leased(tbl, t) == t \in DOMAIN tbl /\ tbl[t].state \in LEASE_STATES

-----------------------------------------------------------------------------
(***************************************************************************)
(* _cleanup_locked: expired rows, and rows whose owner process is seen to  *)
(* be gone, become RETRYABLE.  It is the first statement of every          *)
(* transaction below except release().                                     *)
(***************************************************************************)
StaleAfterExpiry(row, lag, gone) ==          \* mutant: < for <=
    /\ row.state \in EXPIRING_STATES
    /\ row.left + lag < 0 \/ row.pid \in gone

StaleEarly(row, lag, gone) ==                \* mutant: one second early
    /\ row.state \in EXPIRING_STATES
    /\ row.left + lag <= 1 \/ row.pid \in gone

StaleIfSeenDead(row, lag, gone) ==           \* mutant: no expiry at all
    /\ row.state \in EXPIRING_STATES
    /\ row.pid \in gone

Stale(row, lag, gone) ==
    /\ row.state \in EXPIRING_STATES
    /\ row.left + lag <= 0 \/ row.pid \in gone

CleanedRow(row, lag, gone) ==
    IF Stale(row, lag, gone)
    THEN [row EXCEPT !.state = "RETRYABLE", !.left = 0]
    ELSE row

Cleaned(lag, gone) ==
    [t \in DOMAIN claims |-> CleanedRow(claims[t], lag, gone)]

(***************************************************************************)
(* _conflicts_locked: unexpired leases of other tasks on the same commit   *)
(* of the same repository whose scopes overlap.                            *)
(***************************************************************************)
Conflicts(tbl, t, base, scopes, lag) ==
    {u \in DOMAIN tbl \ {t} :
        /\ Leased(tbl, u)
        /\ tbl[u].left + lag > 0
        /\ tbl[u].base = base
        /\ ScopesOverlap(scopes, tbl[u].scopes)}

-----------------------------------------------------------------------------
(***************************************************************************)
(* claim(): refused, renewed, queued or granted.                           *)
(***************************************************************************)
OtherRepository(row, req) == row.base # req.base    \* mutant: scopes ignored

IdentityMismatch(row, req) == row.base # req.base \/ row.scopes # req.scopes

Refused(tbl, t, req) ==
    /\ t \in DOMAIN tbl
    /\ \/ IdentityMismatch(tbl[t], req)
       \/ tbl[t].owner # req.owner
       \/ tbl[t].state \in LEASE_STATES /\ tbl[t].worker # req.worker
       \/ tbl[t].state \in TERMINAL_STATES

ClaimRefused(t, req, lag) ==
    LET tbl == Cleaned(lag, {})
    IN  /\ \/ Refused(tbl, t, req)
           \/ /\ ~Leased(tbl, t)
              /\ ~req.queue
              /\ Conflicts(tbl, t, req.base, req.scopes, lag) # {}
        /\ claims' = tbl
        /\ UNCHANGED dead

ClaimRenewed(t, req, lag) ==
    LET tbl == Cleaned(lag, {})
    IN  /\ ~Refused(tbl, t, req)
        /\ Leased(tbl, t)
        /\ claims' = [tbl EXCEPT ![t].left = req.ttl - lag,
                                 ![t].ttl = req.ttl,
                                 ![t].pid = req.pid]
        /\ UNCHANGED dead

NewRow(req, state, lag) ==
    [base |-> req.base, scopes |-> req.scopes, owner |-> req.owner,
     worker |-> req.worker, pid |-> req.pid, state |-> state,
     ttl |-> req.ttl, left |-> req.ttl - lag]

ClaimQueued(t, req, lag) ==
    LET tbl == Cleaned(lag, {})
    IN  /\ ~Refused(tbl, t, req)
        /\ ~Leased(tbl, t)
        /\ req.queue
        /\ Conflicts(tbl, t, req.base, req.scopes, lag) # {}
        /\ claims' = Put(tbl, t, NewRow(req, "QUEUED", lag))
        /\ UNCHANGED dead

ClaimGranted(t, req, lag) ==
    LET tbl == Cleaned(lag, {})
    IN  /\ ~Refused(tbl, t, req)
        /\ ~Leased(tbl, t)
        /\ Conflicts(tbl, t, req.base, req.scopes, lag) = {}
        /\ claims' = Put(tbl, t, NewRow(req, "CLAIMED", lag))
        /\ UNCHANGED dead

-----------------------------------------------------------------------------
(***************************************************************************)
(* transition(): the explicit lifecycle steps.  A refused call (unknown    *)
(* task, expected_state mismatch, already there, not allowed, conflict)    *)
(* still commits the cleanup, which Cleanup below covers with gone = {}.   *)
(***************************************************************************)
\* Mutant: transition() trusts the state machine and skips the conflict check.
EnterLeaseUnchecked(tbl, t, target, lag) == TRUE

EnterLease(tbl, t, target, lag) ==
    target \in LEASE_STATES /\ tbl[t].state \notin LEASE_STATES =>
        Conflicts(tbl, t, tbl[t].base, tbl[t].scopes, lag) = {}

Transition(t, target, ttl, lag) ==
    LET tbl == Cleaned(lag, {})
    IN  /\ t \in DOMAIN tbl
        /\ MayLeave(tbl[t].state, target)
        /\ EnterLease(tbl, t, target, lag)
        /\ claims' = [tbl EXCEPT
              ![t].state = target,
              ![t].ttl = ttl,
              ![t].left = IF target \in EXPIRING_STATES THEN ttl - lag ELSE 0]
        /\ UNCHANGED dead

\* heartbeat(): renews a lease or a place in the queue, never a lost one.
Heartbeat(t, ttl, lag) ==
    LET tbl == Cleaned(lag, {})
    IN  /\ t \in DOMAIN tbl
        /\ tbl[t].state \in EXPIRING_STATES
        /\ claims' = [tbl EXCEPT ![t].ttl = ttl, ![t].left = ttl - lag]
        /\ UNCHANGED dead

\* Mutant: an outcome of the orchestrator is passed on as it is.
ReleaseOutcomesAsGiven == {"DONE", "FAILED", "RETRYABLE", "BLOCKED", "CANCELLED"}

ReleaseOutcomes == {"DONE", "FAILED", "RETRYABLE", "BLOCKED"}

\* release(): no cleanup; a terminal row keeps its outcome.
Release(t, outcome) ==
    /\ t \in DOMAIN claims
    /\ claims[t].state \notin TERMINAL_STATES
    /\ claims' = [claims EXCEPT ![t].state = outcome, ![t].left = 0]
    /\ UNCHANGED dead

\* cleanup() and snapshot(): gone are the dead owners the liveness check sees;
\* an unknowable one counts as alive.
Cleanup(lag, gone) ==
    /\ claims' = Cleaned(lag, gone)
    /\ UNCHANGED dead

-----------------------------------------------------------------------------
Die(p) ==
    /\ p \notin dead
    /\ dead' = dead \cup {p}
    /\ UNCHANGED claims

\* A second passes.  Below -MaxLag every call sees the row as expired.
Tick ==
    /\ \E t \in DOMAIN claims : claims[t].state \in EXPIRING_STATES
    /\ claims' = [t \in DOMAIN claims |->
          IF claims[t].state \in EXPIRING_STATES /\ claims[t].left > -MaxLag
          THEN [claims[t] EXCEPT !.left = @ - 1]
          ELSE claims[t]]
    /\ UNCHANGED dead

Init ==
    /\ claims = [t \in {} |-> {}]
    /\ dead = {}

Claim(t, req, lag) ==
    /\ req.pid \notin dead
    /\ \/ ClaimRefused(t, req, lag)
       \/ ClaimRenewed(t, req, lag)
       \/ ClaimQueued(t, req, lag)
       \/ ClaimGranted(t, req, lag)

\* Every operation that names the task t.
Call(t) ==
    \/ \E lag \in Lag :
          \/ \E req \in Request : Claim(t, req, lag)
          \/ \E ttl \in Ttl, target \in STATES : Transition(t, target, ttl, lag)
          \/ \E ttl \in Ttl : Heartbeat(t, ttl, lag)
    \/ \E outcome \in ReleaseOutcomes : Release(t, outcome)

Environment ==
    \/ \E lag \in Lag, gone \in SUBSET dead : Cleanup(lag, gone)
    \/ \E p \in Process : Die(p)
    \/ Tick

Next == (\E t \in Task : Call(t)) \/ Environment

Spec == Init /\ [][Next]_vars

(***************************************************************************)
(* A waiter w that keeps calling claim(): with the passage of time the     *)
(* only thing that liveness rests on.  Nobody has to release, renew or     *)
(* sweep anything.                                                         *)
(***************************************************************************)
WaiterClaims(w) ==
    \E req \in Request, lag \in Lag :
        req.pid = NoProcess /\ Claim(w, req, lag)

-----------------------------------------------------------------------------
(***************************************************************************)
(* Properties.                                                             *)
(***************************************************************************)

\* Type invariant of the table.
TypeOK ==
    /\ DOMAIN claims \subseteq Task
    /\ claims \in [DOMAIN claims -> Row]
    /\ dead \subseteq Process

\* Two leases on the same commit never have overlapping scopes, whatever the
\* callers' clocks say: the sweep, the conflict query and the write share one
\* transaction and one now.
LeasesDisjoint ==
    \A t, u \in DOMAIN claims :
        /\ t # u
        /\ Leased(claims, t)
        /\ Leased(claims, u)
        /\ claims[t].base = claims[u].base
        => ~ScopesOverlap(claims[t].scopes, claims[u].scopes)

\* No file of a commit is under two leases: what the overlap test is for.
OneWriterPerPath ==
    \A f \in Path, t, u \in DOMAIN claims :
        /\ Leased(claims, t) /\ Covers(claims[t].scopes, f)
        /\ Leased(claims, u) /\ Covers(claims[u].scopes, f)
        /\ claims[t].base = claims[u].base
        => t = u

\* Granting a lease never takes another task's lease that is neither expired
\* nor abandoned by a dead owner.
NoPreemption ==
    [][\A t \in DOMAIN claims :
          (Leased(claims, t) /\ ~Leased(claims', t)) =>
             \/ claims[t].left <= 0
             \/ claims[t].pid \in dead
             \/ \A u \in DOMAIN claims' : Leased(claims', u) => Leased(claims, u)]_vars

\* A row never disappears and never changes hands: repository, commit, scopes
\* and owner are those of the task's first claim, across retries and requeues.
IdentityFixed ==
    [][\A t \in DOMAIN claims :
          /\ t \in DOMAIN claims'
          /\ claims'[t].base = claims[t].base
          /\ claims'[t].scopes = claims[t].scopes
          /\ claims'[t].owner = claims[t].owner]_vars

\* "A crashed task cannot deadlock a repository forever": the lease of a dead
\* owner ends, at the latest with the first claim() after its expiry, unless
\* others keep renewing it.
OwnerGone(t) == t \in DOMAIN claims /\ claims[t].pid \in dead

Renewed(t) == t \in DOMAIN claims /\ claims'[t].left > claims[t].left

CrashedOwnerReleases ==
    \A t \in Task :
        <>[][~Renewed(t)]_vars => ((OwnerGone(t) /\ Leased(claims, t)) ~> ~Leased(claims, t))

\* The claims implement the exclusive path lease.
Lease == INSTANCE PathLease WITH
    lease <- [t \in Task |->
                IF Leased(claims, t)
                THEN [base |-> claims[t].base, scopes |-> claims[t].scopes]
                ELSE NoArea],
    finished <- {t \in DOMAIN claims : claims[t].state = "DONE"}

ImplementsPathLease == Lease!Spec
================================================================================
