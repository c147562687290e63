------------------------------- MODULE Maintainer -------------------------------
(***************************************************************************)
(* The worker registry and the capacity accounting of sentinel/maintainer.py*)
(*                                                                         *)
(* Every operation is one transaction on the tables workers and            *)
(* worker_reservations, and so one action.  Resources are counted in whole *)
(* units.  What a worker has to offer may change while its capacity is     *)
(* reserved: the collector registers the local machine anew every minute.  *)
(***************************************************************************)
EXTENDS Integers, FiniteSets

CONSTANTS
    Task, Worker, Pool, Quota,
    Feature,       \* operating system, capabilities, trust domain
    Configs,       \* the rows a worker may be registered with
    SpecsOf,       \* the placements a task may be asked for with
    Command,       \* commands with a reservation of the admission coordinator
    CommandNeed,
    NoLimit        \* None

Resource == {"ram", "cpu", "disk"}

PREFERENCES == {"LOCAL_REQUIRED", "LOCAL_PREFERRED", "CLOUD_OK", "CLOUD_PREFERRED"}

\* shared: capacity_scope is SHARED_POOL.  rank: AUTOMATION_RANK.  ready: enabled,
\* AUTOMATABLE and adapter_ready.  room: observed_free_ram_gib - memory_headroom_gib.
\* active: the state is AVAILABLE or BUSY, and the probe has not expired.
WorkerRow ==
    [pool : Pool, quota : Quota, shared : BOOLEAN, local : BOOLEAN,
     max_concurrency : Nat \ {0}, cap : [Resource -> Nat \cup {NoLimit}],
     room : Int \cup {NoLimit}, rank : 0..3, ready : BOOLEAN,
     offers : SUBSET Feature, active : BOOLEAN]

\* only: allowed_worker_ids, empty for any.
Placement ==
    [need : [Resource -> Nat], requires : SUBSET Feature, only : SUBSET Worker,
     prefers : PREFERENCES, automated : BOOLEAN]

ASSUME MaintainerAssumption ==
    /\ IsFiniteSet(Task) /\ IsFiniteSet(Command)
    /\ Configs \in [Worker -> SUBSET WorkerRow]
    /\ SpecsOf \in [Task -> SUBSET Placement]
    /\ CommandNeed \in [Command -> [Resource -> Nat]]
    /\ NoLimit \notin Int

VARIABLES
    workers,        \* the registry, by id
    reservations,   \* worker_reservations, by task (task_id is UNIQUE)
    direct          \* commands that hold a reservation of the coordinator

vars == <<workers, reservations, direct>>

\* spec stands for spec_hash; fresh: expires_at lies ahead.
Reservation ==
    [worker : Worker, pool : Pool, spec : Placement, fresh : BOOLEAN]

Reserved(t) == t \in DOMAIN reservations

Put(f, x, v) == [y \in DOMAIN f \cup {x} |-> IF y = x THEN v ELSE f[y]]

Without(f, gone) == [y \in DOMAIN f \ gone |-> f[y]]

-----------------------------------------------------------------------------
(***************************************************************************)
(* Sums.  A task that holds n units of a resource holds the units          *)
(* <<t, 1>> ... <<t, n>>: SUM is the number of units held.                 *)
(***************************************************************************)
Units(who, need) == UNION {{x} \X (1..need[x]) : x \in who}

Total(who, need) == Cardinality(Units(who, need))

InPool(tbl, p) == {t \in DOMAIN tbl : tbl[t].pool = p}

PoolLoad(tbl, p, r) ==
    Total(InPool(tbl, p), [t \in DOMAIN tbl |-> tbl[t].spec.need[r]])

DirectLoad(r) == Total(direct, [c \in Command |-> CommandNeed[c][r]])

\* Mutant: local commands are not seen.
RoutedUsage(tbl, w, r) == PoolLoad(tbl, workers[w].pool, r)

\* _pool_usage: of the coordinator's reservations RAM and CPU count.
Usage(tbl, w, r) ==
    PoolLoad(tbl, workers[w].pool, r)
        + (IF workers[w].local /\ r # "disk" THEN DirectLoad(r) ELSE 0)

PoolJobs(tbl, p) == Cardinality(InPool(tbl, p))

Jobs(tbl, w) ==
    PoolJobs(tbl, workers[w].pool)
        + (IF workers[w].local THEN Cardinality(direct) ELSE 0)

\* _quota_jobs: the domain the workers belong to now.
QuotaJobs(tbl, q) ==
    Cardinality({t \in DOMAIN tbl : workers[tbl[t].worker].quota = q})

-----------------------------------------------------------------------------
(***************************************************************************)
(* Selection.                                                              *)
(***************************************************************************)
\* _fits
Fits(spec, w) ==
    LET row == workers[w]
    IN  /\ row.active
        /\ spec.automated => row.ready
        /\ spec.only # {} => w \in spec.only
        /\ spec.prefers = "LOCAL_REQUIRED" => row.local
        /\ spec.requires \subseteq row.offers

\* Only a shared pool adds up the resources of its jobs.
Accounted(tbl, w, r) == IF workers[w].shared THEN Usage(tbl, w, r) ELSE 0

\* Mutant: one job too many.
HasSlotOffByOne(tbl, w) ==
    /\ Jobs(tbl, w) <= workers[w].max_concurrency
    /\ QuotaJobs(tbl, workers[w].quota) < workers[w].max_concurrency

\* Mutant: the account is not looked at.
HasSlotInPool(tbl, w) == Jobs(tbl, w) < workers[w].max_concurrency

HasSlot(tbl, w) ==
    /\ Jobs(tbl, w) < workers[w].max_concurrency
    /\ QuotaJobs(tbl, workers[w].quota) < workers[w].max_concurrency

\* Mutant: what is needed is compared with the whole capacity.
HasCapacityAlone(tbl, spec, w) ==
    \A r \in Resource :
        workers[w].cap[r] # NoLimit => spec.need[r] <= workers[w].cap[r]

HasCapacity(tbl, spec, w) ==
    /\ \A r \in Resource : workers[w].cap[r] # NoLimit =>
          Accounted(tbl, w, r) + spec.need[r] <= workers[w].cap[r]
    /\ workers[w].room # NoLimit =>
          \/ spec.need["ram"] = 0
          \/ spec.need["ram"] <= workers[w].room - Accounted(tbl, w, "ram")

Candidates(tbl, spec) ==
    {w \in DOMAIN workers : Fits(spec, w) /\ HasSlot(tbl, w) /\ HasCapacity(tbl, spec, w)}

PreferenceRank(spec, w) ==
    IF \/ spec.prefers = "LOCAL_PREFERRED" /\ ~workers[w].local
       \/ spec.prefers \in {"CLOUD_OK", "CLOUD_PREFERRED"} /\ workers[w].local
    THEN 1 ELSE 0

RamLeft(tbl, w) == workers[w].cap["ram"] - Accounted(tbl, w, "ram")

\* The tightest fit among equals; which of several is left open.
Better(tbl, spec, v, w) ==
    LET p(x) == PreferenceRank(spec, x)
        a(x) == workers[x].rank
    IN  \/ p(v) < p(w)
        \/ p(v) = p(w) /\ a(v) < a(w)
        \/ p(v) = p(w) /\ a(v) = a(w) /\ RamLeft(tbl, v) < RamLeft(tbl, w)

Best(tbl, spec) ==
    LET cs == Candidates(tbl, spec)
    IN  {w \in cs : \A v \in cs : ~Better(tbl, spec, v, w)}

-----------------------------------------------------------------------------
(***************************************************************************)
(* Operations.                                                             *)
(***************************************************************************)
\* Mutant: the import replaces the registry.
ReplaceRegistry(w) ==
    /\ \E row \in Configs[w] : workers' = [x \in {w} |-> row]
    /\ UNCHANGED <<reservations, direct>>

\* upsert_worker, of which sync-local is a case: the whole row is replaced.
UpsertWorker(w) ==
    /\ \E row \in Configs[w] : workers' = Put(workers, w, row)
    /\ UNCHANGED <<reservations, direct>>

\* update_worker_state, or the end of a probe.
UpdateWorkerState(w) ==
    /\ w \in DOMAIN workers
    /\ \E active \in BOOLEAN : workers' = [workers EXCEPT ![w].active = active]
    /\ UNCHANGED <<reservations, direct>>

Expired == {t \in DOMAIN reservations : ~reservations[t].fresh}

\* Mutant: what has expired is not counted, but stays.
NotSwept == reservations

\* _cleanup_locked
Swept == Without(reservations, Expired)

\* A reservation for the same placement is renewed, wherever it is.
Reuse(t, spec) ==
    /\ t \in DOMAIN Swept
    /\ Swept[t].spec = spec
    /\ reservations' = Swept
    /\ UNCHANGED <<workers, direct>>

\* task_spec_mismatch, no_compatible_worker
Refuse(t, spec) ==
    /\ IF t \in DOMAIN Swept THEN Swept[t].spec # spec ELSE Candidates(Swept, spec) = {}
    /\ reservations' = Swept
    /\ UNCHANGED <<workers, direct>>

NewRow(w, spec) ==
    [worker |-> w, pool |-> workers[w].pool, spec |-> spec, fresh |-> TRUE]

Grant(t, spec) ==
    /\ t \notin DOMAIN Swept
    /\ \E w \in Best(Swept, spec) : reservations' = Put(Swept, t, NewRow(w, spec))
    /\ UNCHANGED <<workers, direct>>

RouteAndReserve(t) ==
    \E spec \in SpecsOf[t] : Reuse(t, spec) \/ Refuse(t, spec) \/ Grant(t, spec)

Release(t) ==
    /\ Reserved(t)
    /\ reservations' = Without(reservations, {t})
    /\ UNCHANGED <<workers, direct>>

\* Also of a reservation that has expired and was not swept.
Heartbeat(t) ==
    /\ Reserved(t)
    /\ reservations' = [reservations EXCEPT ![t].fresh = TRUE]
    /\ UNCHANGED <<workers, direct>>

Snapshot ==
    /\ reservations' = Swept
    /\ UNCHANGED <<workers, direct>>

-----------------------------------------------------------------------------
\* ttl_min pass without a heartbeat.
Expire(t) ==
    /\ Reserved(t)
    /\ reservations' = [reservations EXCEPT ![t].fresh = FALSE]
    /\ UNCHANGED <<workers, direct>>

\* The coordinator's reservations come and go by its own rules (Admission).
CommandAdmitted(c) ==
    /\ direct' = direct \cup {c}
    /\ UNCHANGED <<workers, reservations>>

CommandEnds(c) ==
    /\ direct' = direct \ {c}
    /\ UNCHANGED <<workers, reservations>>

Init ==
    /\ workers = [w \in {} |-> {}]
    /\ reservations = [t \in {} |-> {}]
    /\ direct = {}

TaskStep(t) == RouteAndReserve(t) \/ Release(t) \/ Heartbeat(t) \/ Expire(t)

WorkerStep(w) == UpsertWorker(w) \/ UpdateWorkerState(w)

Next ==
    \/ \E t \in Task : TaskStep(t)
    \/ \E w \in Worker : WorkerStep(w)
    \/ \E c \in Command : CommandAdmitted(c) \/ CommandEnds(c)
    \/ Snapshot

Spec == Init /\ [][Next]_vars

(***************************************************************************)
(* The collector takes a snapshot every minute, and time passes.           *)
(***************************************************************************)
Fairness == WF_vars(Snapshot) /\ \A t \in Task : WF_vars(Expire(t))

FairSpec == Spec /\ Fairness

-----------------------------------------------------------------------------
(***************************************************************************)
(* Properties.                                                             *)
(***************************************************************************)

\* Type invariant; a reservation's worker is registered (the foreign key).
TypeOK ==
    /\ DOMAIN workers \subseteq Worker
    /\ workers \in [DOMAIN workers -> WorkerRow]
    /\ DOMAIN reservations \subseteq Task
    /\ reservations \in [DOMAIN reservations -> Reservation]
    /\ \A t \in DOMAIN reservations : reservations[t].worker \in DOMAIN workers
    /\ direct \subseteq Command

\* The rows of any worker with this pool, or this quota domain.
PoolRows(p) == {c \in UNION {Configs[w] : w \in Worker} : c.pool = p}

QuotaRows(q) == {c \in UNION {Configs[w] : w \in Worker} : c.quota = q}

\* A pool whose workers all share it and count the resource r.
SharedPool(p, r) == \A c \in PoolRows(p) : c.shared /\ c.cap[r] # NoLimit

\* What is reserved of a shared pool never exceeds what a worker of that pool
\* has ever offered: two workers of one computer do not offer it twice, and a
\* reservation that has expired and is revived was never given away meanwhile.
PoolWithinCapacity ==
    \A p \in Pool, r \in Resource : SharedPool(p, r) =>
        \/ PoolLoad(reservations, p, r) = 0
        \/ \E c \in PoolRows(p) : PoolLoad(reservations, p, r) <= c.cap[r]

\* No more jobs run in a pool than one of its workers allows.
PoolJobsBounded ==
    \A p \in Pool :
        \/ PoolJobs(reservations, p) = 0
        \/ \E c \in PoolRows(p) : PoolJobs(reservations, p) <= c.max_concurrency

\* No worker enters or leaves the quota domain.
SettledQuota(q) ==
    \A w \in Worker : \A c, d \in Configs[w] : c.quota = q => d.quota = q

\* The jobs of one account, over all its workers and pools, are together within
\* what one of the workers allows.
QuotaBounded ==
    \A q \in Quota : SettledQuota(q) =>
        \/ QuotaJobs(reservations, q) = 0
        \/ \E c \in QuotaRows(q) : QuotaJobs(reservations, q) <= c.max_concurrency

\* Routed jobs and local commands do not spend the same memory or processors:
\* at the moment of a grant, both together fit the local machine.
LocalHeadroomSpentOnce ==
    [][\A t \in DOMAIN reservations' \ DOMAIN reservations :
          LET w == reservations'[t].worker
          IN  workers[w].local /\ workers[w].shared =>
                \A r \in {"ram", "cpu"} : workers[w].cap[r] # NoLimit =>
                    PoolLoad(reservations', workers[w].pool, r) + DirectLoad(r)
                        <= workers[w].cap[r]]_vars

\* A reservation that nobody renews any more ends, although its holder never
\* releases it.
Renewed(t) ==
    t \in Expired /\ t \in DOMAIN reservations' /\ reservations'[t].fresh

LeakedReservationEnds ==
    \A t \in Task : <>[][~Renewed(t)]_vars => (Reserved(t) ~> ~Reserved(t))
=================================================================================
