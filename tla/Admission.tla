------------------------------ MODULE Admission ------------------------------
(* Admission of heavy commands on the workstation: the coordinator's tables   *)
(* `queue` and `reservations` with the processes that use them. These are the *)
(* gate hook before and after a tool call, the waiter a refused agent starts, *)
(* the wrapper that queues and runs a command itself, and the stop hook.      *)
(*                                                                            *)
(* A "use" is one tool call or one run of the wrapper. Each has a tool_use_id *)
(* of its own, from which the request key is derived: the use stands for both.*)
EXTENDS Naturals, FiniteSets, Functions

CONSTANTS
    Use,         \* tool calls and wrapper runs above class LIGHT
    Wrapped,     \* those run by invoke-sentinel.ps1; the others pass the hook
    Owner,       \* agent processes
    OwnerOf,     \* the agent that makes the use
    Command,     \* command texts, up to their signature
    CommandOf,   \* the command of the use
    Heavy,       \* commands of class HEAVY or EXTREME: one I/O slot each
    RankOf,      \* rank of the use's priority, 0 first
    Waiter,      \* runs of wait-slot.ps1
    Slots,       \* heavy_io_slots
    NoUse,       \* the empty tool_use_id
    MaxGrants,   \* bound: reservations ever created
    Faults       \* what may go wrong in this instance

ASSUME AdmissionAssumption ==
    /\ Wrapped \subseteq Use
    /\ OwnerOf \in [Use -> Owner]
    /\ CommandOf \in [Use -> Command]
    /\ RankOf \in [Use -> Nat]
    /\ Slots \in Nat
    /\ MaxGrants \in Nat
    /\ NoUse \notin Use
    /\ Faults \subseteq {"abandon", "die", "overstay", "exempt", "stop", "share"}

ASSUME FiniteAssumption == IsFiniteSet(Use)

VARIABLES
    reservations,  \* rows by request key
    queue,         \* rows by request key
    grants,        \* reservations created so far; orders them by created_at
    call,          \* how far each use has come
    waiter,        \* the processes of wait-slot.ps1
    dead,          \* agents that are gone
    exempt,        \* agents under an exemption the user has granted
    excused        \* running uses outside the count: exempt, or over their TTL

vars == <<reservations, queue, grants, call, waiter, dead, exempt, excused>>

\* `use` is the column tool_use_id, `expired` is expires_at <= now.
Reservation == [id : 1..MaxGrants, use : Use \cup {NoUse},
                expired : BOOLEAN, exempt : BOOLEAN]

\* `ahead`: the rows that were queued before this one and still are; `idle`: no
\* heartbeat for queue_ttl_min.
Place == [ahead : SUBSET Use, idle : BOOLEAN]

Stage == {"new", "waiting", "running", "ending", "over", "blocked"}
WaiterAt == {"off", "try", "admit", "reset", "killed"}

HasRow(u) == u \in DOMAIN reservations
HasPlace(u) == u \in DOMAIN queue
Live(u) == OwnerOf[u] \notin dead

-----------------------------------------------------------------------------
(* Tables                                                                     *)

\* Table t with a row for key k.
Insert(t, k, row) == [j \in DOMAIN t \cup {k} |-> IF j = k THEN row ELSE t[j]]

\* Deletion of the queue rows of a set of keys.
Without(q, gone) ==
    [k \in DOMAIN q \ gone |-> [q[k] EXCEPT !.ahead = @ \ gone]]

\* What the sweep leaves of the reservations. A row goes when its owner is gone
\* or its time is over.
Kept == Restrict(reservations,
                 {k \in DOMAIN reservations : Live(k) /\ ~reservations[k].expired})

\* Mutant: the sweep knows dead owners only.
KeptQueueOfTheLiving == Without(queue, {k \in DOMAIN queue : ~Live(k)})

\* What the sweep leaves of the queue.
KeptQueue == Without(queue, {k \in DOMAIN queue : ~Live(k) \/ queue[k].idle})

\* The upsert: a row that is there keeps queued_at and gets a new heartbeat.
Enqueued(q, u) ==
    IF u \in DOMAIN q THEN [q EXCEPT ![u].idle = FALSE]
    ELSE Insert(q, u, [ahead |-> DOMAIN q, idle |-> FALSE])

\* u is at position 1 of ORDER BY priority_rank, queued_at.
First(q, u) ==
    \A v \in DOMAIN q \ {u} :
        \/ RankOf[u] < RankOf[v]
        \/ RankOf[u] = RankOf[v] /\ u \in q[v].ahead

HeavyKeys(r) == {k \in DOMAIN r : CommandOf[k] \in Heavy}

\* Mutant: the slots in use are counted, the one asked for is not.
IoUncounted(u) == 0

Io(u) == IF CommandOf[u] \in Heavy THEN 1 ELSE 0

\* Mutant: a reservation in use passes for a freed one.
FreedOrNot(r, u) ==
    {k \in DOMAIN r : OwnerOf[k] = OwnerOf[u] /\ CommandOf[k] = CommandOf[u]}

\* The reservations a waiter has freed for a new run of the command by the same
\* agent, and among them the oldest if the request has the same specification.
Freed(r, u) ==
    {k \in DOMAIN r : /\ r[k].use = NoUse
                      /\ OwnerOf[k] = OwnerOf[u]
                      /\ CommandOf[k] = CommandOf[u]}
HandOff(r, u) ==
    {k \in Freed(r, u) : /\ \A j \in Freed(r, u) : r[k].id <= r[j].id
                         /\ RankOf[k] = RankOf[u]}

-----------------------------------------------------------------------------
(* admit: one transaction, the sweep first. One operator per outcome.         *)

\* The request has a reservation: it is renewed and gets the caller's id.
Renew(u, k) ==
    /\ k = u
    /\ u \in DOMAIN Kept
    /\ reservations' = [Kept EXCEPT ![u].use = u]
    /\ queue' = KeptQueue
    /\ excused' = IF Kept[u].exempt THEN excused \cup {u} ELSE excused
    /\ UNCHANGED grants

\* It takes over a freed one. The queue is left as it is.
TakeOver(u, k) ==
    /\ u \notin DOMAIN Kept
    /\ k \in HandOff(Kept, u)
    /\ reservations' = [Kept EXCEPT ![k].use = u]
    /\ queue' = KeptQueue
    /\ excused' = IF Kept[k].exempt THEN excused \cup {u} ELSE excused
    /\ UNCHANGED grants

\* Mutant: the granted request keeps its row in the queue.
LeavingLate(q, u) == q

\* The granted request leaves the queue.
Leaving(q, u) == Without(q, {u})

\* It is the first of the queue and fits, or its agent is exempt. Load, light
\* and age of status.json are left open, so that a request that fits may as well
\* be refused.
Grant(u, k) ==
    LET free == OwnerOf[u] \in exempt
        row == [id |-> grants + 1, use |-> u, expired |-> FALSE, exempt |-> free]
    IN  /\ k = u
        /\ u \notin DOMAIN Kept
        /\ HandOff(Kept, u) = {}
        /\ \/ free
           \/ /\ First(Enqueued(KeptQueue, u), u)
              /\ Cardinality(HeavyKeys(Kept)) + Io(u) <= Slots
        /\ grants < MaxGrants
        /\ grants' = grants + 1
        /\ reservations' = Insert(Kept, u, row)
        /\ queue' = Leaving(KeptQueue, u)
        /\ excused' = IF free THEN excused \cup {u} ELSE excused

\* Allowed, on the reservation with key k.
Allow(u, k) == Renew(u, k) \/ TakeOver(u, k) \/ Grant(u, k)

\* It stays in the queue.
Refuse(u) ==
    /\ u \notin DOMAIN Kept
    /\ HandOff(Kept, u) = {}
    /\ OwnerOf[u] \notin exempt
    /\ reservations' = Kept
    /\ queue' = Enqueued(KeptQueue, u)
    /\ UNCHANGED <<grants, excused>>

\* cancel_queued for one request.
CancelQueued(k) == queue' = Without(queue, {k})

-----------------------------------------------------------------------------
(* The hooks                                                                  *)

\* PreToolUse. A blocked call does not run; to try again is another call.
Gate(u) ==
    /\ u \notin Wrapped
    /\ call[u] = "new" /\ Live(u)
    /\ \/ /\ \E k \in Use : Allow(u, k)
          /\ call' = [call EXCEPT ![u] = "running"]
       \/ /\ Refuse(u)
          /\ call' = [call EXCEPT ![u] = "blocked"]
    /\ UNCHANGED <<waiter, dead, exempt>>

CommandEnds(u) ==
    /\ call[u] = "running"
    /\ call' = [call EXCEPT ![u] = "ending"]
    /\ UNCHANGED <<reservations, queue, grants, waiter, dead, exempt, excused>>

\* Mutant: by owner alone, so that a call releases what its agent's others hold.
ReleasedByOwner(u) == {k \in DOMAIN reservations : OwnerOf[k] = OwnerOf[u]}

\* The rows that a release by owner and tool_use_id deletes.
Released(u) == {k \in DOMAIN reservations :
                    OwnerOf[k] = OwnerOf[u] /\ reservations[k].use = u}

\* PostToolUse, and `finally` of the wrapper.
Release(u) ==
    /\ call[u] = "ending"
    /\ reservations' = Restrict(reservations, DOMAIN reservations \ Released(u))
    /\ call' = [call EXCEPT ![u] = "over"]
    /\ excused' = excused \ {u}
    /\ UNCHANGED <<queue, grants, waiter, dead, exempt>>

\* Stop, after its third reminder: the agent's first request leaves the queue.
\* The reminders are not counted.
StopCancels(u) ==
    /\ "stop" \in Faults
    /\ HasPlace(u) /\ Live(u)
    /\ LET mine == {k \in DOMAIN queue : OwnerOf[k] = OwnerOf[u]}
       IN  First(Restrict(queue, mine), u)
    /\ CancelQueued(u)
    /\ UNCHANGED <<reservations, grants, call, waiter, dead, exempt, excused>>

-----------------------------------------------------------------------------
(* The wrapper: sentinelctl wait                                              *)

WrapperPolls(u) ==
    /\ u \in Wrapped
    /\ call[u] \in {"new", "waiting"} /\ Live(u)
    /\ Refuse(u)
    /\ call' = [call EXCEPT ![u] = "waiting"]
    /\ UNCHANGED <<waiter, dead, exempt>>

WrapperRuns(u) ==
    /\ u \in Wrapped
    /\ call[u] \in {"new", "waiting"} /\ Live(u)
    /\ \E k \in Use : Allow(u, k)
    /\ call' = [call EXCEPT ![u] = "running"]
    /\ UNCHANGED <<waiter, dead, exempt>>

\* The time limit: the request is cancelled and the wrapper goes to `finally`.
WrapperGivesUp(u) ==
    /\ call[u] = "waiting"
    /\ CancelQueued(u)
    /\ call' = [call EXCEPT ![u] = "ending"]
    /\ UNCHANGED <<reservations, grants, waiter, dead, exempt, excused>>

-----------------------------------------------------------------------------
(* The waiter: sentinelctl wait-existing                                      *)

Off == [pc |-> "off", key |-> NoUse, id |-> 0]
WaiterGoes(w, to) == waiter' = [waiter EXCEPT ![w].pc = to]
WaiterEnds(w) == waiter' = [waiter EXCEPT ![w] = Off]

\* Processes that ask for the reservation of key k every five seconds.
Polled(k) ==
    \/ call[k] = "waiting"
    \/ \E w \in Waiter : waiter[w].key = k

\* An agent starts it for a queued request of its own. The stop hook names the
\* agent's first one, whoever waits for it already ("share").
WaiterStarts(w, k) ==
    /\ waiter[w].pc = "off"
    /\ HasPlace(k) /\ Live(k)
    /\ "share" \in Faults \/ (k \notin Wrapped /\ ~Polled(k))
    /\ waiter' = [waiter EXCEPT ![w] = [pc |-> "try", key |-> k, id |-> 0]]
    /\ UNCHANGED <<reservations, queue, grants, call, dead, exempt, excused>>

\* retry_queued reads the row. Without a row there is a reservation already and
\* the agent is told it is its turn, or the request is missing.
WaiterReads(w) ==
    /\ waiter[w].pc = "try"
    /\ IF HasPlace(waiter[w].key) THEN WaiterGoes(w, "admit") ELSE WaiterEnds(w)
    /\ UNCHANGED <<reservations, queue, grants, call, dead, exempt, excused>>

\* ... calls admit with what it has read ...
WaiterRefused(w) ==
    /\ waiter[w].pc = "admit"
    /\ Refuse(waiter[w].key)
    /\ WaiterGoes(w, "try")
    /\ UNCHANGED <<call, dead, exempt>>

WaiterAllowed(w) ==
    /\ waiter[w].pc = "admit"
    /\ \E k \in Use :
          /\ Allow(waiter[w].key, k)
          /\ waiter' = [waiter EXCEPT ![w] =
                [pc |-> "reset", key |-> k, id |-> reservations'[k].id]]
    /\ UNCHANGED <<call, dead, exempt>>

\* ... and in a second transaction frees the reservation, by its id, for the
\* run to come.
WaiterResets(w) ==
    LET k == waiter[w].key IN
    /\ waiter[w].pc = "reset"
    /\ reservations' = IF HasRow(k) /\ reservations[k].id = waiter[w].id
                       THEN [reservations EXCEPT ![k].use = NoUse]
                       ELSE reservations
    /\ WaiterEnds(w)
    /\ UNCHANGED <<queue, grants, call, dead, exempt, excused>>

WaiterGivesUp(w) ==
    /\ waiter[w].pc = "try"
    /\ CancelQueued(waiter[w].key)
    /\ WaiterEnds(w)
    /\ UNCHANGED <<reservations, grants, call, dead, exempt, excused>>

WaiterSteps(w) ==
    \/ \E k \in Use : WaiterStarts(w, k)
    \/ WaiterReads(w) \/ WaiterRefused(w) \/ WaiterAllowed(w)
    \/ WaiterResets(w) \/ WaiterGivesUp(w)

-----------------------------------------------------------------------------
(* Time, the collector, the user, and what goes wrong                         *)

\* sentinelctl cleanup, once a minute.
Cleanup ==
    /\ reservations' = Kept
    /\ queue' = KeptQueue
    /\ UNCHANGED <<grants, call, waiter, dead, exempt, excused>>

\* reservation_ttl_min have passed since the last renewal. A command may run
\* that long ("overstay").
Expire(k) ==
    /\ HasRow(k) /\ ~reservations[k].expired
    /\ LET u == reservations[k].use
           busy == u # NoUse /\ call[u] \in {"running", "ending"}
       IN  /\ busy => "overstay" \in Faults
           /\ excused' = IF busy THEN excused \cup {u} ELSE excused
    /\ reservations' = [reservations EXCEPT ![k].expired = TRUE]
    /\ UNCHANGED <<queue, grants, call, waiter, dead, exempt>>

\* queue_ttl_min without a poll.
GoIdle(k) ==
    /\ HasPlace(k) /\ ~queue[k].idle
    /\ ~Polled(k)
    /\ queue' = [queue EXCEPT ![k].idle = TRUE]
    /\ UNCHANGED <<reservations, grants, call, waiter, dead, exempt, excused>>

\* The process of a use ends without its release: killed, or a hook that fails.
Abandon(u) ==
    /\ "abandon" \in Faults
    /\ call[u] \in {"waiting", "running", "ending"}
    /\ call' = [call EXCEPT ![u] = "over"]
    /\ excused' = excused \ {u}
    /\ UNCHANGED <<reservations, queue, grants, waiter, dead, exempt>>

\* Bound: each of the waiters of an instance is killed at most once.
WaiterKilled(w) ==
    /\ "abandon" \in Faults
    /\ waiter[w].pc \notin {"off", "killed"}
    /\ waiter' = [waiter EXCEPT ![w] = [Off EXCEPT !.pc = "killed"]]
    /\ UNCHANGED <<reservations, queue, grants, call, dead, exempt, excused>>

\* An agent ends, and with it the processes it has started.
Die(o) ==
    /\ "die" \in Faults
    /\ o \notin dead
    /\ dead' = dead \cup {o}
    /\ call' = [u \in Use |-> IF OwnerOf[u] = o THEN "over" ELSE call[u]]
    /\ waiter' = [w \in Waiter |->
          IF waiter[w].key # NoUse /\ OwnerOf[waiter[w].key] = o
          THEN Off ELSE waiter[w]]
    /\ excused' = {u \in excused : OwnerOf[u] # o}
    /\ UNCHANGED <<reservations, queue, grants, exempt>>

\* The user grants or revokes an exemption, or it ends.
Exempt(o) ==
    /\ "exempt" \in Faults
    /\ exempt' = IF o \in exempt THEN exempt \ {o} ELSE exempt \cup {o}
    /\ UNCHANGED <<reservations, queue, grants, call, waiter, dead, excused>>

-----------------------------------------------------------------------------
Init ==
    /\ reservations = <<>> /\ queue = <<>>
    /\ grants = 0
    /\ call = [u \in Use |-> "new"]
    /\ waiter = [w \in Waiter |-> Off]
    /\ dead = {} /\ exempt = {} /\ excused = {}

Next ==
    \/ \E u \in Use : \/ Gate(u) \/ CommandEnds(u) \/ Release(u)
                      \/ StopCancels(u)
                      \/ WrapperPolls(u) \/ WrapperRuns(u) \/ WrapperGivesUp(u)
                      \/ Expire(u) \/ GoIdle(u) \/ Abandon(u)
    \/ \E w \in Waiter : WaiterSteps(w) \/ WaiterKilled(w)
    \/ Cleanup
    \/ \E o \in Owner : Die(o) \/ Exempt(o)

Spec == Init /\ [][Next]_vars

\* Time passes, the collector comes round, a command ends, a process that has
\* begun goes on, and the load lets up again and again.
Fairness ==
    /\ WF_vars(Cleanup)
    /\ \A u \in Use :
          /\ WF_vars(Expire(u)) /\ WF_vars(GoIdle(u))
          /\ WF_vars(CommandEnds(u)) /\ WF_vars(Release(u))
          /\ SF_vars(WrapperRuns(u))
    /\ \A w \in Waiter :
          /\ WF_vars(WaiterReads(w)) /\ WF_vars(WaiterResets(w))
          /\ WF_vars(WaiterRefused(w) \/ WaiterAllowed(w))
          /\ SF_vars(WaiterAllowed(w))

FairSpec == Spec /\ Fairness

-----------------------------------------------------------------------------
(* Properties                                                                 *)

\* Rows, processes and counters have the values the code gives them, and a
\* request is queued or has a reservation, never both.
TypeOK ==
    /\ DOMAIN reservations \subseteq Use
    /\ \A k \in DOMAIN reservations : reservations[k] \in Reservation
    /\ DOMAIN queue \subseteq Use
    /\ \A k \in DOMAIN queue : queue[k] \in Place
    /\ grants \in 0..MaxGrants
    /\ call \in [Use -> Stage]
    /\ waiter \in [Waiter -> [pc : WaiterAt, key : Use \cup {NoUse}, id : 0..MaxGrants]]
    /\ \A w \in Waiter : waiter[w].key = NoUse <=> waiter[w].pc \in {"off", "killed"}
    /\ dead \subseteq Owner /\ exempt \subseteq Owner /\ excused \subseteq Use
    /\ DOMAIN reservations \cap DOMAIN queue = {}

\* Whatever sweeps, renewals and hand-overs come between the check and the
\* insert of others, the reservations that were not granted by exemption never
\* hold more I/O slots than heavy_io_slots.
SlotBound ==
    Cardinality({k \in HeavyKeys(reservations) : ~reservations[k].exempt}) <= Slots

\* A command that runs, exempt ones and those over their TTL apart, runs on a
\* reservation that was made for this agent and this command and that names the
\* run itself: nobody else's release, renewal or reset has taken it away, and no
\* other run shares it.
RunsReserved ==
    \A u \in Use \ excused : call[u] = "running" =>
        \E k \in DOMAIN reservations :
            /\ reservations[k].use = u
            /\ OwnerOf[k] = OwnerOf[u] /\ CommandOf[k] = CommandOf[u]

\* What the slots are for: no more heavy commands run at one time than there are
\* slots, not counting exempt ones and those that have outlived their
\* reservation. It relates the table to the processes, so it fails as soon as
\* two runs live on one reservation or one is released under a running command.
HeavyRunsBounded ==
    Cardinality({u \in Use \ excused :
                    call[u] = "running" /\ CommandOf[u] \in Heavy}) <= Slots

\* A wrapper that waits gets its turn, gives up or dies: no slot and no place at
\* the head of the queue is lost for ever to a run that never came, a hook that
\* failed, a waiter that was killed or an agent that is gone.
Served ==
    \A u \in Wrapped :
        call[u] = "waiting" ~> call[u] \in {"running", "ending", "over"}
=============================================================================
