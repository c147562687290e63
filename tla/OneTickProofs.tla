------------------------------ MODULE OneTickProofs ------------------------------
(***************************************************************************)
(* One tick at a time, run to its end, and nobody's commands next to it:   *)
(* what the collector's mutex gives while no operator steps in.  Then the  *)
(* orchestrator keeps what it promises, for any tasks, workers, claims and *)
(* verifications, runners that die and ticks that stall.  The instances    *)
(* with two ticks, with crashes and with commands show that the promises   *)
(* need each of these conditions.  The last section is about the budget of *)
(* attempts, which needs fewer of them.                                    *)
(***************************************************************************)
EXTENDS OrchestratorTypes, FiniteSetTheorems, Functions

OneTick ==
    /\ \E p : Ticker = {p}
    /\ Commands = {}
    /\ Faults \subseteq {"vanish", "stall"}

-----------------------------------------------------------------------------
(* The inductive invariant                                                   *)

\* The tick, and what it has in its hands.
tick == CHOOSE p \in Ticker : TRUE
Hand == proc[tick]

Active(j) == j \in DOMAIN job /\ job[j].status \in ACTIVE_JOB_STATES
Quiet(t) == \A j \in JobId : j[1] = t => ~Alive(j)
Unplaced(t) == \A j \in JobId : j[1] = t => ~Alive(j) /\ ~Active(j)
Free(t) == Unplaced(t) /\ t \notin DOMAIN reserved /\ ~W!Leased(claims, t)
Holding(t) ==
    /\ t \in DOMAIN reserved
    /\ NeedsClaim(t) => W!Leased(claims, t)

\* No job of t but j is active, and nothing else runs for t.
Only(t, j) ==
    /\ j \in DOMAIN job /\ j[1] = t
    /\ \A i \in JobId : i[1] = t /\ (Alive(i) \/ Active(i)) => i = j

Running(t, j) ==
    /\ Only(t, j) /\ job[j].status = "RUNNING"
    /\ Exists(j) /\ ext[j].known
    /\ Holding(t)

\* States of a task that has let go of its worker and its paths.
LetGo == SCHEDULABLE \cup {"DONE", "FAILED", "BLOCKED", "VERIFYING"}

\* The verification of t has been submitted.
Opened(t) == Known(ChildOf[t])

\* A task that the tick does not have in its hands.
AtRest(t) ==
    /\ Opened(t) => StateIs(t, {"VERIFYING", "DONE", "FAILED"})
    /\ \/ ~Known(t) /\ Free(t)
       \/ StateIs(t, LetGo) /\ Free(t)
       \/ StateIs(t, {"AWAITING_MANUAL"}) /\ Unplaced(t) /\ t \notin DOMAIN reserved
       \/ StateIs(t, {"RUNNING"}) /\ \E j \in JobId : Running(t, j)

\* The state in which t is left by the set P of writes that are due.
Writes(P, t) == {e \in P : e.op = "task" /\ e.id = t}
WillBe(P, t, state) ==
    /\ Known(t)
    /\ \A e \in Writes(P, t) : e.to = state
    /\ Writes(P, t) = {} => task[t].state = state

\* The writes are about t, its verification and the task it verifies.
Concerns(P, t) ==
    /\ Opened(t) => WillBe(P, t, "VERIFYING")
    /\ \A e \in P :
        /\ e.op # "reopen"
        /\ e.op \in {"unreserve", "unclaim", "renew", "hold"} => e.id = t
        /\ e.op = "job" => e.id[1] = t
        /\ e.op = "task" /\ e.id # t =>
              IsVerification(t) /\ e.id = ParentOf(t) /\ e.to \in {"DONE", "FAILED"}
        /\ e.op = "child" =>
              /\ e.id = ChildOf[t]
              /\ WillBe(P, t, "VERIFYING")
              /\ Opened(t) => task[e.id].of = e.of
              /\ \A f \in P : f.op = "child" => f = e

\* Nothing runs for t any more, and what it still holds is let go.
LettingGo(P, t) ==
    /\ Quiet(t)
    /\ t \in DOMAIN reserved => \E e \in P : e.op = "unreserve"
    /\ \A j \in JobId : j[1] = t /\ Active(j) => \E e \in P : e.op = "job" /\ e.id = j
    /\ \A e \in P :
          /\ e.op = "job" => e.to \notin ACTIVE_JOB_STATES
          /\ e.op \notin {"renew", "hold"}
    /\ \E state \in LetGo \cup {"AWAITING_MANUAL"} :
          /\ WillBe(P, t, state)
          /\ W!Leased(claims, t) /\ state # "AWAITING_MANUAL" =>
                \E e \in P : e.op = "unclaim"

GoingOn(P, t) ==
    /\ WillBe(P, t, "RUNNING")
    /\ \E j \in JobId :
          /\ Running(t, j)
          /\ \A e \in P :
                /\ e.op \in {"renew", "hold", "job", "task"}
                /\ e.op = "job" => e.to = "RUNNING" /\ e.id = j
                /\ e.op = "task" => e.id = t

Finishing(P, t) == Concerns(P, t) /\ (LettingGo(P, t) \/ GoingOn(P, t))

\* t has a job j that has not been handed to an adapter.
Starting(t, j) == Only(t, j) /\ job[j].status = "SUBMITTING" /\ Holding(t)

\* The places of the call r that is at work on t.
Placing(r, t) ==
    \/ r.pc \in {"depend", "acquire"} /\ StateIs(t, SCHEDULABLE) /\ Free(t)
    \/ r.pc = "route" /\ StateIs(t, {"ROUTING"}) /\ Free(t)
    \/ /\ r.pc \in {"claim", "insert"} /\ StateIs(t, {"ROUTING"}) /\ Unplaced(t)
       /\ t \in DOMAIN reserved /\ ~r.place.reused
       /\ r.pc = "claim" => ~W!Leased(claims, t)
       /\ r.pc = "insert" => Holding(t)

Submitted(r, t) ==
    \/ /\ r.pc \in {"submit", "spawn"} /\ Quiet(t)
       /\ r.pc = "spawn" => Exists(r.j) /\ ext[r.j].result = "NONE"
    \/ r.pc = "register" /\ Exists(r.j)
    \/ r.pc = "answer" /\ (Exists(r.j) => ext[r.j].known)

Answered(r, t) ==
    /\ r.pc = "settle" /\ Only(t, r.j) /\ Holding(t)
    /\ \/ r.todo = <<SetSent(r.j, r.answer)>> /\ job[r.j].status = "SUBMITTING"
       \/ r.todo = <<>> /\ job[r.j].status = r.answer
    /\ \/ r.answer = "RUNNING" /\ Exists(r.j) /\ ext[r.j].known
       \/ r.answer \in {"SUCCEEDED", "FAILED", "CANCELLED", "AWAITING_MANUAL"} /\ Quiet(t)

InHand(r, t) ==
    \/ r.pc \in Phases /\ r.todo # <<>> /\ Finishing(Range(r.todo), t)
    \/ ~Opened(t) /\ r.todo = <<>> /\ Placing(r, t)
    \/ /\ ~Opened(t) /\ StateIs(t, {"ROUTING", "RESERVED"}) /\ Starting(t, r.j)
       /\ Submitted(r, t)
       /\ r.todo = <<>> \/ (r.pc = "submit" /\ r.todo = <<Attempt(t, r.j, "RESERVED")>>)
    \/ ~Opened(t) /\ StateIs(t, {"ROUTING", "RESERVED"}) /\ Answered(r, t)
    \/ ~Opened(t) /\ r.todo = <<>> /\ r.pc = "ask" /\ StateIs(t, {"RUNNING"}) /\ Running(t, r.j)

Resolved(r) == r.pc \in Phases /\ r.todo = <<>>

Hands ==
    /\ \A p \in Proc \ {tick} : proc[p] = Idle
    /\ Resolved(Hand) => Hand.t = NoTask
    /\ ~Resolved(Hand) => Hand.t \in Task /\ InHand(Hand, Hand.t)

Rest == \A t \in Task : Hand.t # t => AtRest(t)

\* The rows that the tick has read in this phase are still right when their
\* turn comes.
Lists ==
    /\ Hand.pc = "recover" => Hand.left = {}
    /\ Hand.pc \in {"poll", "ask"} =>
          /\ \A x \in Hand.left :
                /\ x.id \in DOMAIN job /\ x.id[1] # Hand.t
                /\ job[x.id].status = "RUNNING" /\ x.row.status = "RUNNING"
          /\ \A x, y \in Hand.left : x.id = y.id => x = y
    /\ Hand.pc \notin {"idle", "recover", "poll", "ask"} => Hand.left \subseteq DOMAIN task

Leases ==
    /\ \A t \in DOMAIN reserved : reserved[t].fresh
    /\ \A t \in DOMAIN claims :
          /\ claims[t].base = BaseOf[t] /\ claims[t].scopes = ScopesOf[t]
          /\ claims[t].state \in W!EXPIRING_STATES => claims[t].left > 0
    /\ W!LeasesDisjoint

Results == \A j \in DOMAIN ext : ext[j].result # "NONE" => ~ext[j].alive

TickInv == Hands /\ Rest /\ Lists /\ Leases /\ Results

-----------------------------------------------------------------------------
(* What a step leaves alone                                                  *)

TaskKept(t) ==
    /\ Known(t)' <=> Known(t)
    /\ Known(t) => task'[t].state = task[t].state
    /\ Opened(t)' => Opened(t) /\ task'[ChildOf[t]].of = task[ChildOf[t]].of

JobsKept(t) ==
    \A j \in JobId : j[1] = t =>
        /\ j \in DOMAIN job' <=> j \in DOMAIN job
        /\ j \in DOMAIN job => job'[j].status = job[j].status

ReservedKept(t) == t \in DOMAIN reserved' <=> t \in DOMAIN reserved
ClaimKept(t) == W!Leased(claims', t) <=> W!Leased(claims, t)

\* An execution of t may have ended.
ExecutionsKept(t) ==
    \A j \in JobId : j[1] = t =>
        /\ Exists(j)' <=> Exists(j)
        /\ Exists(j) =>
              /\ ext'[j].known = ext[j].known
              /\ ext'[j].alive => ext[j].alive
              /\ ~ext[j].alive => ext'[j].result = ext[j].result

Untouched(t) ==
    TaskKept(t) /\ JobsKept(t) /\ ReservedKept(t) /\ ClaimKept(t) /\ ExecutionsKept(t)

LEMMA Same ==
    ASSUME NEW t \in Task
    PROVE  /\ UNCHANGED task => TaskKept(t)
           /\ UNCHANGED job => JobsKept(t)
           /\ UNCHANGED reserved => ReservedKept(t)
           /\ UNCHANGED claims => ClaimKept(t)
           /\ UNCHANGED ext => ExecutionsKept(t)
<1>1. UNCHANGED task => TaskKept(t)
  BY DEF TaskKept, Known, Opened
<1>2. UNCHANGED job => JobsKept(t)
  BY DEF JobsKept
<1>3. UNCHANGED reserved => ReservedKept(t)
  BY DEF ReservedKept
<1>4. UNCHANGED claims => ClaimKept(t)
  BY DEF ClaimKept
<1>5. UNCHANGED ext => ExecutionsKept(t)
  BY DEF ExecutionsKept, Exists
<1> QED BY <1>1, <1>2, <1>3, <1>4, <1>5

LEMMA PlacesKept ==
    ASSUME NEW t \in Task, JobsKept(t), ReservedKept(t), ClaimKept(t), ExecutionsKept(t),
           JobsOK, ExtTypeOK'
    PROVE  /\ Quiet(t) => Quiet(t)'
           /\ Unplaced(t) => Unplaced(t)'
           /\ Free(t) => Free(t)'
           /\ Holding(t) => Holding(t)'
           /\ \A j \in JobId : Only(t, j) => Only(t, j)'
           /\ \A j \in JobId : Running(t, j) => Running(t, j)'
           /\ \A j \in JobId : Starting(t, j) => Starting(t, j)'
<1>1. ASSUME NEW j \in JobId, j[1] = t
      PROVE  /\ Alive(j)' => Alive(j)
             /\ Active(j)' <=> Active(j)
             /\ j \in DOMAIN job => j \in DOMAIN job' /\ job'[j].status = job[j].status
             /\ Exists(j) /\ ext[j].known => Exists(j)' /\ ext'[j].known
  BY <1>1 DEF JobsKept, ExecutionsKept, Alive, Exists, Active
<1>2. Quiet(t) => Quiet(t)'
  BY <1>1 DEF Quiet
<1>3. Unplaced(t) => Unplaced(t)'
  BY <1>1 DEF Unplaced
<1>4. Free(t) => Free(t)'
  BY <1>3 DEF Free, ReservedKept, ClaimKept
<1>5. Holding(t) => Holding(t)'
  BY DEF Holding, ReservedKept, ClaimKept, NeedsClaim
<1>6. ASSUME NEW j \in JobId, Only(t, j) PROVE Only(t, j)'
  BY <1>1, <1>6 DEF Only
<1>7. ASSUME NEW j \in JobId, Running(t, j) PROVE Running(t, j)'
  BY <1>1, <1>5, <1>6, <1>7 DEF Running, Only
<1>8. ASSUME NEW j \in JobId, Starting(t, j) PROVE Starting(t, j)'
  BY <1>1, <1>5, <1>6, <1>8 DEF Starting, Only
<1> QED BY <1>2, <1>3, <1>4, <1>5, <1>6, <1>7, <1>8

LEMMA RestKept ==
    ASSUME NEW t \in Task, Untouched(t), JobsOK, ExtTypeOK', AtRest(t)
    PROVE  AtRest(t)'
<1>1. /\ Opened(t)' => Opened(t)
      /\ Known(t)' <=> Known(t)
      /\ \A S : StateIs(t, S) => StateIs(t, S)'
  BY DEF Untouched, TaskKept, StateIs, Known
<1>2. /\ Unplaced(t) => Unplaced(t)'
      /\ Free(t) => Free(t)'
      /\ \A j \in JobId : Running(t, j) => Running(t, j)'
      /\ t \notin DOMAIN reserved => t \notin DOMAIN reserved'
  BY PlacesKept DEF Untouched, ReservedKept
<1>3. Opened(t)' => StateIs(t, {"VERIFYING", "DONE", "FAILED"})'
  BY <1>1 DEF AtRest
<1>4. \/ ~Known(t)' /\ Free(t)'
      \/ StateIs(t, LetGo)' /\ Free(t)'
      \/ StateIs(t, {"AWAITING_MANUAL"})' /\ Unplaced(t)' /\ t \notin DOMAIN reserved'
      \/ StateIs(t, {"RUNNING"})' /\ \E j \in JobId : Running(t, j)'
  BY <1>1, <1>2 DEF AtRest
<1> QED BY <1>3, <1>4 DEF AtRest, LetGo, SCHEDULABLE

LEMMA WillBeKept ==
    ASSUME NEW P, NEW t \in Task, NEW state, TaskKept(t), WillBe(P, t, state)
    PROVE  WillBe(P, t, state)'
BY DEF WillBe, Writes, TaskKept, Known

LEMMA FinishingKept ==
    ASSUME NEW P, NEW t \in Task, Untouched(t), JobsOK, ExtTypeOK', Finishing(P, t)
    PROVE  Finishing(P, t)'
<1>1. /\ \A state : WillBe(P, t, state) => WillBe(P, t, state)'
      /\ Opened(t)' => Opened(t)
      /\ Opened(t)' => task'[ChildOf[t]].of = task[ChildOf[t]].of
  BY WillBeKept DEF Untouched, TaskKept
<1>2. Concerns(P, t)'
  BY <1>1 DEF Finishing, Concerns
<1>3. /\ Quiet(t) => Quiet(t)'
      /\ \A j \in JobId : Running(t, j) => Running(t, j)'
      /\ t \in DOMAIN reserved' => t \in DOMAIN reserved
      /\ W!Leased(claims', t) => W!Leased(claims, t)
  BY PlacesKept DEF Untouched, ReservedKept, ClaimKept
<1>4. ASSUME NEW j \in JobId, j[1] = t, Active(j)' PROVE Active(j)
  BY <1>4 DEF Active, Untouched, JobsKept
<1>5. LettingGo(P, t) => LettingGo(P, t)'
  BY <1>1, <1>3, <1>4 DEF LettingGo
<1>6. GoingOn(P, t) => GoingOn(P, t)'
  BY <1>1, <1>3 DEF GoingOn
<1> QED BY <1>2, <1>5, <1>6 DEF Finishing

LEMMA HandKept ==
    ASSUME NEW r, NEW t \in Task, Untouched(t), JobsOK, ExtTypeOK', InHand(r, t),
           r.pc \in {"ask"} \cup Submission => r.j \in JobId
    PROVE  InHand(r, t)'
<1>1. /\ ~Opened(t) => ~Opened(t)'
      /\ \A S : StateIs(t, S) => StateIs(t, S)'
  BY DEF Untouched, TaskKept, StateIs, Known
<1>2. /\ Quiet(t) => Quiet(t)'
      /\ Unplaced(t) => Unplaced(t)'
      /\ Free(t) => Free(t)'
      /\ Holding(t) => Holding(t)'
      /\ \A j \in JobId : Only(t, j) => Only(t, j)'
      /\ \A j \in JobId : Running(t, j) => Running(t, j)'
      /\ \A j \in JobId : Starting(t, j) => Starting(t, j)'
      /\ t \in DOMAIN reserved' <=> t \in DOMAIN reserved
      /\ W!Leased(claims', t) <=> W!Leased(claims, t)
  BY PlacesKept DEF Untouched, ReservedKept, ClaimKept
<1>3. Placing(r, t) => Placing(r, t)'
  BY <1>1, <1>2 DEF Placing, SCHEDULABLE
<1>4. ASSUME NEW j \in JobId, j[1] = t
      PROVE  /\ Exists(j)' <=> Exists(j)
             /\ Exists(j) /\ ext[j].known => ext'[j].known
             /\ Quiet(t) /\ Exists(j) => ext'[j].result = ext[j].result
             /\ j \in DOMAIN job => job'[j].status = job[j].status
  BY <1>4 DEF Untouched, ExecutionsKept, JobsKept, Quiet, Alive
<1>5. CASE r.pc \in Phases /\ r.todo # <<>> /\ Finishing(Range(r.todo), t)
  BY <1>5, FinishingKept DEF InHand
<1>6. CASE ~Opened(t) /\ r.todo = <<>> /\ Placing(r, t)
  BY <1>1, <1>3, <1>6 DEF InHand
<1>7. CASE /\ ~Opened(t) /\ StateIs(t, {"ROUTING", "RESERVED"}) /\ Starting(t, r.j)
           /\ Submitted(r, t)
           /\ r.todo = <<>> \/ (r.pc = "submit" /\ r.todo = <<Attempt(t, r.j, "RESERVED")>>)
  <2>1. r.j \in JobId /\ r.j[1] = t
    BY <1>7 DEF Submitted, Submission, Starting, Only
  <2>2. Submitted(r, t)'
    BY <1>2, <1>4, <1>7, <2>1 DEF Submitted
  <2> QED BY <1>1, <1>2, <1>7, <2>1, <2>2 DEF InHand
<1>8. CASE ~Opened(t) /\ StateIs(t, {"ROUTING", "RESERVED"}) /\ Answered(r, t)
  <2>1. r.j \in JobId /\ r.j[1] = t /\ r.j \in DOMAIN job
    BY <1>8 DEF Answered, Submission, Only
  <2>2. Answered(r, t)'
    BY <1>2, <1>4, <1>8, <2>1 DEF Answered
  <2> QED BY <1>1, <1>8, <2>2 DEF InHand
<1>9. CASE ~Opened(t) /\ r.todo = <<>> /\ r.pc = "ask" /\ StateIs(t, {"RUNNING"}) /\ Running(t, r.j)
  BY <1>1, <1>2, <1>9 DEF InHand
<1> QED BY <1>5, <1>6, <1>7, <1>8, <1>9 DEF InHand

-----------------------------------------------------------------------------
(* Whose turn it is                                                          *)

LEMMA TickKnown == OneTick => Ticker = {tick} /\ tick \in Proc
BY DEF OneTick, tick, Proc

LEMMA HandTyped ==
    ASSUME OneTick, ProcOK
    PROVE  Typed(Hand)
BY TickKnown DEF ProcOK, Hand

LEMMA HandPlaces ==
    ASSUME Hands
    PROVE  Hand.pc \in Phases \cup {"ask", "depend", "acquire", "route", "claim", "insert"}
                          \cup Submission
BY DEF Hands, Resolved, InHand, Placing, Submitted, Answered, Submission

LEMMA OthersIdle ==
    ASSUME OneTick, Hands, NEW p \in Proc, Run(p) \/ CommandStep(p) \/ Crash(p)
    PROVE  p = tick /\ Run(p)
<1>1. ~Crash(p)
  BY DEF Crash, OneTick
<1>2. \A t : ~Retry(p, t) /\ ~CompleteManual(p, t) /\ ~BeginResolve(p, t) /\ ~BeginCancel(p, t)
  BY DEF Retry, CompleteManual, BeginResolve, BeginCancel, Command, OneTick
<1>3. ~ResolveDispatch(p) /\ ~CancelTask(p)
  <2>1. proc[p].pc \notin {"resolve", "cancel"}
    <3>1. CASE p = tick
      BY <3>1, HandPlaces DEF Hand, Phases, Submission
    <3>2. CASE p # tick
      BY <3>2 DEF Hands, Idle
    <3> QED BY <3>1, <3>2
  <2> QED BY <2>1 DEF ResolveDispatch, CancelTask, At
<1>4. p # tick => ~Run(p)
  <2> SUFFICES ASSUME p # tick PROVE ~Run(p)
    OBVIOUS
  <2>1. proc[p].todo = <<>> /\ p \notin Ticker
    BY TickKnown DEF Hands, Idle
  <2> QED BY <2>1 DEF Run, Perform, PerformTask, PerformJob, PerformUnreserve, PerformUnclaim,
                      PerformRenew, PerformHold, PerformChild, PerformReopen, Due
<1> QED BY <1>1, <1>2, <1>3, <1>4 DEF CommandStep

LEMMA Turn ==
    ASSUME OneTick, ProcOK, Hands, NEW q,
           proc' = [proc EXCEPT ![tick] = q] \/ (UNCHANGED proc /\ q = Hand),
           \A u \in Task : q.t # u => AtRest(u)',
           Resolved(q) => q.t = NoTask,
           ~Resolved(q) => q.t \in Task /\ InHand(q, q.t)'
    PROVE  Hands' /\ Rest' /\ Hand' = q
<1>1. Hand' = q
  BY TickKnown DEF Hand, ProcOK
<1>2. \A p \in Proc \ {tick} : proc'[p] = Idle
  BY DEF Hands, ProcOK
<1>3. Rest'
  BY <1>1 DEF Rest
<1>4. Resolved(Hand)' <=> Resolved(q)
  BY <1>1 DEF Resolved
<1>5. ~Resolved(q) => InHand(Hand, Hand.t)'
  BY <1>1 DEF InHand, Placing, Submitted, Answered
<1>6. Hands'
  BY <1>1, <1>2, <1>4, <1>5, TickKnown DEF Hands, Proc
<1> QED BY <1>1, <1>3, <1>6

LEMMA LeasesKept == Leases /\ UNCHANGED <<reserved, claims>> => Leases'
BY DEF Leases, W!LeasesDisjoint

LEMMA ListsKept ==
    ASSUME Lists, NEW q, Hand' = q, q.left \subseteq Hand.left,
           q.pc = "recover" => Hand.pc = "recover",
           q.pc \in {"poll", "ask"} =>
              /\ Hand.pc \in {"poll", "ask"}
              /\ \A x \in q.left : x.id[1] # q.t /\ x.id \in DOMAIN job'
                                      /\ job'[x.id].status = job[x.id].status,
           q.pc \notin {"idle", "recover", "poll", "ask"} =>
              Hand.pc \notin {"idle", "recover", "poll", "ask"},
           DOMAIN task \subseteq DOMAIN task'
    PROVE  Lists'
<1>1. q.pc = "recover" => q.left = {}
  BY DEF Lists
<1>2. q.pc \in {"poll", "ask"} =>
          /\ \A x \in q.left :
                /\ x.id \in DOMAIN job' /\ x.id[1] # q.t
                /\ job'[x.id].status = "RUNNING" /\ x.row.status = "RUNNING"
          /\ \A x, y \in q.left : x.id = y.id => x = y
  BY DEF Lists
<1>3. q.pc \notin {"idle", "recover", "poll", "ask"} => q.left \subseteq DOMAIN task'
  BY DEF Lists
<1> QED BY <1>1, <1>2, <1>3 DEF Lists

-----------------------------------------------------------------------------
(* Agents, executions and time                                               *)

LEMMA HandKnown ==
    ASSUME Hands, ~Resolved(Hand)
    PROVE  Known(Hand.t)
BY DEF Hands, InHand, Finishing, LettingGo, GoingOn, WillBe, Placing, StateIs

LEMMA Meanwhile ==
    ASSUME OneTick, TypeInv, TypeInv', Hands, Rest, Lists, UNCHANGED proc,
           DOMAIN task \subseteq DOMAIN task',
           \A u \in Task : JobsKept(u) /\ (Untouched(u) \/ (Hand.t # u /\ AtRest(u)'))
    PROVE  Hands' /\ Rest' /\ Lists'
<1>1. PICK q : q = Hand
  OBVIOUS
<1>2. JobsOK /\ ExtTypeOK' /\ ProcOK /\ Typed(q)
  BY <1>1, TablesTyped, HandTyped DEF TypeInv
<1>3. \A u \in Task : q.t # u => AtRest(u)'
  BY <1>1, <1>2, RestKept DEF Rest
<1>4. ~Resolved(q) => q.t \in Task /\ InHand(q, q.t)'
  <2> SUFFICES ASSUME ~Resolved(q) PROVE q.t \in Task /\ InHand(q, q.t)'
    OBVIOUS
  <2>1. q.t \in Task /\ InHand(q, q.t)
    BY <1>1 DEF Hands
  <2>2. Untouched(q.t)
    BY <1>1, <2>1
  <2>3. q.pc \in {"ask"} \cup Submission => q.j \in JobId
    BY <1>2 DEF Typed, Submission
  <2> QED BY <1>2, <2>1, <2>2, <2>3, HandKept
<1>5. Hands' /\ Rest' /\ Hand' = q
  BY <1>1, <1>2, <1>3, <1>4, Turn DEF Hands
<1>6. ASSUME q.pc \in {"poll", "ask"}, NEW x \in q.left
      PROVE  /\ x.id[1] # q.t /\ x.id \in DOMAIN job'
             /\ job'[x.id].status = job[x.id].status
  <2>1. x.id \in DOMAIN job /\ x.id[1] # q.t /\ job[x.id].status = "RUNNING"
    BY <1>1, <1>6 DEF Lists
  <2>2. x.id \in JobId /\ x.id[1] \in Task
    BY <1>2, <2>1, LedgerAssumption DEF JobsOK
  <2>3. PICK u \in Task : u = x.id[1]
    BY <2>2
  <2> QED BY <2>1, <2>2, <2>3 DEF JobsKept
<1> QED BY <1>1, <1>5, <1>6, ListsKept

LEMMA NoGrandchild ==
    ASSUME NEW t \in Task, ChildOf[t] # NoTask
    PROVE  ChildOf[t] \in Task \ {t} /\ ChildOf[ChildOf[t]] = NoTask
BY LedgerAssumption, VerificationAssumption

LEMMA NoTaskUnknown == (TasksOK => ~Known(NoTask)) /\ (TasksOK' => ~Known(NoTask)')
BY LedgerAssumption DEF TasksOK, Known

LEMMA SubmitKeeps ==
    ASSUME OneTick, TypeInv, TypeInv', TickInv, NEW t \in Task, SubmitTask(t)
    PROVE  TickInv'
<1>1. /\ ~Known(t) /\ ~IsVerification(t) /\ task' = With(task, t, NewTask(NoJob))
      /\ UNCHANGED job /\ UNCHANGED reserved /\ UNCHANGED claims /\ UNCHANGED ext
      /\ UNCHANGED proc
  BY DEF SubmitTask
<1>2. TasksOK /\ TasksOK' /\ JobsOK /\ ExtTypeOK'
  BY TablesTyped DEF TypeInv
<1>3. /\ DOMAIN task' = DOMAIN task \cup {t} /\ task'[t].state = "QUEUED"
      /\ \A u \in DOMAIN task : task'[u] = task[u]
  BY <1>1 DEF With, NewTask, TasksOK, Known
<1>4. ASSUME NEW u \in Task \ {t} PROVE Untouched(u)
  <2>1. ChildOf[u] # t
    BY <1>1 DEF IsVerification
  <2>2. Opened(u)' => Opened(u) /\ task'[ChildOf[u]] = task[ChildOf[u]]
    BY <1>2, <1>3, <2>1 DEF Opened, Known, TasksOK
  <2>3. TaskKept(u)
    BY <1>3, <2>2 DEF TaskKept, Known
  <2> QED BY <1>1, <2>3, Same DEF Untouched
<1>5. Hand.t # t /\ AtRest(t)
  BY <1>1, HandKnown, LedgerAssumption DEF TickInv, Hands, Rest
<1>6. AtRest(t)'
  <2>1. ~Opened(t) /\ Free(t)
    BY <1>1, <1>5 DEF AtRest, StateIs
  <2>2. ~Opened(t)'
    <3>1. ChildOf[t] # t
      BY NoGrandchild, LedgerAssumption
    <3> QED BY <1>3, <2>1, <3>1 DEF Opened, Known
  <2>3. Free(t)'
    BY <1>1, <1>2, <2>1, Same, PlacesKept
  <2> QED BY <1>3, <2>2, <2>3 DEF AtRest, StateIs, Known, LetGo, SCHEDULABLE
<1>7. \A u \in Task : JobsKept(u)
  BY <1>1, Same
<1>8. Hands' /\ Rest' /\ Lists'
  BY <1>3, <1>1, <1>4, <1>5, <1>6, <1>7, Meanwhile DEF TickInv
<1> QED BY <1>1, <1>8, LeasesKept DEF TickInv, Results

LEMMA ExecutionKeeps ==
    ASSUME OneTick, TypeInv, TypeInv', TickInv, NEW j \in JobId,
           ExecutionEnds(j) \/ ExecutionVanishes(j)
    PROVE  TickInv'
<1>1. /\ UNCHANGED task /\ UNCHANGED job /\ UNCHANGED reserved /\ UNCHANGED claims
      /\ UNCHANGED proc
      /\ Alive(j)
  BY DEF ExecutionEnds, ExecutionVanishes, Finish, Vanish
<1>2. PICK r : ext' = [ext EXCEPT ![j].alive = FALSE, ![j].result = r]
               \/ ext' = [ext EXCEPT ![j].alive = FALSE]
  BY DEF ExecutionEnds, ExecutionVanishes, Finish, Vanish
<1>3. ExtTypeOK /\ ext[j] \in Execution
  BY <1>1, TablesTyped DEF TypeInv, Alive, Exists, ExtTypeOK
<1>4. /\ DOMAIN ext' = DOMAIN ext /\ ~ext'[j].alive /\ ext'[j].known = ext[j].known
      /\ \A i \in DOMAIN ext \ {j} : ext'[i] = ext[i]
  BY <1>1, <1>2, <1>3 DEF Execution, Alive, Exists, ExtTypeOK
<1>5. ASSUME NEW u \in Task PROVE ExecutionsKept(u)
  BY <1>1, <1>4 DEF ExecutionsKept, Exists, Alive
<1>6. \A u \in Task : Untouched(u) /\ JobsKept(u)
  BY <1>1, <1>5, Same DEF Untouched
<1>7. Hands' /\ Rest' /\ Lists'
  BY <1>1, <1>6, Meanwhile DEF TickInv
<1>8. Results'
  BY <1>4 DEF TickInv, Results
<1> QED BY <1>1, <1>7, <1>8, LeasesKept DEF TickInv

LEMMA TimeKeeps ==
    ASSUME OneTick, TypeInv, TypeInv', TickInv, TwoMinutes
    PROVE  TickInv'
<1>1. /\ UNCHANGED reserved /\ UNCHANGED claims /\ UNCHANGED ext /\ UNCHANGED proc
      /\ task' = [t \in DOMAIN task |->
          [task[t] EXCEPT !.old = @ \/ (task[t].state = "ROUTING" /\ Ages(t))]]
      /\ job' = [j \in DOMAIN job |->
          [job[j] EXCEPT !.old = @ \/ (job[j].status = "SUBMITTING" /\ Ages(j[1]))]]
  BY DEF TwoMinutes
<1>2. TasksOK /\ JobsOK
  BY TablesTyped DEF TypeInv
<1>3. /\ DOMAIN task' = DOMAIN task
      /\ \A t \in DOMAIN task : task'[t].state = task[t].state /\ task'[t].of = task[t].of
  BY <1>1, <1>2 DEF TasksOK, TaskRow
<1>4. DOMAIN job' = DOMAIN job /\ \A j \in DOMAIN job : job'[j].status = job[j].status
  BY <1>1, <1>2 DEF JobsOK, JobRow
<1>5. ASSUME NEW u \in Task PROVE TaskKept(u) /\ JobsKept(u)
  BY <1>3, <1>4 DEF TaskKept, JobsKept, Known, Opened
<1>6. \A u \in Task : Untouched(u) /\ JobsKept(u)
  BY <1>1, <1>5, Same DEF Untouched
<1>7. Hands' /\ Rest' /\ Lists'
  BY <1>1, <1>3, <1>6, Meanwhile DEF TickInv
<1> QED BY <1>1, <1>7, LeasesKept DEF TickInv, Results

LEMMA EnvironmentKeeps ==
    ASSUME OneTick, TypeInv, TypeInv', TickInv, Environment
    PROVE  TickInv'
<1>1. ~Outage /\ \A j \in JobId : ~ExecutionForgotten(j)
  BY DEF Outage, ExecutionForgotten, OneTick
<1> QED BY <1>1, SubmitKeeps, ExecutionKeeps, TimeKeeps DEF Environment

-----------------------------------------------------------------------------
(* Steps of the tick                                                         *)

\* A step on the task t in hand: the tick goes on with it, or is through.
LEMMA Onward ==
    ASSUME OneTick, TypeInv, TypeInv', Hands, Rest, Lists,
           NEW q, proc' = [proc EXCEPT ![tick] = q], q.left = Hand.left,
           \/ q.pc = Hand.pc
           \/ q.pc = "poll" /\ Hand.pc = "ask"
           \/ {q.pc, Hand.pc} \cap {"idle", "recover", "poll", "ask"} = {},
           NEW t \in Task, Hand.t = t,
           DOMAIN task \subseteq DOMAIN task',
           \A u \in Task \ {t} : JobsKept(u) /\ (Untouched(u) \/ AtRest(u)'),
           Resolved(q) => q.t = NoTask /\ AtRest(t)',
           ~Resolved(q) => q.t = t /\ InHand(q, t)'
    PROVE  Hands' /\ Rest' /\ Lists'
<1>1. ProcOK /\ Typed(Hand) /\ JobsOK /\ ExtTypeOK'
  BY HandTyped, TablesTyped DEF TypeInv
<1>2. \A u \in Task \ {t} : AtRest(u)'
  BY <1>1, RestKept DEF Rest
<1>3. Hands' /\ Rest' /\ Hand' = q
  BY <1>1, <1>2, Turn, LedgerAssumption
<1>4. ASSUME q.pc \in {"poll", "ask"}, NEW x \in q.left
      PROVE  /\ x.id[1] # q.t /\ x.id \in DOMAIN job'
             /\ job'[x.id].status = job[x.id].status
  <2>1. x.id \in DOMAIN job /\ x.id[1] # t /\ job[x.id].status = "RUNNING"
    BY <1>4 DEF Lists
  <2>2. x.id \in JobId /\ x.id[1] \in Task
    BY <1>1, <2>1, LedgerAssumption DEF JobsOK
  <2>3. PICK u \in Task \ {t} : u = x.id[1]
    BY <2>1, <2>2
  <2>4. q.t \in {t, NoTask}
    OBVIOUS
  <2> QED BY <2>1, <2>2, <2>3, <2>4, LedgerAssumption DEF JobsKept
<1> QED BY <1>3, <1>4, ListsKept

\* A step that reads only.
LEMMA Reads ==
    ASSUME OneTick, TypeInv, TypeInv', TickInv, ReadOnly,
           NEW q, proc' = [proc EXCEPT ![tick] = q],
           \A u \in Task : q.t # u => AtRest(u),
           Resolved(q) => q.t = NoTask,
           ~Resolved(q) => q.t \in Task /\ InHand(q, q.t)
    PROVE  Hands' /\ Rest' /\ Leases' /\ Results' /\ Hand' = q
<1>1. /\ UNCHANGED task /\ UNCHANGED job /\ UNCHANGED reserved /\ UNCHANGED claims
      /\ UNCHANGED ext
  BY DEF ReadOnly
<1>2. ProcOK /\ ProcOK' /\ JobsOK /\ ExtTypeOK'
  BY TablesTyped DEF TypeInv
<1>3. \A u \in Task : Untouched(u)
  BY <1>1, Same DEF Untouched
<1>4. Typed(q)
  <2>1. proc'[tick] = q
    BY <1>2, TickKnown DEF ProcOK
  <2> QED BY <1>2, <2>1, TickKnown DEF ProcOK, Typed
<1>5. q.pc \in {"ask"} \cup Submission => q.j \in JobId
  BY <1>4 DEF Typed
<1>6. ~Resolved(q) => q.t \in Task /\ InHand(q, q.t)'
  BY <1>2, <1>3, <1>5, HandKept
<1>7. \A u \in Task : q.t # u => AtRest(u)'
  BY <1>2, <1>3, RestKept
<1>8. Hands' /\ Rest' /\ Hand' = q
  BY <1>2, <1>6, <1>7, Turn DEF TickInv
<1> QED BY <1>1, <1>8, LeasesKept DEF TickInv, Results

LEMMA AllRest ==
    ASSUME Hands, Rest, Resolved(Hand), NEW t \in Task
    PROVE  AtRest(t) /\ Hand.t = NoTask
BY LedgerAssumption DEF Hands, Rest

\* What is active at rest is running, and polled.
LEMMA ActiveRuns ==
    ASSUME TypeInv, NEW j \in JobId, Active(j), AtRest(j[1])
    PROVE  Running(j[1], j) /\ StateIs(j[1], {"RUNNING"}) /\ ~Opened(j[1])
BY DEF AtRest, Free, Unplaced, Running, Only, StateIs

LEMMA ScanKeeps ==
    ASSUME OneTick, TypeInv, TypeInv', TickInv,
           StartTick(tick) \/ ListJobs(tick) \/ ListCandidates(tick) \/ EndTick(tick)
    PROVE  TickInv'
<1>1. /\ Resolved(Hand) /\ ReadOnly
      /\ TasksOK /\ JobsOK /\ TasksOK' /\ JobsOK'
  BY TablesTyped DEF StartTick, ListJobs, ListCandidates, EndTick, At, Resolved, Hand, Phases, TypeInv
<1>2. Hand.t = NoTask /\ \A u \in Task : AtRest(u)
  BY <1>1, AllRest DEF TickInv, Hands
<1>3. UNCHANGED task /\ UNCHANGED job
  BY <1>1 DEF ReadOnly
<1>4. ASSUME NEW q, proc' = [proc EXCEPT ![tick] = q], q.t = NoTask, q.pc \in Phases, q.todo = <<>>
      PROVE  Hands' /\ Rest' /\ Leases' /\ Results' /\ Hand' = q
  BY <1>1, <1>2, <1>4, Reads DEF Resolved
<1>5. Hand.t = NoTask /\ Hand.todo = <<>>
  BY <1>1, <1>2 DEF Resolved
<1>6. CASE StartTick(tick)
  <2> DEFINE found == {t \in DOMAIN task : task[t].state = "ROUTING" /\ task[t].old}
  <2>1. PICK q : q = After(tick, "recover", [left |-> found])
    OBVIOUS
  <2>2. proc' = [proc EXCEPT ![tick] = q]
    BY <1>6, <2>1, GotoAfter, TickKnown DEF StartTick
  <2>3. q.pc = "recover" /\ q.t = NoTask /\ q.todo = <<>> /\ q.left = found
    BY <1>5, <2>1 DEF After, Field, Hand
  <2>4. found = {}
    BY <1>1, <1>2 DEF AtRest, StateIs, LetGo, SCHEDULABLE, TasksOK, Known
  <2>5. Hands' /\ Rest' /\ Leases' /\ Results' /\ Hand' = q
    BY <1>4, <2>2, <2>3 DEF Phases
  <2> QED BY <2>3, <2>4, <2>5 DEF TickInv, Lists
<1>7. CASE ListJobs(tick)
  <2> DEFINE found == {[id |-> j, row |-> job[j]] :
                          j \in {i \in DOMAIN job : job[i].status \in ACTIVE_JOB_STATES}}
  <2>1. PICK q : q = After(tick, "poll", [left |-> found])
    OBVIOUS
  <2>2. proc' = [proc EXCEPT ![tick] = q]
    BY <1>7, <2>1, GotoAfter, TickKnown DEF ListJobs
  <2>3. q.pc = "poll" /\ q.t = NoTask /\ q.todo = <<>> /\ q.left = found
    BY <1>5, <2>1 DEF After, Field, Hand
  <2>4. ASSUME NEW x \in found
        PROVE  /\ x.id \in DOMAIN job /\ x.id[1] \in Task /\ x.row = job[x.id]
               /\ job[x.id].status = "RUNNING"
    <3>1. PICK j \in DOMAIN job : job[j].status \in ACTIVE_JOB_STATES /\ x = [id |-> j, row |-> job[j]]
      OBVIOUS
    <3>2. j \in JobId /\ j[1] \in Task /\ Active(j)
      BY <1>1, <3>1, LedgerAssumption DEF JobsOK, Active
    <3>3. Running(j[1], j)
      BY <1>2, <3>2, ActiveRuns
    <3> QED BY <3>1, <3>2, <3>3 DEF Running
  <2>5. Hands' /\ Rest' /\ Leases' /\ Results' /\ Hand' = q
    BY <1>4, <2>2, <2>3 DEF Phases
  <2>6. \A x, y \in found : x.id = y.id => x = y
    OBVIOUS
  <2> HIDE DEF found
  <2>7. Lists'
    BY <1>3, <2>3, <2>4, <2>5, <2>6, LedgerAssumption DEF Lists
  <2> QED BY <2>5, <2>7 DEF TickInv
<1>8. CASE ListCandidates(tick)
  <2> DEFINE found == {t \in DOMAIN task : task[t].state \in SCHEDULABLE}
  <2>1. PICK q : q = After(tick, "dispatch", [left |-> found])
    OBVIOUS
  <2>2. proc' = [proc EXCEPT ![tick] = q]
    BY <1>8, <2>1, GotoAfter, TickKnown DEF ListCandidates
  <2>3. q.pc = "dispatch" /\ q.t = NoTask /\ q.todo = <<>> /\ q.left \subseteq DOMAIN task
    BY <1>5, <2>1 DEF After, Field, Hand
  <2>4. Hands' /\ Rest' /\ Leases' /\ Results' /\ Hand' = q
    BY <1>4, <2>2, <2>3 DEF Phases
  <2> QED BY <1>3, <2>3, <2>4 DEF TickInv, Lists
<1>9. CASE EndTick(tick)
  <2>1. PICK q : q = Idle
    OBVIOUS
  <2>2. proc' = [proc EXCEPT ![tick] = q]
    BY <1>9, <2>1 DEF EndTick, Exit
  <2>3. q.pc = "idle" /\ q.t = NoTask /\ q.todo = <<>>
    BY <2>1 DEF Idle
  <2>4. Hands' /\ Rest' /\ Leases' /\ Results' /\ Hand' = q
    BY <1>4, <2>2, <2>3 DEF Phases
  <2> QED BY <2>3, <2>4 DEF TickInv, Lists
<1> QED BY <1>6, <1>7, <1>8, <1>9

LEMMA NothingToRecover ==
    ASSUME TickInv, RecoverRouting(tick)
    PROVE  FALSE
<1>1. PICK t : t \in Hand.left
  BY DEF RecoverRouting, Hand
<1>2. Hand.pc = "recover"
  BY DEF RecoverRouting, At, Hand
<1> QED BY <1>1, <1>2 DEF TickInv, Lists

LEMMA TakePoll ==
    ASSUME OneTick, TypeInv, TypeInv', TickInv, PollJob(tick)
    PROVE  TickInv'
<1>1. /\ Resolved(Hand) /\ ReadOnly /\ Hand.pc = "poll"
      /\ TasksOK /\ JobsOK
  BY TablesTyped DEF PollJob, At, Resolved, Hand, Phases, TypeInv
<1>2. Hand.t = NoTask /\ Hand.todo = <<>> /\ \A u \in Task : AtRest(u)
  BY <1>1, AllRest DEF TickInv, Hands, Resolved
<1>3. PICK x \in Hand.left :
        \/ Goto(tick, "poll", [left |-> Hand.left \ {x}])
        \/ /\ x.row.status # "SUBMITTING"
           /\ Goto(tick, "ask", [left |-> Hand.left \ {x}, t |-> x.id[1], j |-> x.id,
                                 row |-> task[x.id[1]], jrow |-> x.row])
  BY <1>1 DEF PollJob, Hand, TickInv, Lists
<1>4. /\ x.id \in DOMAIN job /\ x.id \in JobId /\ x.id[1] \in Task
      /\ job[x.id].status = "RUNNING"
      /\ \A y \in Hand.left : y.id \in JobId /\ y.id \in DOMAIN job /\ job[y.id].status = "RUNNING"
  BY <1>1, LedgerAssumption DEF TickInv, Lists, JobsOK
<1>5. UNCHANGED task /\ UNCHANGED job
  BY <1>1 DEF ReadOnly
<1>6. CASE Goto(tick, "poll", [left |-> Hand.left \ {x}])
  <2>1. PICK q : q = After(tick, "poll", [left |-> Hand.left \ {x}])
    OBVIOUS
  <2>2. proc' = [proc EXCEPT ![tick] = q]
    BY <1>6, <2>1, GotoAfter, TickKnown
  <2>3. q.pc = "poll" /\ q.t = NoTask /\ q.todo = <<>> /\ q.left = Hand.left \ {x}
    BY <1>2, <2>1 DEF After, Field, Hand
  <2>4. Hands' /\ Rest' /\ Leases' /\ Results' /\ Hand' = q
    BY <1>1, <1>2, <2>2, <2>3, Reads DEF Resolved, Phases
  <2>5. Lists'
    BY <1>1, <1>2, <1>5, <2>3, <2>4 DEF TickInv, Lists
  <2> QED BY <2>4, <2>5 DEF TickInv
<1>7. CASE Goto(tick, "ask", [left |-> Hand.left \ {x}, t |-> x.id[1], j |-> x.id,
                              row |-> task[x.id[1]], jrow |-> x.row])
  <2>1. PICK q : q = After(tick, "ask", [left |-> Hand.left \ {x}, t |-> x.id[1], j |-> x.id,
                                         row |-> task[x.id[1]], jrow |-> x.row])
    OBVIOUS
  <2>2. proc' = [proc EXCEPT ![tick] = q]
    BY <1>7, <2>1, GotoAfter, TickKnown
  <2>3. /\ q.pc = "ask" /\ q.t = x.id[1] /\ q.j = x.id /\ q.todo = <<>>
        /\ q.left = Hand.left \ {x}
    BY <1>2, <2>1 DEF After, Field, Hand
  <2>4. Active(x.id)
    BY <1>4 DEF Active, ACTIVE_JOB_STATES
  <2>5. Running(q.t, q.j) /\ StateIs(q.t, {"RUNNING"}) /\ ~Opened(q.t)
    BY <1>2, <1>4, <2>3, <2>4, ActiveRuns
  <2>6. InHand(q, q.t) /\ q.t \in Task /\ ~Resolved(q)
    BY <1>4, <2>3, <2>5 DEF InHand, Resolved, Phases
  <2>7. Hands' /\ Rest' /\ Leases' /\ Results' /\ Hand' = q
    BY <1>1, <1>2, <2>2, <2>6, Reads
  <2>8. ASSUME NEW y \in q.left PROVE y.id[1] # q.t
    <3>1. Active(y.id) /\ y.id \in JobId /\ y # x
      BY <1>4, <2>3, <2>8 DEF Active, ACTIVE_JOB_STATES
    <3>2. y.id[1] = q.t => y.id = q.j
      BY <2>5, <3>1 DEF Running, Only
    <3>3. y.id # x.id
      BY <1>1, <2>3, <3>1 DEF TickInv, Lists
    <3> QED BY <2>3, <3>2, <3>3
  <2>9. Lists'
    BY <1>1, <1>5, <2>3, <2>7, <2>8 DEF TickInv, Lists
  <2> QED BY <2>7, <2>9 DEF TickInv
<1> QED BY <1>3, <1>6, <1>7

LEMMA TakeUp ==
    ASSUME OneTick, TypeInv, TypeInv', TickInv, BeginDispatch(tick)
    PROVE  TickInv'
<1>1. /\ Resolved(Hand) /\ ReadOnly /\ Hand.pc = "dispatch"
      /\ TasksOK
  BY TablesTyped DEF BeginDispatch, At, Resolved, Hand, Phases, TypeInv
<1>2. Hand.t = NoTask /\ Hand.todo = <<>> /\ \A u \in Task : AtRest(u)
  BY <1>1, AllRest DEF TickInv, Hands, Resolved
<1>3. PICK t \in Hand.left :
        \/ Goto(tick, "dispatch", [left |-> Hand.left \ {t}])
        \/ /\ task[t].state \in SCHEDULABLE
           /\ Goto(tick, "depend", [left |-> Hand.left \ {t}, t |-> t, row |-> task[t]])
  BY DEF BeginDispatch, Hand
<1>4. t \in DOMAIN task /\ t \in Task /\ Hand.left \subseteq DOMAIN task
  BY <1>1 DEF TickInv, Lists, TasksOK
<1>5. UNCHANGED task
  BY <1>1 DEF ReadOnly
<1>6. CASE Goto(tick, "dispatch", [left |-> Hand.left \ {t}])
  <2>1. PICK q : q = After(tick, "dispatch", [left |-> Hand.left \ {t}])
    OBVIOUS
  <2>2. proc' = [proc EXCEPT ![tick] = q]
    BY <1>6, <2>1, GotoAfter, TickKnown
  <2>3. q.pc = "dispatch" /\ q.t = NoTask /\ q.todo = <<>> /\ q.left = Hand.left \ {t}
    BY <1>2, <2>1 DEF After, Field, Hand
  <2>4. Hands' /\ Rest' /\ Leases' /\ Results' /\ Hand' = q
    BY <1>1, <1>2, <2>2, <2>3, Reads DEF Resolved, Phases
  <2> QED BY <1>4, <1>5, <2>3, <2>4 DEF TickInv, Lists
<1>7. CASE /\ task[t].state \in SCHEDULABLE
           /\ Goto(tick, "depend", [left |-> Hand.left \ {t}, t |-> t, row |-> task[t]])
  <2>1. PICK q : q = After(tick, "depend", [left |-> Hand.left \ {t}, t |-> t, row |-> task[t]])
    OBVIOUS
  <2>2. proc' = [proc EXCEPT ![tick] = q]
    BY <1>7, <2>1, GotoAfter, TickKnown
  <2>3. q.pc = "depend" /\ q.t = t /\ q.todo = <<>> /\ q.left = Hand.left \ {t}
    BY <1>2, <2>1 DEF After, Field, Hand
  <2>4. StateIs(t, SCHEDULABLE) /\ Free(t) /\ ~Opened(t)
    BY <1>2, <1>4, <1>7 DEF AtRest, StateIs, Known, SCHEDULABLE
  <2>5. InHand(q, q.t) /\ ~Resolved(q)
    BY <2>3, <2>4 DEF InHand, Placing, Resolved, Phases
  <2>6. Hands' /\ Rest' /\ Leases' /\ Results' /\ Hand' = q
    BY <1>1, <1>2, <1>4, <2>2, <2>3, <2>5, Reads
  <2> QED BY <1>4, <1>5, <2>3, <2>6 DEF TickInv, Lists
<1> QED BY <1>3, <1>6, <1>7

-----------------------------------------------------------------------------
(* The writes that are due                                                   *)

LEMMA Popped ==
    ASSUME NEW s \in Seq(Write), s # <<>>
    PROVE  /\ Head(s) \in Range(s)
           /\ Range(Tail(s)) \subseteq Range(s)
           /\ Range(s) \subseteq Range(Tail(s)) \cup {Head(s)}
           /\ Tail(s) = <<>> => Range(Tail(s)) = {}
<1>1. Len(s) \in Nat \ {0} /\ DOMAIN s = 1..Len(s) /\ Head(s) = s[1]
  OBVIOUS
<1>2. DOMAIN Tail(s) = 1..(Len(s) - 1) /\ \A i \in DOMAIN Tail(s) : Tail(s)[i] = s[i + 1]
  OBVIOUS
<1>3. ASSUME NEW x \in Range(s), x # Head(s) PROVE x \in Range(Tail(s))
  <2>1. PICK i \in 1..Len(s) : x = s[i]
    BY <1>1 DEF Range
  <2>2. i # 1 /\ i - 1 \in 1..(Len(s) - 1) /\ (i - 1) + 1 = i
    BY <1>1, <1>3, <2>1
  <2> QED BY <1>2, <2>1, <2>2 DEF Range
<1>4. ASSUME NEW x \in Range(Tail(s)) PROVE x \in Range(s)
  <2>1. PICK i \in 1..(Len(s) - 1) : x = s[i + 1]
    BY <1>2 DEF Range
  <2>2. i + 1 \in 1..Len(s)
    BY <1>1
  <2> QED BY <1>1, <2>1, <2>2 DEF Range
<1>5. Tail(s) = <<>> => Range(Tail(s)) = {}
  BY DEF Range
<1> QED BY <1>1, <1>3, <1>4, <1>5 DEF Range

LEMMA WillBeAfter ==
    ASSUME NEW t \in Task, NEW P, NEW Q, NEW e,
           Q \subseteq P, P \subseteq Q \cup {e}, e \in P,
           NEW state, WillBe(P, t, state), Known(t)',
           IF e.op = "task" /\ e.id = t THEN task'[t].state = e.to
           ELSE task'[t].state = task[t].state
    PROVE  WillBe(Q, t, state)'
<1>1. Writes(Q, t) \subseteq Writes(P, t)
  BY DEF Writes
<1>2. CASE e.op = "task" /\ e.id = t
  <2>1. e \in Writes(P, t)
    BY <1>2 DEF Writes
  <2> QED BY <1>1, <1>2, <2>1 DEF WillBe, Writes
<1>3. CASE ~(e.op = "task" /\ e.id = t)
  <2>1. Writes(P, t) \subseteq Writes(Q, t)
    BY <1>3 DEF Writes
  <2> QED BY <1>1, <1>3, <2>1 DEF WillBe, Writes
<1> QED BY <1>2, <1>3

\* The write e, the first of those in P, has been performed; Q is the rest.
LEMMA FinishingAfter ==
    ASSUME NEW t \in Task, NEW P, NEW Q, NEW e,
           Q \subseteq P, P \subseteq Q \cup {e}, e \in P,
           Finishing(P, t), UNCHANGED ext, Known(t)',
           IF e.op = "task" /\ e.id = t THEN task'[t].state = e.to
           ELSE task'[t].state = task[t].state,
           Opened(t)' =>
              IF e.op = "child" THEN task'[ChildOf[t]].of = e.of
              ELSE Opened(t) /\ task'[ChildOf[t]].of = task[ChildOf[t]].of,
           t \in DOMAIN reserved' => t \in DOMAIN reserved /\ e.op # "unreserve",
           LettingGo(P, t) =>
              /\ \A j \in JobId : j[1] = t /\ Active(j)' =>
                    Active(j) /\ ~(e.op = "job" /\ e.id = j)
              /\ W!Leased(claims', t) => W!Leased(claims, t) /\ e.op # "unclaim",
           GoingOn(P, t) =>
              \A j \in JobId :
                 Running(t, j) /\ (e.op = "job" => e.to = "RUNNING" /\ e.id = j) => Running(t, j)'
    PROVE  Finishing(Q, t)'
<1>1. \A state : WillBe(P, t, state) => WillBe(Q, t, state)'
  BY WillBeAfter
<1>2. Concerns(Q, t)'
  <2>1. Concerns(P, t)
    BY DEF Finishing
  <2>2. Opened(t)' => WillBe(Q, t, "VERIFYING")'
    BY <1>1, <2>1 DEF Concerns
  <2>3. ASSUME NEW f \in Q, f.op = "child"
        PROVE  /\ f.id = ChildOf[t] /\ WillBe(Q, t, "VERIFYING")'
               /\ Opened(t)' => task'[f.id].of = f.of
               /\ \A g \in Q : g.op = "child" => g = f
    BY <1>1, <2>1, <2>3 DEF Concerns
  <2> QED BY <2>1, <2>2, <2>3 DEF Concerns
<1>3. ASSUME LettingGo(P, t) PROVE LettingGo(Q, t)'
  <2>1. Quiet(t)'
    BY <1>3 DEF LettingGo, Quiet, Alive, Exists
  <2>2. t \in DOMAIN reserved' => \E f \in Q : f.op = "unreserve"
    BY <1>3 DEF LettingGo
  <2>3. \A j \in JobId : j[1] = t /\ Active(j)' => \E f \in Q : f.op = "job" /\ f.id = j
    BY <1>3 DEF LettingGo
  <2>4. \A f \in Q : (f.op = "job" => f.to \notin ACTIVE_JOB_STATES) /\ f.op \notin {"renew", "hold"}
    BY <1>3 DEF LettingGo
  <2>5. \E state \in LetGo \cup {"AWAITING_MANUAL"} :
          /\ WillBe(Q, t, state)'
          /\ W!Leased(claims', t) /\ state # "AWAITING_MANUAL" =>
                \E f \in Q : f.op = "unclaim"
    BY <1>1, <1>3 DEF LettingGo
  <2> QED BY <2>1, <2>2, <2>3, <2>4, <2>5 DEF LettingGo, LetGo, SCHEDULABLE, ACTIVE_JOB_STATES
<1>4. ASSUME GoingOn(P, t) PROVE GoingOn(Q, t)'
  BY <1>1, <1>4 DEF GoingOn
<1> QED BY <1>2, <1>3, <1>4 DEF Finishing

LEMMA Finished ==
    ASSUME NEW t \in Task, Finishing({}, t)'
    PROVE  AtRest(t)'
<1>1. \A state : WillBe({}, t, state)' => StateIs(t, {state})' /\ Known(t)'
  BY DEF WillBe, Writes, StateIs
<1>2. Opened(t)' => StateIs(t, {"VERIFYING", "DONE", "FAILED"})'
  BY <1>1 DEF Finishing, Concerns, StateIs
<1>3. CASE LettingGo({}, t)'
  BY <1>1, <1>2, <1>3 DEF LettingGo, AtRest, Free, Unplaced, Quiet, StateIs
<1>4. CASE GoingOn({}, t)'
  BY <1>1, <1>2, <1>4 DEF GoingOn, AtRest
<1> QED BY <1>3, <1>4 DEF Finishing

LEMMA TaskUpdate ==
    ASSUME TasksOK, NEW e, e = Step(tick), PerformTask(tick)
    PROVE  /\ DOMAIN task' = DOMAIN task
           /\ \A u \in DOMAIN task \ {e.id} : task'[u] = task[u]
           /\ Known(e.id) => task'[e.id].state = e.to /\ task'[e.id].of = task[e.id].of
<1>1. CASE ~Known(e.id)
  BY <1>1 DEF PerformTask, Known
<1>2. CASE Known(e.id)
  <2>1. PICK row : row = task[e.id] /\ row \in TaskRow
    BY <1>2 DEF TasksOK, Known
  <2>2. PICK attempts : attempts = task[e.id].attempts + e.bump
    OBVIOUS
  <2>3. PICK j : j = IF e.job = KeepJob THEN task[e.id].job ELSE e.job
    OBVIOUS
  <2>4. PICK unknown : unknown = IF e.error = "keep" THEN task[e.id].unknown
                                 ELSE e.error = "unknown"
    OBVIOUS
  <2>5. task' = [task EXCEPT ![e.id] = [row EXCEPT
                   !.state = e.to, !.old = FALSE, !.attempts = attempts, !.job = j,
                   !.unknown = unknown]]
    BY <1>2, <2>1, <2>2, <2>3, <2>4 DEF PerformTask
  <2> QED BY <1>2, <2>1, <2>5 DEF TaskRow, TasksOK, Known
<1> QED BY <1>1, <1>2

LEMMA TaskWritten ==
    ASSUME TypeInv, TypeInv', NEW t \in Task, NEW P, NEW Q, NEW e, e = Step(tick),
           Q \subseteq P, P \subseteq Q \cup {e}, e \in P,
           Finishing(P, t), \A u \in Task \ {t} : AtRest(u), PerformTask(tick)
    PROVE  /\ Finishing(Q, t)'
           /\ \A u \in Task \ {t} : JobsKept(u) /\ (Untouched(u) \/ AtRest(u)')
<1>1. /\ UNCHANGED job /\ UNCHANGED reserved /\ UNCHANGED claims /\ UNCHANGED ext
      /\ e.op = "task"
  BY DEF PerformTask, Due, Step
<1>2. TasksOK /\ JobsOK /\ ExtTypeOK'
  BY TablesTyped DEF TypeInv
<1>3. /\ DOMAIN task' = DOMAIN task
      /\ \A u \in DOMAIN task \ {e.id} : task'[u] = task[u]
      /\ Known(e.id) => task'[e.id].state = e.to /\ task'[e.id].of = task[e.id].of
  BY <1>2, TaskUpdate
<1>4. Known(t) /\ Concerns(P, t)
  BY DEF Finishing, LettingGo, GoingOn, WillBe
<1>5. Finishing(Q, t)'
  <2>1. Known(t)' /\ (Opened(t)' <=> Opened(t))
    BY <1>3, <1>4 DEF Known, Opened
  <2>2. IF e.id = t THEN task'[t].state = e.to ELSE task'[t].state = task[t].state
    BY <1>3, <1>4 DEF Known
  <2>3. Opened(t) => task'[ChildOf[t]].of = task[ChildOf[t]].of
    BY <1>3 DEF Opened, Known
  <2>4. \A j \in JobId : Active(j)' <=> Active(j)
    BY <1>1 DEF Active
  <2>5. \A j \in JobId : Running(t, j) => Running(t, j)'
    BY <1>1, <1>2, Same, PlacesKept
  <2> QED BY <1>1, <2>1, <2>2, <2>3, <2>4, <2>5, FinishingAfter
<1>6. ASSUME NEW u \in Task \ {t}, u # e.id PROVE Untouched(u)
  <2>1. TaskKept(u)
    BY <1>3, <1>6 DEF TaskKept, Known, Opened
  <2> QED BY <1>1, <2>1, Same DEF Untouched
<1>7. ASSUME e.id \in Task \ {t} PROVE AtRest(e.id)'
  <2>1. PICK u \in Task \ {t} : u = e.id
    BY <1>7
  <2>2. IsVerification(t) /\ u = ParentOf(t) /\ e.to \in {"DONE", "FAILED"}
    BY <1>1, <1>4, <2>1 DEF Concerns
  <2>3. ChildOf[u] = t
    BY <2>2 DEF IsVerification, ParentOf
  <2>4. StateIs(u, {"VERIFYING", "DONE", "FAILED"}) /\ AtRest(u)
    BY <1>4, <2>3 DEF AtRest, Opened
  <2>5. Free(u)
    BY <2>4 DEF AtRest, StateIs, Known
  <2>6. Free(u)'
    BY <1>1, <1>2, <2>5, Same, PlacesKept
  <2>7. StateIs(u, {"DONE", "FAILED"})'
    BY <1>3, <2>1, <2>2, <2>4 DEF StateIs, Known
  <2>8. StateIs(u, LetGo)' /\ StateIs(u, {"VERIFYING", "DONE", "FAILED"})'
    BY <2>7 DEF StateIs, LetGo
  <2> QED BY <2>1, <2>6, <2>8 DEF AtRest, LetGo, SCHEDULABLE
<1>8. \A u \in Task : JobsKept(u)
  BY <1>1, Same
<1> QED BY <1>5, <1>6, <1>7, <1>8

LEMMA JobUpdate ==
    ASSUME JobsOK, NEW e, e = Step(tick), PerformJob(tick)
    PROVE  /\ DOMAIN job' = DOMAIN job
           /\ \A j \in DOMAIN job \ {e.id} : job'[j] = job[j]
           /\ e.id \in DOMAIN job => job'[e.id].status = e.to
<1>1. CASE e.id \notin DOMAIN job
  BY <1>1 DEF PerformJob
<1>2. CASE e.id \in DOMAIN job
  <2>1. PICK row : row = job[e.id] /\ row \in JobRow
    BY <1>2 DEF JobsOK
  <2>2. PICK sent : sent = (job[e.id].sent \/ e.sent)
    OBVIOUS
  <2>3. job' = [job EXCEPT ![e.id] = [row EXCEPT !.status = e.to, !.sent = sent, !.old = FALSE]]
    BY <1>2, <2>1, <2>2 DEF PerformJob
  <2> QED BY <1>2, <2>1, <2>3 DEF JobRow, JobsOK
<1> QED BY <1>1, <1>2

LEMMA JobWritten ==
    ASSUME TypeInv, TypeInv', NEW t \in Task, NEW P, NEW Q, NEW e, e = Step(tick),
           Q \subseteq P, P \subseteq Q \cup {e}, e \in P,
           Finishing(P, t), PerformJob(tick)
    PROVE  /\ Finishing(Q, t)'
           /\ \A u \in Task \ {t} : Untouched(u)
<1>1. /\ UNCHANGED task /\ UNCHANGED reserved /\ UNCHANGED claims /\ UNCHANGED ext
      /\ e.op = "job"
  BY DEF PerformJob, Due, Step
<1>2. JobsOK /\ JobsOK' /\ ExtTypeOK'
  BY TablesTyped DEF TypeInv
<1>3. /\ DOMAIN job' = DOMAIN job
      /\ \A j \in DOMAIN job \ {e.id} : job'[j] = job[j]
      /\ e.id \in DOMAIN job => job'[e.id].status = e.to
  BY <1>2, JobUpdate
<1>4. Known(t) /\ e.id[1] = t
  BY <1>1 DEF Finishing, LettingGo, GoingOn, WillBe, Concerns
<1>5. Finishing(Q, t)'
  <2>1. Known(t)' /\ (Opened(t)' => Opened(t)) /\ task'[t].state = task[t].state
    BY <1>1, <1>4 DEF Known, Opened
  <2>2. ASSUME LettingGo(P, t), NEW j \in JobId, Active(j)'
        PROVE  Active(j) /\ e.id # j
    <3>1. e.to \notin ACTIVE_JOB_STATES
      BY <1>1, <2>2 DEF LettingGo
    <3> QED BY <1>3, <2>2, <3>1 DEF Active
  <2>3. ASSUME NEW j \in JobId, Running(t, j), e.to = "RUNNING" /\ e.id = j
        PROVE  Running(t, j)'
    <3>1. /\ Only(t, j) /\ j \in DOMAIN job /\ job'[j].status = "RUNNING"
          /\ Exists(j) /\ ext[j].known /\ Holding(t)
      BY <1>3, <2>3 DEF Running, Only
    <3>2. Holding(t)' /\ Exists(j)' /\ ext'[j].known
      BY <1>1, <3>1 DEF Holding, Exists, NeedsClaim
    <3>3. ASSUME NEW i \in JobId, i[1] = t, Alive(i)' \/ Active(i)' PROVE i = j
      <4>1. i # j => (Alive(i) \/ Active(i))
        BY <1>1, <1>3, <2>3, <3>3 DEF Alive, Exists, Active
      <4> QED BY <3>1, <3>3, <4>1 DEF Only
    <3>4. Only(t, j)'
      BY <1>3, <3>1, <3>3 DEF Only
    <3> QED BY <3>1, <3>2, <3>4 DEF Running
  <2> QED BY <1>1, <2>1, <2>2, <2>3, FinishingAfter
<1>6. ASSUME NEW u \in Task \ {t} PROVE Untouched(u)
  <2>1. JobsKept(u)
    BY <1>3, <1>4, <1>6 DEF JobsKept
  <2> QED BY <1>1, <2>1, Same DEF Untouched
<1> QED BY <1>5, <1>6

LEMMA ReservationWritten ==
    ASSUME TypeInv, TypeInv', NEW t \in Task, NEW P, NEW Q, NEW e, e = Step(tick),
           Q \subseteq P, P \subseteq Q \cup {e}, e \in P,
           Finishing(P, t), Leases, PerformUnreserve(tick) \/ PerformRenew(tick)
    PROVE  /\ Finishing(Q, t)' /\ Leases'
           /\ \A u \in Task \ {t} : Untouched(u)
<1>1. /\ UNCHANGED task /\ UNCHANGED job /\ UNCHANGED claims /\ UNCHANGED ext
      /\ e.op \in {"unreserve", "renew"}
  BY DEF PerformUnreserve, PerformRenew, Due, Step
<1>2. JobsOK /\ ExtTypeOK' /\ ReservedOK
  BY TablesTyped DEF TypeInv
<1>3. Known(t) /\ e.id = t
  BY <1>1 DEF Finishing, LettingGo, GoingOn, WillBe, Concerns
<1>4. /\ e.op = "unreserve" => reserved' = Without(reserved, t)
      /\ e.op = "renew" => reserved' = IF t \in DOMAIN reserved
                                       THEN [reserved EXCEPT ![t].fresh = TRUE] ELSE reserved
  BY <1>3 DEF PerformUnreserve, PerformRenew, Due, Step
<1>5. /\ \A u \in Task : u \in DOMAIN reserved' <=>
                         u \in DOMAIN reserved /\ ~(e.op = "unreserve" /\ u = t)
      /\ \A u \in DOMAIN reserved' : reserved'[u].fresh
  BY <1>1, <1>2, <1>4 DEF Without, Leases, ReservedOK, Reservation
<1>6. Finishing(Q, t)'
  <2>1. Known(t)' /\ (Opened(t)' => Opened(t)) /\ task'[t].state = task[t].state
    BY <1>1, <1>3 DEF Known, Opened
  <2>2. \A j \in JobId : Active(j)' <=> Active(j)
    BY <1>1 DEF Active
  <2>3. ASSUME GoingOn(P, t), NEW j \in JobId, Running(t, j) PROVE Running(t, j)'
    <3>1. e.op # "unreserve"
      BY <2>3 DEF GoingOn
    <3>2. ReservedKept(t)
      BY <1>5, <3>1 DEF ReservedKept
    <3> QED BY <1>1, <1>2, <2>3, <3>2, Same, PlacesKept
  <2> QED BY <1>1, <1>5, <2>1, <2>2, <2>3, FinishingAfter
<1>7. ASSUME NEW u \in Task \ {t} PROVE Untouched(u)
  <2>1. ReservedKept(u)
    BY <1>5, <1>7 DEF ReservedKept
  <2> QED BY <1>1, <2>1, Same DEF Untouched
<1>8. Leases'
  BY <1>1, <1>5 DEF Leases, W!LeasesDisjoint
<1> QED BY <1>6, <1>7, <1>8

\* No claim ever expires under a tick that goes on.
LEMMA NothingStale ==
    ASSUME Leases, W!TypeOK
    PROVE  W!Cleaned(0, {}) = claims
<1>1. ASSUME NEW t \in DOMAIN claims PROVE W!CleanedRow(claims[t], 0, {}) = claims[t]
  <2>1. claims[t].left \in Int /\ (claims[t].state \in W!EXPIRING_STATES => claims[t].left > 0)
    BY DEF Leases, W!TypeOK, W!Row
  <2> QED BY <2>1 DEF W!CleanedRow, W!Stale
<1> QED BY <1>1 DEF W!Cleaned, W!TypeOK

LEMMA ClaimWritten ==
    ASSUME TypeInv, TypeInv', NEW t \in Task, NEW P, NEW Q, NEW e, e = Step(tick), e \in Write,
           Q \subseteq P, P \subseteq Q \cup {e}, e \in P,
           Finishing(P, t), Leases, PerformUnclaim(tick) \/ PerformHold(tick)
    PROVE  /\ Finishing(Q, t)' /\ Leases'
           /\ \A u \in Task \ {t} : Untouched(u)
<1>1. /\ UNCHANGED task /\ UNCHANGED job /\ UNCHANGED reserved /\ UNCHANGED ext
      /\ e.op \in {"unclaim", "hold"}
  BY DEF PerformUnclaim, PerformHold, Due, Step
<1>2. JobsOK /\ ExtTypeOK' /\ W!TypeOK
  BY TablesTyped DEF TypeInv
<1>3. Known(t) /\ e.id = t
  BY <1>1 DEF Finishing, LettingGo, GoingOn, WillBe, Concerns
<1>4. /\ DOMAIN claims' = DOMAIN claims
      /\ \A u \in DOMAIN claims \ {t} : claims'[u] = claims[u]
      /\ t \in DOMAIN claims =>
            /\ claims'[t].base = claims[t].base /\ claims'[t].scopes = claims[t].scopes
            /\ claims'[t].state \in W!EXPIRING_STATES => claims'[t].left > 0
            /\ IF e.op = "hold" THEN claims'[t].state = claims[t].state
               ELSE claims'[t].state \notin W!LEASE_STATES
  <2>1. CASE e.op = "hold"
    <3>1. \/ W!Heartbeat(t, 1, 0)
          \/ W!Cleanup(0, {})
      BY <1>1, <1>3, <2>1 DEF PerformUnclaim, PerformHold, Due, Step
    <3>2. \/ t \in DOMAIN claims /\ claims' = [claims EXCEPT ![t].ttl = 1, ![t].left = 1]
          \/ claims' = claims
      <4>1. 1 - 0 = 1
        OBVIOUS
      <4> QED BY <1>2, <3>1, <4>1, NothingStale DEF W!Heartbeat, W!Cleanup
    <3>3. CASE claims' = claims
      BY <2>1, <3>3 DEF Leases
    <3>4. CASE t \in DOMAIN claims /\ claims' = [claims EXCEPT ![t].ttl = 1, ![t].left = 1]
      <4>1. PICK row : row = claims[t] /\ row \in W!Row
        BY <1>2, <3>4 DEF W!TypeOK
      <4>2. claims' = [claims EXCEPT ![t] = [row EXCEPT !.ttl = 1, !.left = 1]]
        BY <1>2, <3>4, <4>1 DEF W!TypeOK
      <4>3. claims'[t] = [row EXCEPT !.ttl = 1, !.left = 1]
        BY <3>4, <4>2
      <4>4. /\ claims'[t].base = row.base /\ claims'[t].scopes = row.scopes
            /\ claims'[t].state = row.state /\ claims'[t].left = 1
        BY <4>1, <4>3 DEF W!Row
      <4> QED BY <2>1, <3>4, <4>1, <4>2, <4>4
    <3> QED BY <3>2, <3>3, <3>4
  <2>2. CASE e.op = "unclaim"
    <3>1. e.to \in W!ReleaseOutcomes
      BY <2>2 DEF Write
    <3>2. \/ /\ t \in DOMAIN claims
             /\ claims' = [claims EXCEPT ![t].state = e.to, ![t].left = 0]
          \/ (t \in DOMAIN claims => claims[t].state \in W!TERMINAL_STATES) /\ claims' = claims
      BY <1>1, <1>3, <2>2 DEF PerformUnclaim, PerformHold, Due, Step, W!Release
    <3>3. CASE claims' = claims /\ (t \in DOMAIN claims => claims[t].state \in W!TERMINAL_STATES)
      BY <2>2, <3>3 DEF Leases, W!TERMINAL_STATES, W!LEASE_STATES
    <3>4. CASE t \in DOMAIN claims /\ claims' = [claims EXCEPT ![t].state = e.to, ![t].left = 0]
      <4>1. PICK row : row = claims[t] /\ row \in W!Row
        BY <1>2, <3>4 DEF W!TypeOK
      <4>2. claims' = [claims EXCEPT ![t] = [row EXCEPT !.state = e.to, !.left = 0]]
        BY <1>2, <3>4, <4>1 DEF W!TypeOK
      <4>3. claims'[t] = [row EXCEPT !.state = e.to, !.left = 0]
        BY <3>4, <4>2
      <4>4. /\ claims'[t].base = row.base /\ claims'[t].scopes = row.scopes
            /\ claims'[t].state = e.to
        BY <4>1, <4>3 DEF W!Row
      <4>5. e.to \notin W!EXPIRING_STATES /\ e.to \notin W!LEASE_STATES
        BY <3>1 DEF W!ReleaseOutcomes, W!EXPIRING_STATES, W!LEASE_STATES
      <4> QED BY <2>2, <3>4, <4>1, <4>2, <4>4, <4>5
    <3> QED BY <3>2, <3>3, <3>4
  <2> QED BY <1>1, <2>1, <2>2
<1>5. /\ \A u \in Task \ {t} : W!Leased(claims', u) <=> W!Leased(claims, u)
      /\ W!Leased(claims', t) <=> W!Leased(claims, t) /\ e.op = "hold"
  BY <1>4 DEF W!Leased
<1>6. Finishing(Q, t)'
  <2>1. Known(t)' /\ (Opened(t)' => Opened(t)) /\ task'[t].state = task[t].state
    BY <1>1, <1>3 DEF Known, Opened
  <2>2. \A j \in JobId : Active(j)' <=> Active(j)
    BY <1>1 DEF Active
  <2>3. ASSUME GoingOn(P, t), NEW j \in JobId, Running(t, j) PROVE Running(t, j)'
    <3>1. e.op # "unclaim"
      BY <2>3 DEF GoingOn
    <3>2. ClaimKept(t)
      BY <1>1, <1>5, <3>1 DEF ClaimKept
    <3> QED BY <1>1, <1>2, <2>3, <3>2, Same, PlacesKept
  <2> QED BY <1>1, <1>5, <2>1, <2>2, <2>3, FinishingAfter
<1>7. ASSUME NEW u \in Task \ {t} PROVE Untouched(u)
  <2>1. ClaimKept(u)
    BY <1>5 DEF ClaimKept
  <2> QED BY <1>1, <2>1, Same DEF Untouched
<1>8. Leases'
  <2>1. \A u \in DOMAIN claims' : claims'[u].base = BaseOf[u] /\ claims'[u].scopes = ScopesOf[u]
          /\ (claims'[u].state \in W!EXPIRING_STATES => claims'[u].left > 0)
    BY <1>4 DEF Leases
  <2>2. W!LeasesDisjoint'
    <3>1. \A u \in DOMAIN claims :
             /\ claims'[u].base = claims[u].base /\ claims'[u].scopes = claims[u].scopes
             /\ W!Leased(claims', u) => W!Leased(claims, u)
      BY <1>4 DEF W!Leased
    <3>2. W!LeasesDisjoint
      BY DEF Leases
    <3> QED BY <1>4, <3>1, <3>2 DEF W!LeasesDisjoint
  <2> QED BY <1>1, <2>1, <2>2 DEF Leases
<1> QED BY <1>6, <1>7, <1>8

LEMMA ChildWritten ==
    ASSUME TypeInv, TypeInv', NEW t \in Task, NEW P, NEW Q, NEW e, e = Step(tick),
           Q \subseteq P, P \subseteq Q \cup {e}, e \in P, e \in Write,
           Finishing(P, t), \A u \in Task \ {t} : AtRest(u), PerformChild(tick)
    PROVE  /\ Finishing(Q, t)' /\ Pop(tick) /\ DOMAIN task \subseteq DOMAIN task'
           /\ \A u \in Task \ {t} : JobsKept(u) /\ (Untouched(u) \/ AtRest(u)')
<1>1. /\ UNCHANGED job /\ UNCHANGED reserved /\ UNCHANGED claims /\ UNCHANGED ext
      /\ e.op = "child"
  BY DEF PerformChild, Due, Step
<1>2. TasksOK /\ TasksOK' /\ JobsOK /\ ExtTypeOK'
  BY TablesTyped DEF TypeInv
<1>3. PICK c \in Task : c = ChildOf[t] /\ c = e.id
  BY <1>1 DEF Finishing, Concerns, Write
<1>4. Known(t) /\ c # t /\ ChildOf[c] = NoTask /\ (Known(c) => task[c].of = e.of)
  <2>1. Known(t)
    BY DEF Finishing, LettingGo, GoingOn, WillBe
  <2>2. c # t /\ ChildOf[c] = NoTask
    BY <1>3, NoGrandchild, LedgerAssumption
  <2>3. Known(c) => task[c].of = e.of
    BY <1>1, <1>3 DEF Finishing, Concerns, Opened
  <2> QED BY <2>1, <2>2, <2>3
<1>5. /\ Pop(tick)
      /\ \/ ~Known(c) /\ task' = With(task, c, NewTask(e.of))
         \/ Known(c) /\ UNCHANGED task
  BY <1>3, <1>4 DEF PerformChild, Due, Step
<1>6. /\ DOMAIN task' = DOMAIN task \cup {c}
      /\ \A u \in DOMAIN task : task'[u] = task[u]
      /\ task'[c].of = e.of
      /\ ~Known(c) => task'[c].state = "QUEUED"
  BY <1>4, <1>5 DEF With, NewTask, Known
<1>7. Finishing(Q, t)'
  <2>1. Known(t)' /\ task'[t].state = task[t].state
    BY <1>4, <1>6 DEF Known
  <2>2. \A j \in JobId : Active(j)' <=> Active(j)
    BY <1>1 DEF Active
  <2>3. \A j \in JobId : Running(t, j) => Running(t, j)'
    BY <1>1, <1>2, Same, PlacesKept
  <2>4. task'[ChildOf[t]].of = e.of
    BY <1>3, <1>6
  <2> QED BY <1>1, <2>1, <2>2, <2>3, <2>4, FinishingAfter
<1>8. ASSUME NEW u \in Task \ {t}, u # c PROVE Untouched(u)
  <2>1. ChildOf[u] # c
    BY <1>3, <1>8, VerificationAssumption, LedgerAssumption
  <2>2. TaskKept(u)
    BY <1>6, <1>8, <2>1 DEF TaskKept, Known, Opened
  <2> QED BY <1>1, <2>2, Same DEF Untouched
<1>9. ASSUME ~Known(c) PROVE AtRest(c)'
  <2>1. Free(c)
    BY <1>4, <1>9 DEF AtRest, StateIs
  <2>2. Free(c)'
    BY <1>1, <1>2, <2>1, Same, PlacesKept
  <2>3. ~Opened(c)'
    BY <1>2, <1>4, NoTaskUnknown DEF Opened
  <2> QED BY <1>6, <1>9, <2>2, <2>3 DEF AtRest, StateIs, Known, LetGo, SCHEDULABLE
<1>10. ASSUME Known(c) PROVE Untouched(c)
  BY <1>1, <1>5, <1>10, Same DEF Untouched
<1>11. \A u \in Task : JobsKept(u)
  BY <1>1, Same
<1> QED BY <1>5, <1>6, <1>7, <1>8, <1>9, <1>10, <1>11

LEMMA PopAfter ==
    ASSUME OneTick, ProcOK, Pop(tick)
    PROVE  \E q :
             /\ proc' = [proc EXCEPT ![tick] = q]
             /\ q.pc = Hand.pc /\ q.j = Hand.j /\ q.left = Hand.left
             /\ q.answer = Hand.answer /\ q.place = Hand.place /\ q.todo = Tail(Hand.todo)
             /\ q.t = IF Tail(Hand.todo) = <<>> /\ Hand.pc \in Phases THEN NoTask ELSE Hand.t
<1> DEFINE q == [Hand EXCEPT
                !.todo = Tail(Hand.todo),
                !.t = IF Tail(Hand.todo) = <<>> /\ Hand.pc \in Phases THEN NoTask ELSE Hand.t]
<1>1. proc' = [proc EXCEPT ![tick] = q]
  BY DEF Pop, Hand
<1>2. DOMAIN Hand = Fields
  BY HandTyped DEF Typed
<1>3. /\ q.pc = Hand.pc /\ q.j = Hand.j /\ q.left = Hand.left
      /\ q.answer = Hand.answer /\ q.place = Hand.place /\ q.todo = Tail(Hand.todo)
      /\ q.t = IF Tail(Hand.todo) = <<>> /\ Hand.pc \in Phases THEN NoTask ELSE Hand.t
  BY <1>2 DEF Fields
<1> HIDE DEF q
<1> QED BY <1>1, <1>3

LEMMA FinishKeeps ==
    ASSUME OneTick, TypeInv, TypeInv', TickInv, Perform(tick), NEW t \in Task, t = Hand.t,
           Hand.pc \in Phases, Hand.todo # <<>>, Finishing(Range(Hand.todo), t)
    PROVE  TickInv'
<1>1. ProcOK /\ Typed(Hand) /\ Hand.todo \in Seq(Write)
  BY HandTyped DEF TypeInv, Typed
<1>2. PICK s \in Seq(Write) : s = Hand.todo
  BY <1>1
<1>3. PICK e : e = Step(tick) /\ e = Head(s)
  BY <1>2 DEF Step, Hand
<1>4. PICK P : P = Range(s)
  OBVIOUS
<1>5. PICK Q : Q = Range(Tail(s))
  OBVIOUS
<1>6. /\ e \in P /\ Q \subseteq P /\ P \subseteq Q \cup {e} /\ e \in Write
      /\ Tail(s) = <<>> => Q = {}
  BY <1>2, <1>3, <1>4, <1>5, Popped
<1>7. Finishing(P, t) /\ Hands /\ Rest /\ Lists /\ Leases /\ Results
  BY <1>2, <1>4 DEF TickInv
<1>8. \A u \in Task \ {t} : AtRest(u)
  BY <1>7 DEF Rest
<1>9. /\ Finishing(Q, t)' /\ Leases' /\ Pop(tick) /\ UNCHANGED ext
      /\ DOMAIN task \subseteq DOMAIN task'
      /\ \A u \in Task \ {t} : JobsKept(u) /\ (Untouched(u) \/ AtRest(u)')
  <2>1. CASE PerformTask(tick)
    <3>1. Finishing(Q, t)' /\ \A u \in Task \ {t} : JobsKept(u) /\ (Untouched(u) \/ AtRest(u)')
      BY <1>3, <1>6, <1>7, <1>8, <2>1, TaskWritten
    <3>2. DOMAIN task' = DOMAIN task
      BY <2>1 DEF PerformTask
    <3> QED BY <1>7, <2>1, <3>1, <3>2, LeasesKept DEF PerformTask
  <2>2. CASE PerformJob(tick)
    <3>1. Finishing(Q, t)' /\ \A u \in Task \ {t} : Untouched(u)
      BY <1>3, <1>6, <1>7, <2>2, JobWritten
    <3> QED BY <1>7, <2>2, <3>1, LeasesKept DEF PerformJob, Untouched
  <2>3. CASE PerformUnreserve(tick) \/ PerformRenew(tick)
    <3>1. Finishing(Q, t)' /\ Leases' /\ \A u \in Task \ {t} : Untouched(u)
      BY <1>3, <1>6, <1>7, <2>3, ReservationWritten
    <3> QED BY <2>3, <3>1 DEF PerformUnreserve, PerformRenew, Untouched
  <2>4. CASE PerformUnclaim(tick) \/ PerformHold(tick)
    <3>1. Finishing(Q, t)' /\ Leases' /\ \A u \in Task \ {t} : Untouched(u)
      BY <1>3, <1>6, <1>7, <2>4, ClaimWritten
    <3> QED BY <2>4, <3>1 DEF PerformUnclaim, PerformHold, Untouched
  <2>5. CASE PerformChild(tick)
    <3>1. /\ Finishing(Q, t)' /\ Pop(tick) /\ DOMAIN task \subseteq DOMAIN task'
          /\ \A u \in Task \ {t} : JobsKept(u) /\ (Untouched(u) \/ AtRest(u)')
      BY <1>3, <1>6, <1>7, <1>8, <2>5, ChildWritten
    <3> QED BY <1>7, <2>5, <3>1, LeasesKept DEF PerformChild
  <2>6. CASE PerformReopen(tick)
    <3>1. e.op = "reopen"
      BY <1>3, <2>6 DEF PerformReopen, Due, Step
    <3> QED BY <1>6, <1>7, <3>1 DEF Finishing, Concerns
  <2> QED BY <2>1, <2>2, <2>3, <2>4, <2>5, <2>6 DEF Perform
<1>10. PICK q :
         /\ proc' = [proc EXCEPT ![tick] = q]
         /\ q.pc = Hand.pc /\ q.left = Hand.left /\ q.todo = Tail(s)
         /\ q.t = IF Tail(s) = <<>> /\ Hand.pc \in Phases THEN NoTask ELSE Hand.t
  BY <1>1, <1>2, <1>9, PopAfter
<1>11. Resolved(q) => q.t = NoTask /\ AtRest(t)'
  <2> SUFFICES ASSUME Resolved(q) PROVE q.t = NoTask /\ AtRest(t)'
    OBVIOUS
  <2>1. Q = {} /\ q.t = NoTask
    BY <1>6, <1>10 DEF Resolved
  <2>2. Finishing({}, t)'
    BY <1>9, <2>1
  <2> QED BY <2>1, <2>2, Finished
<1>12. ~Resolved(q) => q.t = t /\ InHand(q, t)'
  BY <1>5, <1>9, <1>10 DEF Resolved, InHand
<1>13. Hands' /\ Rest' /\ Lists'
  BY <1>7, <1>9, <1>10, <1>11, <1>12, Onward
<1>14. Results'
  BY <1>7, <1>9 DEF Results
<1> QED BY <1>9, <1>13, <1>14 DEF TickInv

LEMMA DueWrite ==
    ASSUME NEW e, e = Step(tick), Perform(tick)
    PROVE  /\ e.op = "task" => PerformTask(tick)
           /\ e.op = "job" => PerformJob(tick)
<1>1. PerformTask(tick) => e.op = "task"
  BY DEF PerformTask, Due, Step
<1>2. PerformJob(tick) => e.op = "job"
  BY DEF PerformJob, Due, Step
<1>3. PerformUnreserve(tick) => e.op = "unreserve"
  BY DEF PerformUnreserve, Due, Step
<1>4. PerformUnclaim(tick) => e.op = "unclaim"
  BY DEF PerformUnclaim, Due, Step
<1>5. PerformRenew(tick) => e.op = "renew"
  BY DEF PerformRenew, Due, Step
<1>6. PerformHold(tick) => e.op = "hold"
  BY DEF PerformHold, Due, Step
<1>7. PerformChild(tick) => e.op = "child"
  BY DEF PerformChild, Due, Step
<1>8. PerformReopen(tick) => e.op = "reopen"
  BY DEF PerformReopen, Due, Step
<1> QED BY <1>1, <1>2, <1>3, <1>4, <1>5, <1>6, <1>7, <1>8 DEF Perform

\* The write that is due before the adapter is called: attempts + 1.
LEMMA AttemptKeeps ==
    ASSUME OneTick, TypeInv, TypeInv', TickInv, Perform(tick), NEW t \in Task, t = Hand.t,
           NEW j \in JobId, j = Hand.j,
           ~Opened(t), StateIs(t, {"ROUTING", "RESERVED"}), Starting(t, j),
           Submitted(Hand, t), Hand.pc = "submit", Hand.todo = <<Attempt(t, j, "RESERVED")>>
    PROVE  TickInv'
<1>1. ProcOK /\ TasksOK /\ JobsOK /\ ExtTypeOK' /\ Hands /\ Rest /\ Lists /\ Leases /\ Results
  BY TablesTyped DEF TypeInv, TickInv
<1>2. PICK e : e = Step(tick) /\ e = Attempt(t, j, "RESERVED")
  BY DEF Step, Hand
<1>3. e.op = "task" /\ e.id = t /\ e.to = "RESERVED"
  BY <1>2 DEF Attempt, Set
<1>4. PerformTask(tick)
  BY <1>2, <1>3, DueWrite
<1>5. /\ UNCHANGED job /\ UNCHANGED reserved /\ UNCHANGED claims /\ UNCHANGED ext
      /\ Pop(tick)
  BY <1>4 DEF PerformTask
<1>6. /\ DOMAIN task' = DOMAIN task /\ task'[t].state = "RESERVED"
      /\ \A u \in DOMAIN task \ {t} : task'[u] = task[u]
      /\ task'[t].of = task[t].of
  BY <1>1, <1>2, <1>3, <1>4, TaskUpdate DEF StateIs
<1>7. ASSUME NEW u \in Task \ {t} PROVE Untouched(u) /\ JobsKept(u)
  <2>1. TaskKept(u)
    BY <1>6, <1>7 DEF TaskKept, Known, Opened
  <2> QED BY <1>5, <2>1, Same DEF Untouched
<1>8. PICK q :
         /\ proc' = [proc EXCEPT ![tick] = q]
         /\ q.pc = "submit" /\ q.left = Hand.left /\ q.todo = <<>> /\ q.t = t /\ q.j = j
  BY <1>1, <1>5, PopAfter DEF Phases
<1>9. InHand(q, t)'
  <2>1. ~Opened(t)' /\ StateIs(t, {"ROUTING", "RESERVED"})'
    BY <1>6 DEF Opened, Known, StateIs
  <2>2. Starting(t, j)' /\ Quiet(t)'
    <3>1. Quiet(t)
      BY DEF Submitted
    <3> QED BY <1>1, <1>5, <3>1, Same, PlacesKept
  <2>3. Submitted(q, t)'
    BY <1>8, <2>2 DEF Submitted
  <2> QED BY <1>8, <2>1, <2>2, <2>3 DEF InHand
<1>10. ~Resolved(q)
  BY <1>8 DEF Resolved, Phases
<1>11. Hands' /\ Rest' /\ Lists'
  BY <1>1, <1>6, <1>7, <1>8, <1>9, <1>10, Onward
<1>12. Leases' /\ Results'
  BY <1>1, <1>5, LeasesKept DEF Results
<1> QED BY <1>11, <1>12 DEF TickInv

\* The write that is due when the adapter has answered.
LEMMA AnswerKeeps ==
    ASSUME OneTick, TypeInv, TypeInv', TickInv, Perform(tick), NEW t \in Task, t = Hand.t,
           NEW j \in JobId, j = Hand.j,
           ~Opened(t), StateIs(t, {"ROUTING", "RESERVED"}), Answered(Hand, t), Hand.todo # <<>>
    PROVE  TickInv'
<1>1. ProcOK /\ JobsOK /\ ExtTypeOK' /\ Hands /\ Rest /\ Lists /\ Leases /\ Results
  BY TablesTyped DEF TypeInv, TickInv
<1>2. /\ Hand.pc = "settle" /\ Only(t, j) /\ Holding(t) /\ job[j].status = "SUBMITTING"
      /\ Hand.todo = <<SetSent(j, Hand.answer)>>
      /\ \/ Hand.answer = "RUNNING" /\ Exists(j) /\ ext[j].known
         \/ Hand.answer \in {"SUCCEEDED", "FAILED", "CANCELLED", "AWAITING_MANUAL"} /\ Quiet(t)
  BY DEF Answered
<1>3. PICK e : e = Step(tick) /\ e = SetSent(j, Hand.answer)
  BY <1>2 DEF Step, Hand
<1>4. e.op = "job" /\ e.id = j /\ e.to = Hand.answer
  BY <1>3 DEF SetSent, SetJob
<1>5. PerformJob(tick)
  BY <1>3, <1>4, DueWrite
<1>6. /\ UNCHANGED task /\ UNCHANGED reserved /\ UNCHANGED claims /\ UNCHANGED ext
      /\ Pop(tick)
  BY <1>5 DEF PerformJob
<1>7. /\ DOMAIN job' = DOMAIN job /\ job'[j].status = Hand.answer
      /\ \A i \in DOMAIN job \ {j} : job'[i] = job[i]
      /\ j \in DOMAIN job /\ j[1] = t
  BY <1>1, <1>2, <1>3, <1>4, <1>5, JobUpdate DEF Only
<1>8. ASSUME NEW u \in Task \ {t} PROVE Untouched(u) /\ JobsKept(u)
  <2>1. JobsKept(u)
    BY <1>7, <1>8 DEF JobsKept
  <2> QED BY <1>6, <2>1, Same DEF Untouched
<1>9. PICK q :
         /\ proc' = [proc EXCEPT ![tick] = q] /\ q.answer = Hand.answer
         /\ q.pc = "settle" /\ q.left = Hand.left /\ q.todo = <<>> /\ q.t = t /\ q.j = j
  BY <1>1, <1>2, <1>6, PopAfter DEF Phases
<1>10. InHand(q, t)'
  <2>1. ~Opened(t)' /\ StateIs(t, {"ROUTING", "RESERVED"})'
    BY <1>6 DEF Opened, Known, StateIs
  <2>2. Only(t, j)'
    <3>1. ASSUME NEW i \in JobId, i[1] = t, Alive(i)' \/ Active(i)', i # j PROVE FALSE
      <4>1. Alive(i) \/ Active(i)
        BY <1>6, <1>7, <3>1 DEF Alive, Exists, Active
      <4> QED BY <1>2, <3>1, <4>1 DEF Only
    <3> QED BY <1>7, <3>1 DEF Only
  <2>3. Holding(t)' /\ (Quiet(t) => Quiet(t)') /\ (Exists(j) /\ ext[j].known)' = (Exists(j) /\ ext[j].known)
    BY <1>2, <1>6 DEF Holding, NeedsClaim, Quiet, Alive, Exists
  <2>4. Answered(q, t)'
    BY <1>2, <1>7, <1>9, <2>2, <2>3 DEF Answered
  <2> QED BY <2>1, <2>4 DEF InHand
<1>11. ~Resolved(q)
  BY <1>9 DEF Resolved, Phases
<1>12. Hands' /\ Rest' /\ Lists'
  BY <1>1, <1>2, <1>6, <1>8, <1>9, <1>10, <1>11, Onward
<1>13. Leases' /\ Results'
  BY <1>1, <1>6, LeasesKept DEF Results
<1> QED BY <1>12, <1>13 DEF TickInv

LEMMA PerformKeeps ==
    ASSUME OneTick, TypeInv, TypeInv', TickInv, Perform(tick)
    PROVE  TickInv'
<1>1. Hand.todo # <<>> /\ Typed(Hand) /\ Hands
  BY HandTyped DEF Perform, PerformTask, PerformJob, PerformUnreserve, PerformUnclaim, PerformRenew,
         PerformHold, PerformChild, PerformReopen, Due, Hand, TypeInv, TickInv
<1>2. ~Resolved(Hand)
  BY <1>1 DEF Resolved
<1>3. PICK t \in Task : t = Hand.t /\ InHand(Hand, t)
  BY <1>1, <1>2 DEF Hands
<1>4. CASE Hand.pc \in Phases /\ Finishing(Range(Hand.todo), t)
  BY <1>1, <1>3, <1>4, FinishKeeps
<1>5. CASE /\ ~Opened(t) /\ StateIs(t, {"ROUTING", "RESERVED"}) /\ Starting(t, Hand.j)
           /\ Submitted(Hand, t)
           /\ Hand.pc = "submit" /\ Hand.todo = <<Attempt(t, Hand.j, "RESERVED")>>
  <2>1. PICK j \in JobId : j = Hand.j
    BY <1>1, <1>5 DEF Typed, Submission
  <2> QED BY <1>3, <1>5, <2>1, AttemptKeeps
<1>6. CASE ~Opened(t) /\ StateIs(t, {"ROUTING", "RESERVED"}) /\ Answered(Hand, t)
  <2>1. PICK j \in JobId : j = Hand.j
    BY <1>1, <1>6 DEF Typed, Submission, Answered
  <2> QED BY <1>1, <1>3, <1>6, <2>1, AnswerKeeps
<1> QED BY <1>1, <1>3, <1>4, <1>5, <1>6 DEF InHand

-----------------------------------------------------------------------------
(* What a handler decides                                                    *)

LEMMA Elements ==
    /\ Range(<<>>) = {}
    /\ \A a : Range(<<a>>) = {a}
    /\ \A a, b : Range(<<a, b>>) = {a, b}
<1>1. Range(<<>>) = {}
  BY DEF Range
<1>2. ASSUME NEW a PROVE Range(<<a>>) = {a}
  BY DEF Range
<1>3. ASSUME NEW a, NEW b PROVE Range(<<a, b>>) = {a, b}
  BY DEF Range
<1> QED BY <1>1, <1>2, <1>3

LEMMA Joined ==
    ASSUME NEW s \in Seq(Write), NEW r \in Seq(Write)
    PROVE  Range(s \o r) = Range(s) \cup Range(r)
<1>1. PICK m \in Nat : m = Len(s) /\ DOMAIN s = 1..m
  OBVIOUS
<1>2. PICK n \in Nat : n = Len(r) /\ DOMAIN r = 1..n
  OBVIOUS
<1>3. PICK c : c = s \o r
  OBVIOUS
<1>4. /\ DOMAIN c = 1..(m + n)
      /\ \A i \in 1..m : c[i] = s[i]
      /\ \A i \in (m + 1)..(m + n) : c[i] = r[i - m]
  BY <1>1, <1>2, <1>3
<1>5. ASSUME NEW x \in Range(r) PROVE x \in Range(c)
  <2>1. PICK i \in 1..n : x = r[i]
    BY <1>2 DEF Range
  <2>2. i + m \in (m + 1)..(m + n) /\ i + m \in 1..(m + n) /\ (i + m) - m = i
    BY <1>1, <1>2, <2>1
  <2> QED BY <1>4, <2>1, <2>2 DEF Range
<1>6. ASSUME NEW x \in Range(s) PROVE x \in Range(c)
  <2>1. PICK i \in 1..m : x = s[i]
    BY <1>1 DEF Range
  <2>2. i \in 1..(m + n)
    BY <1>1, <1>2, <2>1
  <2> QED BY <1>4, <2>1, <2>2 DEF Range
<1>7. ASSUME NEW x \in Range(c), x \notin Range(s) PROVE x \in Range(r)
  <2>1. PICK i \in 1..(m + n) : x = c[i]
    BY <1>4 DEF Range
  <2>2. i \notin 1..m
    BY <1>1, <1>4, <1>7, <2>1 DEF Range
  <2>3. i \in (m + 1)..(m + n) /\ i - m \in 1..n
    BY <1>1, <1>2, <2>1, <2>2
  <2> QED BY <1>2, <1>4, <2>1, <2>3 DEF Range
<1> QED BY <1>3, <1>5, <1>6, <1>7

\* A decision that lets go of t and leaves it in the given state.
LEMMA LetsGo ==
    ASSUME NEW t \in Task, NEW P, NEW state \in LetGo \cup {"AWAITING_MANUAL"},
           Known(t)', ~Opened(t)', Quiet(t)',
           t \in DOMAIN reserved' => \E e \in P : e.op = "unreserve",
           W!Leased(claims', t) /\ state # "AWAITING_MANUAL" => \E e \in P : e.op = "unclaim",
           \A j \in JobId : j[1] = t /\ Active(j)' => \E e \in P : e.op = "job" /\ e.id = j,
           \E e \in P : e.op = "task" /\ e.id = t,
           \A e \in P :
              \/ e.op \in {"unreserve", "unclaim"} /\ e.id = t
              \/ e.op = "job" /\ e.id[1] = t /\ e.to \notin ACTIVE_JOB_STATES
              \/ /\ e.op = "task" /\ e.to = state
                 /\ \/ e.id = t
                    \/ IsVerification(t) /\ e.id = ParentOf(t) /\ state \in {"DONE", "FAILED"}
              \/ /\ e.op = "child" /\ e.id = ChildOf[t] /\ state = "VERIFYING"
                 /\ \A f \in P : f.op = "child" => f = e
    PROVE  Finishing(P, t)'
<1>1. WillBe(P, t, state)'
  BY DEF WillBe, Writes
<1>2. LettingGo(P, t)'
  BY <1>1 DEF LettingGo, ACTIVE_JOB_STATES, LetGo, SCHEDULABLE
<1>3. ASSUME NEW e \in P
      PROVE  /\ e.op # "reopen"
             /\ e.op \in {"unreserve", "unclaim", "renew", "hold"} => e.id = t
             /\ e.op = "job" => e.id[1] = t
             /\ e.op = "task" /\ e.id # t =>
                   IsVerification(t) /\ e.id = ParentOf(t) /\ e.to \in {"DONE", "FAILED"}
             /\ e.op = "child" =>
                   e.id = ChildOf[t] /\ state = "VERIFYING" /\ \A f \in P : f.op = "child" => f = e
  OBVIOUS
<1>4. Concerns(P, t)'
  BY <1>1, <1>3 DEF Concerns, IsVerification, ParentOf
<1> QED BY <1>2, <1>4 DEF Finishing

LEMMA TaskWrites ==
    ASSUME NEW t, NEW state
    PROVE  \A e \in {Set(t, state), SetError(t, state), SetDropJob(t, state),
                     [SetError(t, state) EXCEPT !.job = NoJob]} :
               e.op = "task" /\ e.id = t /\ e.to = state
<1>1. /\ SetError(t, state).op = "task" /\ SetError(t, state).id = t
      /\ SetError(t, state).to = state
      /\ Set(t, state).op = "task" /\ Set(t, state).id = t /\ Set(t, state).to = state
      /\ SetDropJob(t, state).op = "task" /\ SetDropJob(t, state).id = t
      /\ SetDropJob(t, state).to = state
  BY DEF SetError, Set, SetDropJob
<1>2. /\ [SetError(t, state) EXCEPT !.job = NoJob].op = "task"
      /\ [SetError(t, state) EXCEPT !.job = NoJob].id = t
      /\ [SetError(t, state) EXCEPT !.job = NoJob].to = state
  BY DEF SetError, Set
<1> QED BY <1>1, <1>2

LEMMA AttemptWrites ==
    ASSUME NEW t, NEW j, NEW state
    PROVE  /\ Attempt(t, j, state).op = "task" /\ Attempt(t, j, state).id = t
           /\ Attempt(t, j, state).to = state
BY DEF Set, Attempt

LEMMA JobWrites ==
    ASSUME NEW j, NEW status
    PROVE  \A e \in {SetJob(j, status), SetSent(j, status)} :
               e.op = "job" /\ e.id = j /\ e.to = status
BY DEF SetJob, SetSent

LEMMA LeaseWrites ==
    ASSUME NEW t, NEW outcome
    PROVE  /\ \E e : /\ e.op = "unclaim" /\ e.id = t
                     /\ Range(Release(t, outcome)) = {Unreserve(t), e}
           /\ \E e : /\ e.op = "renew" /\ e.id = t
                     /\ Range(Renew(t)) = {e, Hold(t)}
           /\ Unreserve(t).op = "unreserve" /\ Unreserve(t).id = t
           /\ Hold(t).op = "hold" /\ Hold(t).id = t
<1>1. PICK e : e = [op |-> "unclaim", id |-> t, to |-> outcome]
  OBVIOUS
<1>2. e.op = "unclaim" /\ e.id = t /\ Range(Release(t, outcome)) = {Unreserve(t), e}
  BY <1>1, Elements DEF Release
<1>3. PICK f : f = [op |-> "renew", id |-> t]
  OBVIOUS
<1>4. f.op = "renew" /\ f.id = t /\ Range(Renew(t)) = {f, Hold(t)}
  BY <1>3, Elements DEF Renew
<1>5. /\ Unreserve(t).op = "unreserve" /\ Unreserve(t).id = t
      /\ Hold(t).op = "hold" /\ Hold(t).id = t
  BY DEF Unreserve, Hold
<1> QED BY <1>2, <1>4, <1>5

LEMMA OneWrite ==
    ASSUME NEW e \in Write
    PROVE  <<e>> \in Seq(Write) /\ Range(<<e>>) = {e}
<1>1. <<e>> \in Seq(Write)
  OBVIOUS
<1>2. Range(<<e>>) = {e}
  BY Elements
<1> QED BY <1>1, <1>2

LEMMA TwoWrites ==
    ASSUME NEW e \in Write, NEW f \in Write
    PROVE  <<e>> \o <<f>> \in Seq(Write) /\ Range(<<e>> \o <<f>>) = {e, f}
<1>1. PICK s \in Seq(Write) : s = <<e>> /\ Range(s) = {e}
  BY OneWrite, Zenon
<1>2. PICK r \in Seq(Write) : r = <<f>> /\ Range(r) = {f}
  BY OneWrite, Zenon
<1>3. PICK c : c = s \o r
  OBVIOUS
<1>4. c \in Seq(Write) /\ Range(c) = Range(s) \cup Range(r)
  BY <1>3, JoinTyped, Joined
<1>5. c = <<e>> \o <<f>>
  BY <1>1, <1>2, <1>3, Zenon
<1>6. Range(c) = {e, f}
  BY <1>1, <1>2, <1>4
<1> QED BY <1>4, <1>5, <1>6

LEMMA ThreeJoined ==
    ASSUME NEW q \in Seq(Write), NEW r \in Seq(Write), NEW s \in Seq(Write)
    PROVE  Range(q \o r \o s) = Range(q) \cup Range(r) \cup Range(s)
<1>1. PICK p \in Seq(Write) : p = q \o r
  BY JoinTyped
<1>2. Range(p) = Range(q) \cup Range(r)
  BY <1>1, Joined
<1>3. PICK c : c = p \o s
  OBVIOUS
<1>4. Range(c) = Range(p) \cup Range(s)
  BY <1>3, Joined
<1>5. c = q \o r \o s
  BY <1>1, <1>3
<1> QED BY <1>2, <1>4, <1>5

\* An execution has succeeded.
LEMMA SuccessLetsGo ==
    ASSUME NEW t \in Task, NEW j \in JobId,
           Known(t)', ~Opened(t)', Quiet(t)', Only(t, j)'
    PROVE  Finishing(Range(Success(t, j)), t)' /\ Success(t, j) # <<>>
<1> DEFINE verified == ChildOf[t] # NoTask /\ ~IsVerification(t)
           state == IF verified THEN "VERIFYING" ELSE "DONE"
<1>1. PICK open : open = [op |-> "child", id |-> ChildOf[t], of |-> j]
  OBVIOUS
<1>2. PICK own : own = SetDropJob(t, state)
  OBVIOUS
<1>3. PICK up : up = SetDropJob(ParentOf(t), "DONE")
  OBVIOUS
<1>4. PICK done : done = SetJob(j, "SUCCEEDED")
  OBVIOUS
<1>5. /\ open.op = "child" /\ open.id = ChildOf[t]
      /\ own.op = "task" /\ own.id = t /\ own.to = state
      /\ up.op = "task" /\ up.id = ParentOf(t) /\ up.to = "DONE"
      /\ done.op = "job" /\ done.id = j /\ done.to = "SUCCEEDED"
  <2>1. open.op = "child" /\ open.id = ChildOf[t]
    BY <1>1
  <2>2. own.op = "task" /\ own.id = t /\ own.to = state
    BY <1>2, TaskWrites
  <2>3. up.op = "task" /\ up.id = ParentOf(t) /\ up.to = "DONE"
    BY <1>3, TaskWrites
  <2>4. done.op = "job" /\ done.id = j /\ done.to = "SUCCEEDED"
    BY <1>4, JobWrites
  <2> QED BY <2>1, <2>2, <2>3, <2>4
<1>6. /\ own \in Write /\ done \in Write
      /\ verified => open \in Write
      /\ IsVerification(t) => up \in Write
  <2>1. <<own>> \in Seq(Write)
    BY <1>2, StateTyped, Outcomes
  <2>2. <<done>> \in Seq(Write)
    BY <1>4, JobTyped, Outcomes
  <2>3. IsVerification(t) => <<up>> \in Seq(Write)
    BY <1>3, ParentTyped, StateTyped, Outcomes
  <2>4. verified => open \in Write
    BY <1>1, LedgerAssumption DEF Write
  <2> QED BY <2>1, <2>2, <2>3, <2>4
<1>7. PICK release \in Seq(Write) : release = Release(t, "DONE")
  BY LeasesTyped, Outcomes
<1>8. PICK clear : /\ clear.op = "unclaim" /\ clear.id = t
                   /\ Range(release) = {Unreserve(t), clear}
  BY <1>7, LeaseWrites
<1>9. PICK rest \in Seq(Write) :
        /\ Success(t, j) = <<done>> \o release \o rest
        /\ Range(rest) = IF verified THEN {open, own}
                         ELSE {own} \cup (IF IsVerification(t) THEN {up} ELSE {})
  <2>1. CASE verified
    <3>1. Success(t, j) = <<done>> \o release \o <<open, own>>
      BY <1>1, <1>2, <1>4, <1>7, <2>1 DEF Success
    <3>2. <<open, own>> \in Seq(Write)
      BY <1>6, <2>1
    <3> QED BY <2>1, <3>1, <3>2, Elements
  <2>2. CASE ~verified /\ IsVerification(t)
    <3>1. Success(t, j) = <<done>> \o release \o (<<own>> \o <<up>>)
      BY <1>2, <1>3, <1>4, <1>7, <2>2 DEF Success
    <3>2. <<own>> \o <<up>> \in Seq(Write) /\ Range(<<own>> \o <<up>>) = {own, up}
      BY <1>6, <2>2, TwoWrites
    <3>3. PICK rest : rest = <<own>> \o <<up>>
      OBVIOUS
    <3> QED BY <2>2, <3>1, <3>2, <3>3
  <2>3. CASE ~verified /\ ~IsVerification(t)
    <3>1. Success(t, j) = <<done>> \o release \o (<<own>> \o <<>>)
      BY <1>2, <1>4, <1>7, <2>3 DEF Success
    <3>2. <<own>> \o <<>> = <<own>> /\ <<own>> \in Seq(Write)
      BY <1>6
    <3> QED BY <2>3, <3>1, <3>2, Elements
  <2> QED BY <2>1, <2>2, <2>3
<1>10. PICK P : P = Range(Success(t, j))
  OBVIOUS
<1>11. P = {done, Unreserve(t), clear} \cup
           (IF verified THEN {open, own}
            ELSE {own} \cup (IF IsVerification(t) THEN {up} ELSE {}))
  <2>1. PICK first \in Seq(Write) : first = <<done>> /\ Range(first) = {done}
    BY <1>6, OneWrite, Zenon
  <2>2. Range(first \o release \o rest) = Range(first) \cup Range(release) \cup Range(rest)
    BY ThreeJoined
  <2>3. P = Range(first \o release \o rest)
    BY <1>9, <1>10, <2>1
  <2> QED BY <1>8, <1>9, <2>1, <2>2, <2>3
<1>12. Unreserve(t).op = "unreserve" /\ Unreserve(t).id = t
  BY LeaseWrites
<1>13. /\ \E e \in P : e.op = "unreserve"
       /\ \E e \in P : e.op = "unclaim"
       /\ \A i \in JobId : i[1] = t /\ Active(i)' => \E e \in P : e.op = "job" /\ e.id = i
       /\ \E e \in P : e.op = "task" /\ e.id = t
  BY <1>5, <1>8, <1>11, <1>12 DEF Only
<1>14. ASSUME NEW e \in P
       PROVE  \/ e.op \in {"unreserve", "unclaim"} /\ e.id = t
              \/ e.op = "job" /\ e.id[1] = t /\ e.to \notin ACTIVE_JOB_STATES
              \/ /\ e.op = "task" /\ e.to = state
                 /\ \/ e.id = t
                    \/ IsVerification(t) /\ e.id = ParentOf(t) /\ state \in {"DONE", "FAILED"}
              \/ /\ e.op = "child" /\ e.id = ChildOf[t] /\ state = "VERIFYING"
                 /\ \A f \in P : f.op = "child" => f = e
  BY <1>5, <1>8, <1>11, <1>12 DEF Only, ACTIVE_JOB_STATES
<1>15. state \in LetGo
  BY DEF LetGo
<1>16. Finishing(P, t)'
  BY <1>13, <1>14, <1>15, LetsGo
<1>17. Success(t, j) # <<>>
  BY <1>10, <1>11, Elements
<1> QED BY <1>10, <1>16, <1>17

\* An execution has failed.
LEMMA FailureLetsGo ==
    ASSUME NEW t \in Task, NEW j \in JobId, NEW row, NEW status \in {"FAILED", "CANCELLED"},
           Known(t)', ~Opened(t)', Quiet(t)', Only(t, j)'
    PROVE  Finishing(Range(Failure(t, row, j, status)), t)' /\ Failure(t, row, j, status) # <<>>
<1>1. PICK next \in {"RETRYABLE", "FAILED"} : next = NextTry(row.attempts, row.max)
  BY DEF NextTry
<1>2. PICK own : own = [SetError(t, next) EXCEPT !.job = NoJob]
  OBVIOUS
<1>3. PICK up : up = SetError(ParentOf(t), "FAILED")
  OBVIOUS
<1>4. PICK done : done = SetJob(j, status)
  OBVIOUS
<1>5. /\ own.op = "task" /\ own.id = t /\ own.to = next
      /\ up.op = "task" /\ up.id = ParentOf(t) /\ up.to = "FAILED"
      /\ done.op = "job" /\ done.id = j /\ done.to = status
  <2>1. own.op = "task" /\ own.id = t /\ own.to = next
    BY <1>2, TaskWrites
  <2>2. up.op = "task" /\ up.id = ParentOf(t) /\ up.to = "FAILED"
    BY <1>3, TaskWrites
  <2>3. done.op = "job" /\ done.id = j /\ done.to = status
    BY <1>4, JobWrites
  <2> QED BY <2>1, <2>2, <2>3
<1>6. own \in Write /\ done \in Write /\ (IsVerification(t) => up \in Write)
  <2>1. <<own>> \in Seq(Write)
    BY <1>1, <1>2, StateTyped, Outcomes
  <2>2. <<done>> \in Seq(Write)
    BY <1>4, JobTyped, Outcomes
  <2>3. IsVerification(t) => <<up>> \in Seq(Write)
    BY <1>3, ParentTyped, StateTyped, Outcomes
  <2> QED BY <2>1, <2>2, <2>3
<1>7. PICK release \in Seq(Write) : release = Release(t, "RETRYABLE")
  BY LeasesTyped, Outcomes
<1>8. PICK clear : /\ clear.op = "unclaim" /\ clear.id = t
                   /\ Range(release) = {Unreserve(t), clear}
  BY <1>7, LeaseWrites
<1>9. PICK rest \in Seq(Write) :
        /\ Failure(t, row, j, status) = <<done>> \o release \o <<own>> \o rest
        /\ Range(rest) = IF next = "FAILED" /\ IsVerification(t) THEN {up} ELSE {}
  <2>1. CASE next = "FAILED" /\ IsVerification(t)
    <3>1. Failure(t, row, j, status) = <<done>> \o release \o <<own>> \o <<up>>
      BY <1>1, <1>2, <1>3, <1>4, <1>7, <2>1 DEF Failure
    <3>2. <<up>> \in Seq(Write)
      BY <1>6, <2>1
    <3> QED BY <2>1, <3>1, <3>2, Elements
  <2>2. CASE ~(next = "FAILED" /\ IsVerification(t))
    <3>1. Failure(t, row, j, status) = <<done>> \o release \o <<own>> \o <<>>
      BY <1>1, <1>2, <1>3, <1>4, <1>7, <2>2 DEF Failure
    <3> QED BY <2>2, <3>1, NothingTyped, Elements
  <2> QED BY <2>1, <2>2
<1>10. PICK P : P = Range(Failure(t, row, j, status))
  OBVIOUS
<1>11. P = {done, Unreserve(t), clear, own} \cup
           (IF next = "FAILED" /\ IsVerification(t) THEN {up} ELSE {})
  <2>1. PICK first \in Seq(Write) : first = <<done>> /\ Range(first) = {done}
    BY <1>6, OneWrite, Zenon
  <2>2. PICK second \in Seq(Write) : second = <<own>> /\ Range(second) = {own}
    BY <1>6, OneWrite, Zenon
  <2>3. PICK front \in Seq(Write) : front = first \o release
    BY JoinTyped
  <2>4. Range(front) = Range(first) \cup Range(release)
    BY <2>3, Joined
  <2>5. Range(front \o second \o rest) = Range(front) \cup Range(second) \cup Range(rest)
    BY ThreeJoined
  <2>6. P = Range(front \o second \o rest)
    BY <1>9, <1>10, <2>1, <2>2, <2>3
  <2> QED BY <1>8, <1>9, <2>1, <2>2, <2>4, <2>5, <2>6
<1>12. Unreserve(t).op = "unreserve" /\ Unreserve(t).id = t
  BY LeaseWrites
<1>13. /\ \E e \in P : e.op = "unreserve"
       /\ \E e \in P : e.op = "unclaim"
       /\ \A i \in JobId : i[1] = t /\ Active(i)' => \E e \in P : e.op = "job" /\ e.id = i
       /\ \E e \in P : e.op = "task" /\ e.id = t
  BY <1>5, <1>8, <1>11, <1>12 DEF Only
<1>14. ASSUME NEW e \in P
       PROVE  \/ e.op \in {"unreserve", "unclaim"} /\ e.id = t
              \/ e.op = "job" /\ e.id[1] = t /\ e.to \notin ACTIVE_JOB_STATES
              \/ /\ e.op = "task" /\ e.to = next
                 /\ \/ e.id = t
                    \/ IsVerification(t) /\ e.id = ParentOf(t) /\ next \in {"DONE", "FAILED"}
              \/ /\ e.op = "child" /\ e.id = ChildOf[t] /\ next = "VERIFYING"
                 /\ \A f \in P : f.op = "child" => f = e
  BY <1>5, <1>8, <1>11, <1>12 DEF Only, ACTIVE_JOB_STATES
<1>15. next \in LetGo
  BY DEF LetGo, SCHEDULABLE
<1>16. Finishing(P, t)'
  BY <1>13, <1>14, <1>15, LetsGo
<1>17. Failure(t, row, j, status) # <<>>
  BY <1>10, <1>11, Elements
<1> QED BY <1>10, <1>16, <1>17

\* An execution goes on.
LEMMA RunningGoesOn ==
    ASSUME NEW t \in Task, NEW j \in JobId, NEW P,
           ~Opened(t)', Running(t, j)', Known(t)',
           StateIs(t, {"RUNNING"})' \/ \E e \in P : e.op = "task" /\ e.id = t,
           \A e \in P :
              \/ e.op \in {"renew", "hold"} /\ e.id = t
              \/ e.op = "job" /\ e.id = j /\ e.to = "RUNNING"
              \/ e.op = "task" /\ e.id = t /\ e.to = "RUNNING"
    PROVE  Finishing(P, t)'
<1>1. WillBe(P, t, "RUNNING")'
  BY DEF WillBe, Writes, StateIs
<1>2. GoingOn(P, t)'
  BY <1>1 DEF GoingOn
<1>3. Concerns(P, t)'
  BY DEF Concerns, Running, Only
<1> QED BY <1>2, <1>3 DEF Finishing

\* The calls that have no more writes due.
LEMMA HandAt ==
    ASSUME OneTick, TypeInv, Hands, NEW pc, At(tick, pc), pc \notin Phases
    PROVE  \E t \in Task :
             /\ Hand.t = t /\ Hand.pc = pc /\ Hand.todo = <<>> /\ ~Opened(t)
             /\ \/ pc \in {"depend", "acquire", "route", "claim", "insert"} /\ Placing(Hand, t)
                \/ \E j \in JobId :
                     /\ Hand.j = j
                     /\ \/ /\ pc \in {"submit", "spawn", "register", "answer"}
                           /\ StateIs(t, {"ROUTING", "RESERVED"})
                           /\ Starting(t, j) /\ Submitted(Hand, t)
                        \/ /\ pc = "settle" /\ StateIs(t, {"ROUTING", "RESERVED"})
                           /\ Answered(Hand, t) /\ job[j].status = Hand.answer
                        \/ /\ pc = "ask" /\ StateIs(t, {"RUNNING"}) /\ Running(t, j)
<1>1. /\ Hand.pc = pc /\ Hand.todo = <<>> /\ Typed(Hand)
      /\ ~Resolved(Hand)
  BY HandTyped DEF At, Hand, Resolved, TypeInv
<1>2. PICK t \in Task : t = Hand.t /\ InHand(Hand, t)
  BY <1>1 DEF Hands
<1>3. CASE ~Opened(t) /\ Placing(Hand, t)
  BY <1>1, <1>2, <1>3 DEF Placing
<1>4. CASE ~Opened(t) /\ StateIs(t, {"ROUTING", "RESERVED"}) /\ Starting(t, Hand.j)
           /\ Submitted(Hand, t)
  <2>1. PICK j \in JobId : j = Hand.j
    BY <1>1, <1>4 DEF Typed, Submitted, Submission
  <2> QED BY <1>1, <1>2, <1>4, <2>1 DEF Submitted
<1>5. CASE ~Opened(t) /\ StateIs(t, {"ROUTING", "RESERVED"}) /\ Answered(Hand, t)
  <2>1. PICK j \in JobId : j = Hand.j
    BY <1>1, <1>5 DEF Typed, Answered, Submission
  <2>2. Hand.pc = "settle" /\ job[j].status = Hand.answer
    BY <1>1, <1>5, <2>1 DEF Answered
  <2> QED BY <1>1, <1>2, <1>5, <2>1, <2>2
<1>6. CASE ~Opened(t) /\ Hand.pc = "ask" /\ StateIs(t, {"RUNNING"}) /\ Running(t, Hand.j)
  <2>1. PICK j \in JobId : j = Hand.j
    BY <1>1, <1>6 DEF Typed
  <2> QED BY <1>1, <1>2, <1>6, <2>1
<1> QED BY <1>1, <1>2, <1>3, <1>4, <1>5, <1>6 DEF InHand

\* The handler of t goes on at another place of the same phase.
LEMMA GoesOn ==
    ASSUME OneTick, TypeInv, TypeInv', Hands, Rest, Lists,
           Hand.pc \notin Phases \cup {"ask"},
           NEW pc, NEW r, Goto(tick, pc, r), pc \notin Phases \cup {"ask"},
           NEW q, q = After(tick, pc, r), q.left = Hand.left,
           NEW t \in Task, Hand.t = t, q.t = t,
           DOMAIN task \subseteq DOMAIN task',
           \A u \in Task \ {t} : Untouched(u),
           InHand(q, t)'
    PROVE  Hands' /\ Rest' /\ Lists'
<1>1. proc' = [proc EXCEPT ![tick] = q]
  BY GotoAfter, TickKnown
<1>2. q.pc = pc
  BY DEF After
<1>3. {q.pc, Hand.pc} \cap {"idle", "recover", "poll", "ask"} = {} /\ ~Resolved(q)
  BY <1>2 DEF Phases, Resolved
<1> QED BY <1>1, <1>3, Onward DEF Untouched

\* What is to become of t is decided: the writes are due.
LEMMA Decided ==
    ASSUME OneTick, TypeInv, TypeInv', Hands, Rest, Lists,
           NEW pc, NEW steps, Decide(tick, pc, steps),
           \/ pc = "poll" /\ Hand.pc = "ask"
           \/ pc = "dispatch" /\ Hand.pc \notin Phases \cup {"ask"},
           NEW t \in Task, Hand.t = t,
           DOMAIN task \subseteq DOMAIN task',
           \A u \in Task \ {t} : Untouched(u),
           IF steps = <<>> THEN AtRest(t)' ELSE Finishing(Range(steps), t)'
    PROVE  Hands' /\ Rest' /\ Lists'
<1>1. PICK q : q = [Idle EXCEPT !.pc = pc, !.left = proc[tick].left, !.todo = steps,
                                !.t = IF steps = <<>> THEN NoTask ELSE proc[tick].t]
  OBVIOUS
<1>2. proc' = [proc EXCEPT ![tick] = q]
  BY <1>1 DEF Decide
<1>3. /\ q.pc = pc /\ q.left = Hand.left /\ q.todo = steps
      /\ q.t = IF steps = <<>> THEN NoTask ELSE t
  BY <1>1 DEF Idle, Hand
<1>4. Resolved(q) <=> steps = <<>>
  BY <1>3 DEF Resolved, Phases
<1>5. \/ q.pc = "poll" /\ Hand.pc = "ask"
      \/ {q.pc, Hand.pc} \cap {"idle", "recover", "poll", "ask"} = {}
  BY <1>3 DEF Phases
<1>6. ~Resolved(q) => InHand(q, t)'
  BY <1>3, <1>4 DEF InHand, Phases
<1> QED BY <1>2, <1>3, <1>4, <1>5, <1>6, Onward DEF Untouched

-----------------------------------------------------------------------------
(* Polls                                                                     *)

LEMMA StatusSeen ==
    ASSUME ExtTypeOK, Results, NEW j \in JobId, NEW a, ext[j].known, Status(j, a)
    PROVE  /\ DOMAIN ext' = DOMAIN ext /\ Exists(j)
           /\ \A i \in DOMAIN ext \ {j} : ext'[i] = ext[i]
           /\ ext'[j].known /\ ext'[j].alive = ext[j].alive
           /\ Results'
           /\ a # "RUNNING" => ~ext'[j].alive
<1>1. ext[j] \in Execution /\ Exists(j) /\ j \in DOMAIN ext
  BY DEF Status, Exists, ExtTypeOK
<1>2. CASE a = (IF ext[j].result = "NONE" THEN "RUNNING" ELSE ext[j].result) /\ UNCHANGED ext
  BY <1>1, <1>2 DEF Results
<1>3. CASE Unaccounted(j) /\ a = "FAILED" /\ ext' = [ext EXCEPT ![j].result = "FAILED"]
  <2>1. ~ext[j].alive
    BY <1>3 DEF Unaccounted
  <2>2. /\ DOMAIN ext' = DOMAIN ext /\ \A i \in DOMAIN ext \ {j} : ext'[i] = ext[i]
        /\ ext'[j].known = ext[j].known /\ ext'[j].alive = ext[j].alive
    BY <1>1, <1>3 DEF Execution, ExtTypeOK
  <2> QED BY <1>1, <1>3, <2>1, <2>2 DEF Results
<1> QED BY <1>2, <1>3 DEF Status

LEMMA PollKeeps ==
    ASSUME OneTick, TypeInv, TypeInv', TickInv,
           PollRunning(tick) \/ PollSucceeded(tick) \/ PollFailed(tick)
    PROVE  TickInv'
<1>1. /\ TasksOK /\ JobsOK /\ ExtTypeOK /\ ExtTypeOK' /\ Hands /\ Rest /\ Lists /\ Leases
      /\ Results
  BY TablesTyped DEF TypeInv, TickInv
<1>2. /\ At(tick, "ask")
      /\ UNCHANGED task /\ UNCHANGED job /\ UNCHANGED reserved /\ UNCHANGED claims
  BY DEF PollRunning, PollSucceeded, PollFailed
<1>3. PICK t \in Task, j \in JobId :
        /\ Hand.t = t /\ Hand.j = j /\ Hand.pc = "ask" /\ ~Opened(t)
        /\ StateIs(t, {"RUNNING"}) /\ Running(t, j)
  BY <1>1, <1>2, HandAt DEF Phases
<1> DEFINE Planned(a, steps) ==
             \/ /\ a = "RUNNING"
                /\ \E s : /\ steps = Renew(t) \o <<SetJob(j, "RUNNING")>> \o s
                          /\ s \in {<<>>, <<Set(t, "RUNNING")>>}
             \/ a = "SUCCEEDED" /\ steps = Success(t, j)
             \/ a \in {"FAILED", "CANCELLED"} /\ steps = Failure(t, Hand.row, j, a)
<1>4. PICK a, steps : /\ a \in {"RUNNING", "SUCCEEDED", "FAILED", "CANCELLED"}
                      /\ Answers(j, a) /\ Decide(tick, "poll", steps) /\ Planned(a, steps)
  <2>1. CASE PollRunning(tick)
    <3>1. PICK s : s = IF proc[tick].row.state # "RUNNING" THEN <<Set(t, "RUNNING")>> ELSE <<>>
      OBVIOUS
    <3>2. s \in {<<>>, <<Set(t, "RUNNING")>>}
      BY <3>1
    <3>3. /\ Answers(j, "RUNNING")
          /\ Decide(tick, "poll", Renew(t) \o <<SetJob(j, "RUNNING")>> \o s)
      BY <1>3, <2>1, <3>1 DEF PollRunning, Hand
    <3>4. PICK steps : steps = Renew(t) \o <<SetJob(j, "RUNNING")>> \o s
      OBVIOUS
    <3>5. Answers(j, "RUNNING") /\ Decide(tick, "poll", steps)
      BY <3>3, <3>4
    <3>6. Planned("RUNNING", steps)
      BY <3>2, <3>4
    <3> HIDE DEF Planned
    <3> QED BY <3>5, <3>6
  <2>2. CASE PollSucceeded(tick)
    BY <1>3, <2>2 DEF PollSucceeded, Hand
  <2>3. CASE PollFailed(tick)
    <3>1. PICK a \in {"FAILED", "CANCELLED"} :
            Answers(j, a) /\ Decide(tick, "poll", Failure(t, Hand.row, j, a))
      BY <1>3, <2>3 DEF PollFailed, Hand
    <3>2. PICK steps : steps = Failure(t, Hand.row, j, a)
      OBVIOUS
    <3>3. Planned(a, steps)
      BY <3>2
    <3> HIDE DEF Planned
    <3> QED BY <3>1, <3>2, <3>3
  <2> QED BY <2>1, <2>2, <2>3
<1>5. /\ DOMAIN ext' = DOMAIN ext /\ Exists(j)
      /\ \A i \in DOMAIN ext \ {j} : ext'[i] = ext[i]
      /\ ext'[j].known /\ ext'[j].alive = ext[j].alive
      /\ Results'
      /\ a # "RUNNING" => ~ext'[j].alive
  BY <1>1, <1>3, <1>4, StatusSeen DEF Answers, Running
<1>6. Only(t, j) /\ j[1] = t
  BY <1>3 DEF Running, Only
<1>7. ASSUME NEW u \in Task \ {t} PROVE Untouched(u)
  <2>1. ExecutionsKept(u)
    BY <1>5, <1>6, <1>7 DEF ExecutionsKept, Exists
  <2> QED BY <1>2, <2>1, Same DEF Untouched
<1>8. Known(t)' /\ ~Opened(t)' /\ StateIs(t, {"RUNNING"})'
  BY <1>2, <1>3 DEF Known, Opened, StateIs
<1>9. ASSUME NEW i \in JobId PROVE (Alive(i)' <=> Alive(i)) /\ (Active(i)' <=> Active(i))
  BY <1>2, <1>5 DEF Alive, Exists, Active
<1>10. Only(t, j)' /\ Running(t, j)'
  BY <1>2, <1>3, <1>5, <1>9 DEF Running, Only, Exists, Holding, NeedsClaim
<1>11. a # "RUNNING" => Quiet(t)'
  <2> SUFFICES ASSUME a # "RUNNING", NEW i \in JobId, i[1] = t, Alive(i)' PROVE FALSE
    BY DEF Quiet
  <2>1. i = j
    BY <1>9, <1>6 DEF Only
  <2> QED BY <1>5, <2>1 DEF Alive
<1>12. steps # <<>> /\ Finishing(Range(steps), t)'
  <2>1. CASE a = "RUNNING"
    <3>1. PICK renew, e : /\ renew \in Seq(Write) /\ renew = Renew(t)
                          /\ Range(renew) = {e, Hold(t)}
                          /\ e.op = "renew" /\ e.id = t
      <4>1. Renew(t) \in Seq(Write)
        BY LeasesTyped, Outcomes
      <4>2. \E e : e.op = "renew" /\ e.id = t /\ Range(Renew(t)) = {e, Hold(t)}
        BY LeaseWrites
      <4> QED BY <4>1, <4>2
    <3>2. PICK set : set = SetJob(j, "RUNNING")
      OBVIOUS
    <3>3. set.op = "job" /\ set.id = j /\ set.to = "RUNNING" /\ <<set>> \in Seq(Write)
      BY <3>2, JobWrites, JobTyped, Outcomes
    <3>4. PICK one \in Seq(Write) : one = <<set>> /\ Range(one) = {set}
      BY <3>3, Elements
    <3>5. PICK f : f = Set(t, "RUNNING")
      OBVIOUS
    <3>6. f.op = "task" /\ f.id = t /\ f.to = "RUNNING" /\ <<f>> \in Seq(Write)
      <4>1. f.op = "task" /\ f.id = t /\ f.to = "RUNNING"
        BY <3>5, TaskWrites
      <4>2. <<f>> \in Seq(Write)
        BY <3>5, StateTyped, Outcomes
      <4> QED BY <4>1, <4>2
    <3>7. PICK s \in Seq(Write) : steps = renew \o one \o s /\ Range(s) \subseteq {f}
      <4>1. PICK s : steps = renew \o one \o s /\ s \in {<<>>, <<f>>}
        BY <1>4, <2>1, <3>1, <3>2, <3>4, <3>5
      <4>2. s \in Seq(Write) /\ Range(s) \subseteq {f}
        BY <3>6, <4>1, NothingTyped, Elements
      <4> QED BY <4>1, <4>2
    <3>8. PICK P : P = Range(steps)
      OBVIOUS
    <3>9. P = Range(renew) \cup Range(one) \cup Range(s)
      BY <3>1, <3>7, <3>8, ThreeJoined
    <3>10. Hold(t).op = "hold" /\ Hold(t).id = t
      BY LeaseWrites
    <3>11. Finishing(P, t)'
      BY <1>8, <1>10, <3>1, <3>3, <3>4, <3>6, <3>7, <3>9, <3>10, RunningGoesOn
    <3>12. steps # <<>>
      BY <3>4, <3>8, <3>9, Elements
    <3> QED BY <3>8, <3>11, <3>12
  <2>2. CASE a = "SUCCEEDED"
    BY <1>4, <1>8, <1>10, <1>11, <2>2, SuccessLetsGo
  <2>3. CASE a \in {"FAILED", "CANCELLED"}
    <3>1. PICK row : row = Hand.row
      OBVIOUS
    <3>2. /\ Finishing(Range(Failure(t, row, j, a)), t)'
          /\ Failure(t, row, j, a) # <<>>
      BY <1>8, <1>10, <1>11, <2>3, FailureLetsGo
    <3> QED BY <1>4, <2>3, <3>1, <3>2
  <2> QED BY <1>4, <2>1, <2>2, <2>3
<1>13. Hands' /\ Rest' /\ Lists'
  BY <1>1, <1>2, <1>3, <1>4, <1>7, <1>12, Decided
<1> QED BY <1>1, <1>2, <1>5, <1>13, LeasesKept DEF TickInv

-----------------------------------------------------------------------------
(* Dispatch                                                                  *)

LEMMA NothingTouched ==
    ASSUME ReadOnly
    PROVE  /\ \A u \in Task : Untouched(u)
           /\ UNCHANGED task /\ UNCHANGED job /\ UNCHANGED reserved /\ UNCHANGED claims
           /\ UNCHANGED ext
<1>1. /\ UNCHANGED task /\ UNCHANGED job /\ UNCHANGED reserved /\ UNCHANGED claims
      /\ UNCHANGED ext
  BY DEF ReadOnly
<1> QED BY <1>1, Same DEF Untouched

LEMMA DependKeeps ==
    ASSUME OneTick, TypeInv, TypeInv', TickInv, CheckDependencies(tick)
    PROVE  TickInv'
<1>1. /\ TasksOK /\ JobsOK /\ ExtTypeOK' /\ Hands /\ Rest /\ Lists /\ Leases /\ Results
      /\ ReadOnly /\ At(tick, "depend")
  BY TablesTyped DEF TypeInv, TickInv, CheckDependencies
<1>2. PICK t \in Task : /\ Hand.t = t /\ Hand.pc = "depend" /\ Hand.todo = <<>> /\ ~Opened(t)
                        /\ StateIs(t, SCHEDULABLE) /\ Free(t)
  BY <1>1, HandAt DEF Phases, Placing
<1>3. /\ \A u \in Task : Untouched(u)
      /\ UNCHANGED task /\ UNCHANGED job /\ UNCHANGED reserved /\ UNCHANGED claims
      /\ UNCHANGED ext
  BY <1>1, NothingTouched
<1>4. AtRest(t)'
  <2>1. AtRest(t)
    BY <1>2 DEF AtRest, StateIs, LetGo
  <2> QED BY <1>1, <1>3, <2>1, RestKept
<1>5. ~Opened(t)' /\ StateIs(t, SCHEDULABLE)' /\ Known(t)' /\ Free(t)' /\ Quiet(t)'
  <2>1. Free(t)'
    BY <1>1, <1>2, <1>3, PlacesKept DEF Untouched
  <2> QED BY <1>2, <1>3, <2>1 DEF Opened, Known, StateIs, SCHEDULABLE, Free, Quiet, Unplaced
<1>6. Leases' /\ Results'
  BY <1>1, <1>3, LeasesKept DEF Results
<1>7. CASE Goto(tick, "acquire", [t |-> t])
  <2>1. PICK q : q = After(tick, "acquire", [t |-> t])
    OBVIOUS
  <2>2. q.pc = "acquire" /\ q.t = t /\ q.todo = <<>> /\ q.left = Hand.left
    BY <1>2, <2>1 DEF After, Field, Hand
  <2>3. InHand(q, t)'
    BY <1>5, <2>2 DEF InHand, Placing, SCHEDULABLE
  <2>4. Hands' /\ Rest' /\ Lists'
    BY <1>1, <1>2, <1>3, <1>7, <2>1, <2>2, <2>3, GoesOn DEF Phases
  <2> QED BY <1>6, <2>4 DEF TickInv
<1>8. CASE Decide(tick, "dispatch", <<>>)
  <2>1. Hands' /\ Rest' /\ Lists'
    BY <1>1, <1>2, <1>3, <1>4, <1>8, Decided DEF Phases
  <2> QED BY <1>6, <2>1 DEF TickInv
<1>9. CASE Decide(tick, "dispatch", <<SetError(t, "BLOCKED")>>)
  <2>1. PICK e : e = SetError(t, "BLOCKED")
    OBVIOUS
  <2>2. e.op = "task" /\ e.id = t /\ e.to = "BLOCKED"
    BY <2>1, TaskWrites
  <2>3. PICK P : P = {e}
    OBVIOUS
  <2>4. Finishing(P, t)'
    <3>1. "BLOCKED" \in LetGo
      BY DEF LetGo
    <3>2. /\ ~(t \in DOMAIN reserved)' /\ ~W!Leased(claims', t)
          /\ \A j \in JobId : j[1] = t => ~Active(j)'
      BY <1>5 DEF Free, Unplaced
    <3> QED BY <1>5, <2>2, <2>3, <3>1, <3>2, LetsGo
  <2>5. PICK steps : steps = <<e>>
    OBVIOUS
  <2>6. steps # <<>> /\ Range(steps) = P
    BY <2>3, <2>5, Elements
  <2>7. Hands' /\ Rest' /\ Lists'
    BY <1>1, <1>2, <1>3, <1>9, <2>1, <2>4, <2>5, <2>6, Decided DEF Phases
  <2> QED BY <1>6, <2>7 DEF TickInv
<1> QED BY <1>2, <1>7, <1>8, <1>9 DEF CheckDependencies, Hand

LEMMA AcquireKeeps ==
    ASSUME OneTick, TypeInv, TypeInv', TickInv, AcquireDispatchLease(tick)
    PROVE  TickInv'
<1>1. /\ TasksOK /\ JobsOK /\ ExtTypeOK' /\ Hands /\ Rest /\ Lists /\ Leases /\ Results
      /\ At(tick, "acquire")
      /\ UNCHANGED job /\ UNCHANGED reserved /\ UNCHANGED claims /\ UNCHANGED ext
  BY TablesTyped DEF TypeInv, TickInv, AcquireDispatchLease
<1>2. PICK t \in Task : /\ Hand.t = t /\ Hand.pc = "acquire" /\ Hand.todo = <<>> /\ ~Opened(t)
                        /\ StateIs(t, SCHEDULABLE) /\ Free(t)
  BY <1>1, HandAt DEF Phases, Placing
<1>3. Leases' /\ Results'
  BY <1>1, LeasesKept DEF Results
<1>4. ASSUME NEW old \in BOOLEAN, Goto(tick, "route", [t |-> t]),
             task' = [task EXCEPT ![t] = [@ EXCEPT
                          !.state = "ROUTING", !.old = old, !.unknown = FALSE]]
      PROVE  TickInv'
  <2>1. PICK row \in TaskRow : row = task[t]
    BY <1>1, <1>2 DEF StateIs, Known, TasksOK
  <2>2. task' = [task EXCEPT ![t] = [row EXCEPT
                    !.state = "ROUTING", !.old = old, !.unknown = FALSE]]
    BY <1>4, <2>1
  <2>3. /\ DOMAIN task' = DOMAIN task /\ task'[t].state = "ROUTING"
        /\ \A u \in DOMAIN task \ {t} : task'[u] = task[u]
        /\ task'[t].of = task[t].of
    BY <1>1, <1>2, <2>1, <2>2 DEF StateIs, Known, TasksOK, TaskRow
  <2>4. ASSUME NEW u \in Task \ {t} PROVE Untouched(u)
    <3>1. TaskKept(u)
      BY <2>3, <2>4 DEF TaskKept, Known, Opened
    <3> QED BY <1>1, <3>1, Same DEF Untouched
  <2>5. PICK q : q = After(tick, "route", [t |-> t])
    OBVIOUS
  <2>6. q.pc = "route" /\ q.t = t /\ q.todo = <<>> /\ q.left = Hand.left
    BY <1>2, <2>5 DEF After, Field, Hand
  <2>7. InHand(q, t)'
    <3>1. Free(t)'
      BY <1>1, <1>2, Same, PlacesKept
    <3>2. ~Opened(t)' /\ StateIs(t, {"ROUTING"})'
      BY <1>2, <2>3 DEF Opened, Known, StateIs
    <3> QED BY <2>6, <3>1, <3>2 DEF InHand, Placing
  <2>8. Hands' /\ Rest' /\ Lists'
    BY <1>1, <1>2, <1>4, <2>3, <2>4, <2>5, <2>6, <2>7, GoesOn DEF Phases
  <2> QED BY <1>3, <2>8 DEF TickInv
<1>5. CASE Decide(tick, "dispatch", <<>>) /\ UNCHANGED task
  <2>1. \A u \in Task : Untouched(u)
    BY <1>1, <1>5, Same DEF Untouched
  <2>2. AtRest(t)
    BY <1>2 DEF AtRest, StateIs, LetGo
  <2>3. AtRest(t)'
    BY <1>1, <2>1, <2>2, RestKept
  <2>4. Hands' /\ Rest' /\ Lists'
    BY <1>1, <1>2, <1>5, <2>1, <2>3, Decided DEF Phases
  <2> QED BY <1>3, <2>4 DEF TickInv
<1> QED BY <1>2, <1>4, <1>5 DEF AcquireDispatchLease, Stamp, Hand

LEMMA RouteKeeps ==
    ASSUME OneTick, TypeInv, TypeInv', TickInv, RouteAndReserve(tick)
    PROVE  TickInv'
<1>1. /\ TasksOK /\ JobsOK /\ ReservedOK /\ ExtTypeOK' /\ Hands /\ Rest /\ Lists /\ Leases
      /\ Results /\ At(tick, "route")
      /\ UNCHANGED task /\ UNCHANGED job /\ UNCHANGED claims /\ UNCHANGED ext
  BY TablesTyped DEF TypeInv, TickInv, RouteAndReserve
<1>2. PICK t \in Task : /\ Hand.t = t /\ Hand.pc = "route" /\ Hand.todo = <<>> /\ ~Opened(t)
                        /\ StateIs(t, {"ROUTING"}) /\ Free(t)
  BY <1>1, HandAt DEF Phases, Placing
<1>3. PICK kept : kept = [u \in Unexpired |-> reserved[u]]
  OBVIOUS
<1>4. Unexpired = DOMAIN reserved /\ kept = reserved /\ t \notin Unexpired
  <2>1. Unexpired = DOMAIN reserved
    BY <1>1 DEF Unexpired, Leases
  <2>2. kept = reserved
    BY <1>1, <1>3, <2>1 DEF ReservedOK
  <2> QED BY <1>2, <2>1, <2>2 DEF Free
<1>5. /\ ~Opened(t)' /\ StateIs(t, {"ROUTING"})' /\ Known(t)'
      /\ Unplaced(t)' /\ Quiet(t)' /\ ~W!Leased(claims', t)
      /\ \A j \in JobId : j[1] = t => ~Active(j)'
  BY <1>1, <1>2 DEF Opened, Known, StateIs, Free, Unplaced, Quiet, Alive, Exists, Active
<1>6. /\ \A u \in Task \ {t} : u \in DOMAIN reserved' <=> u \in DOMAIN reserved
      /\ \A u \in DOMAIN reserved' : reserved'[u].fresh
      => (\A u \in Task \ {t} : Untouched(u)) /\ Leases' /\ Results'
  <2> SUFFICES ASSUME \A u \in Task \ {t} : u \in DOMAIN reserved' <=> u \in DOMAIN reserved,
                      \A u \in DOMAIN reserved' : reserved'[u].fresh
               PROVE  (\A u \in Task \ {t} : Untouched(u)) /\ Leases' /\ Results'
    OBVIOUS
  <2>1. ASSUME NEW u \in Task \ {t} PROVE Untouched(u)
    <3>1. ReservedKept(u)
      BY <2>1 DEF ReservedKept
    <3> QED BY <1>1, <3>1, Same DEF Untouched
  <2>2. Leases' /\ Results'
    BY <1>1 DEF Leases, Results, W!LeasesDisjoint
  <2> QED BY <2>1, <2>2
<1>7. ASSUME NEW w, Goto(tick, "claim", [place |-> [worker |-> w, reused |-> FALSE]]),
             reserved' = With(kept, t, [worker |-> w, fresh |-> TRUE])
      PROVE  TickInv'
  <2>1. PICK row : row = [worker |-> w, fresh |-> TRUE]
    OBVIOUS
  <2>2. /\ DOMAIN reserved' = DOMAIN reserved \cup {t}
        /\ \A u \in DOMAIN reserved' : reserved'[u] = IF u = t THEN row ELSE reserved[u]
    BY <1>4, <1>7, <2>1 DEF With
  <2>3. \A u \in DOMAIN reserved' : reserved'[u].fresh
    BY <1>1, <2>1, <2>2 DEF Leases
  <2>4. (\A u \in Task \ {t} : Untouched(u)) /\ Leases' /\ Results'
    BY <1>6, <2>2, <2>3
  <2>5. PICK place : place = [worker |-> w, reused |-> FALSE]
    OBVIOUS
  <2>6. PICK q : q = After(tick, "claim", [place |-> place])
    OBVIOUS
  <2>7. /\ q.pc = "claim" /\ q.t = t /\ q.todo = <<>> /\ q.left = Hand.left
        /\ q.place = place /\ ~place.reused
    BY <1>2, <2>5, <2>6 DEF After, Field, Hand
  <2>8. InHand(q, t)'
    BY <1>5, <2>2, <2>7 DEF InHand, Placing
  <2>9. Hands' /\ Rest' /\ Lists'
    BY <1>1, <1>2, <1>7, <2>4, <2>5, <2>6, <2>7, <2>8, GoesOn DEF Phases
  <2> QED BY <2>4, <2>9 DEF TickInv
<1>8. ASSUME Decide(tick, "dispatch", <<SetError(t, "WAITING_CAPACITY")>>), reserved' = kept
      PROVE  TickInv'
  <2>1. (\A u \in Task \ {t} : Untouched(u)) /\ Leases' /\ Results'
    BY <1>1, <1>4, <1>6, <1>8 DEF Leases
  <2>2. PICK e : e = SetError(t, "WAITING_CAPACITY")
    OBVIOUS
  <2>3. e.op = "task" /\ e.id = t /\ e.to = "WAITING_CAPACITY"
    BY <2>2, TaskWrites
  <2>4. PICK P : P = {e}
    OBVIOUS
  <2>5. Finishing(P, t)'
    <3>1. "WAITING_CAPACITY" \in LetGo
      BY DEF LetGo, SCHEDULABLE
    <3>2. t \notin DOMAIN reserved'
      BY <1>2, <1>4, <1>8 DEF Free
    <3> QED BY <1>5, <2>3, <2>4, <3>1, <3>2, LetsGo
  <2>6. PICK steps : steps = <<e>>
    OBVIOUS
  <2>7. steps # <<>> /\ Range(steps) = P
    BY <2>4, <2>6, Elements
  <2>8. Hands' /\ Rest' /\ Lists'
    BY <1>1, <1>2, <1>8, <2>1, <2>2, <2>5, <2>6, <2>7, Decided DEF Phases
  <2> QED BY <2>1, <2>8 DEF TickInv
<1> QED BY <1>2, <1>3, <1>4, <1>7, <1>8 DEF RouteAndReserve, Hand

\* A claim that is granted or queued: t's row is put into the table.
LEMMA RowPut ==
    ASSUME TypeInv, TypeInv', NEW t \in Task, ~W!Leased(claims, t), Leases,
           UNCHANGED reserved, NEW w, NEW state \in {"CLAIMED", "QUEUED"},
           claims' = W!Put(claims, t, W!NewRow(Request(t, w), state, 0)),
           state = "CLAIMED" => W!Conflicts(claims, t, BaseOf[t], ScopesOf[t], 0) = {}
    PROVE  /\ Leases'
           /\ \A u \in Task \ {t} : ClaimKept(u)
           /\ W!Leased(claims', t) <=> state = "CLAIMED"
<1>1. PICK row : row = W!NewRow(Request(t, w), state, 0)
  OBVIOUS
<1>2. /\ row.base = BaseOf[t] /\ row.scopes = ScopesOf[t] /\ row.state = state /\ row.left = 1
  BY <1>1 DEF W!NewRow, Request
<1>3. /\ DOMAIN claims' = DOMAIN claims \cup {t}
      /\ claims'[t] = row
      /\ \A u \in DOMAIN claims \ {t} : claims'[u] = claims[u]
  BY <1>1 DEF W!Put
<1>4. W!Leased(claims', t) <=> state = "CLAIMED"
  BY <1>2, <1>3 DEF W!Leased, W!LEASE_STATES
<1>5. ASSUME NEW u \in Task \ {t} PROVE ClaimKept(u)
  BY <1>3, <1>5 DEF ClaimKept, W!Leased
<1>6. ASSUME NEW u \in DOMAIN claims, u # t, W!Leased(claims, u), W!Leased(claims', t),
             claims[u].base = BaseOf[t]
      PROVE  ~W!ScopesOverlap(ScopesOf[t], claims[u].scopes)
  <2>1. u \notin W!Conflicts(claims, t, BaseOf[t], ScopesOf[t], 0)
    BY <1>4, <1>6
  <2>2. claims[u].left \in Int /\ claims[u].left > 0
    <3>1. claims[u].left \in Int
      BY TablesTyped DEF TypeInv, W!TypeOK, W!Row
    <3>2. claims[u].state \in W!EXPIRING_STATES
      BY <1>6 DEF W!Leased, W!EXPIRING_STATES
    <3> QED BY <3>1, <3>2 DEF Leases
  <2> QED BY <1>6, <2>1, <2>2 DEF W!Conflicts
<1>7. W!LeasesDisjoint'
  <2> SUFFICES ASSUME NEW u \in DOMAIN claims', NEW v \in DOMAIN claims', u # v,
                      W!Leased(claims', u), W!Leased(claims', v),
                      claims'[u].base = claims'[v].base
               PROVE  ~W!ScopesOverlap(claims'[u].scopes, claims'[v].scopes)
    BY DEF W!LeasesDisjoint
  <2>1. CASE u = t
    <3>1. v \in DOMAIN claims /\ W!Leased(claims, v) /\ claims'[v] = claims[v]
      BY <1>3, <2>1 DEF W!Leased
    <3> QED BY <1>2, <1>3, <1>6, <2>1, <3>1
  <2>2. CASE v = t
    <3>1. u \in DOMAIN claims /\ W!Leased(claims, u) /\ claims'[u] = claims[u]
      BY <1>3, <2>2 DEF W!Leased
    <3>2. ~W!ScopesOverlap(ScopesOf[t], claims[u].scopes)
      BY <1>2, <1>3, <1>6, <2>2, <3>1
    <3>3. ~W!ScopesOverlap(claims[u].scopes, ScopesOf[t])
      BY <3>2 DEF W!ScopesOverlap
    <3> QED BY <1>2, <1>3, <2>2, <3>1, <3>3
  <2>3. CASE u # t /\ v # t
    <3>1. /\ u \in DOMAIN claims /\ W!Leased(claims, u) /\ claims'[u] = claims[u]
          /\ v \in DOMAIN claims /\ W!Leased(claims, v) /\ claims'[v] = claims[v]
      BY <1>3, <2>3 DEF W!Leased
    <3> QED BY <3>1 DEF Leases, W!LeasesDisjoint
  <2> QED BY <2>1, <2>2, <2>3
<1>8. Leases'
  <2>1. \A u \in DOMAIN claims' :
          /\ claims'[u].base = BaseOf[u] /\ claims'[u].scopes = ScopesOf[u]
          /\ claims'[u].state \in W!EXPIRING_STATES => claims'[u].left > 0
    BY <1>2, <1>3 DEF Leases
  <2> QED BY <1>7, <2>1 DEF Leases
<1> QED BY <1>4, <1>5, <1>8

LEMMA ClaimKeeps ==
    ASSUME OneTick, TypeInv, TypeInv', TickInv, ClaimWorkspace(tick)
    PROVE  TickInv'
<1>1. /\ TasksOK /\ JobsOK /\ W!TypeOK /\ ExtTypeOK' /\ Hands /\ Rest /\ Lists /\ Leases
      /\ Results /\ At(tick, "claim")
      /\ UNCHANGED task /\ UNCHANGED job /\ UNCHANGED reserved /\ UNCHANGED ext
  BY TablesTyped DEF TypeInv, TickInv, ClaimWorkspace
<1>2. PICK t \in Task :
        /\ Hand.t = t /\ Hand.pc = "claim" /\ Hand.todo = <<>> /\ ~Opened(t)
        /\ StateIs(t, {"ROUTING"}) /\ Unplaced(t) /\ t \in DOMAIN reserved
        /\ ~Hand.place.reused /\ ~W!Leased(claims, t)
  BY <1>1, HandAt DEF Phases, Placing
<1>3. PICK w : w = proc[tick].place.worker
  OBVIOUS
<1>4. PICK req : req = Request(t, w)
  OBVIOUS
<1>5. req.base = BaseOf[t] /\ req.scopes = ScopesOf[t] /\ W!Cleaned(0, {}) = claims
  BY <1>1, <1>4, NothingStale DEF Request
<1>6. /\ ~Opened(t)' /\ StateIs(t, {"ROUTING"})' /\ Known(t)'
      /\ Unplaced(t)' /\ Quiet(t)' /\ t \in DOMAIN reserved'
      /\ \A j \in JobId : j[1] = t => ~Active(j)'
  BY <1>1, <1>2 DEF Opened, Known, StateIs, Unplaced, Quiet, Alive, Exists, Active
<1>7. Results'
  BY <1>1 DEF Results
<1>8. ASSUME \A u \in Task \ {t} : ClaimKept(u)
      PROVE  \A u \in Task \ {t} : Untouched(u)
  BY <1>1, <1>8, Same DEF Untouched
<1>9. ASSUME Goto(tick, "insert", [t |-> t]), Leases', \A u \in Task \ {t} : ClaimKept(u),
             NeedsClaim(t) => W!Leased(claims', t)
      PROVE  TickInv'
  <2>1. PICK q : q = After(tick, "insert", [t |-> t])
    OBVIOUS
  <2>2. /\ q.pc = "insert" /\ q.t = t /\ q.todo = <<>> /\ q.left = Hand.left
        /\ ~q.place.reused
    BY <1>2, <2>1 DEF After, Field, Hand
  <2>3. Holding(t)'
    BY <1>6, <1>9 DEF Holding, NeedsClaim
  <2>4. InHand(q, t)'
    BY <1>6, <2>2, <2>3 DEF InHand, Placing
  <2>5. Hands' /\ Rest' /\ Lists'
    BY <1>1, <1>2, <1>8, <1>9, <2>1, <2>2, <2>4, GoesOn DEF Phases
  <2> QED BY <1>7, <1>9, <2>5 DEF TickInv
<1>10. ASSUME Decide(tick, "dispatch", <<Unreserve(t), SetError(t, "QUEUED")>>), Leases',
              \A u \in Task \ {t} : ClaimKept(u), ~W!Leased(claims', t)
       PROVE  TickInv'
  <2>1. PICK e : e = Unreserve(t)
    OBVIOUS
  <2>2. PICK f : f = SetError(t, "QUEUED")
    OBVIOUS
  <2>3. e.op = "unreserve" /\ e.id = t /\ f.op = "task" /\ f.id = t /\ f.to = "QUEUED"
    <3>1. e.op = "unreserve" /\ e.id = t
      BY <2>1, LeaseWrites
    <3>2. f.op = "task" /\ f.id = t /\ f.to = "QUEUED"
      BY <2>2, TaskWrites
    <3> QED BY <3>1, <3>2
  <2>4. PICK P : P = {e, f}
    OBVIOUS
  <2>5. Finishing(P, t)'
    <3>1. "QUEUED" \in LetGo
      BY DEF LetGo, SCHEDULABLE
    <3> QED BY <1>6, <1>10, <2>3, <2>4, <3>1, LetsGo
  <2>6. PICK steps : steps = <<e, f>>
    OBVIOUS
  <2>7. steps # <<>> /\ Range(steps) = P
    BY <2>4, <2>6, Elements
  <2>8. Hands' /\ Rest' /\ Lists'
    BY <1>1, <1>2, <1>8, <1>10, <2>1, <2>2, <2>5, <2>6, <2>7, Decided DEF Phases
  <2> QED BY <1>7, <1>10, <2>8 DEF TickInv
<1>11. CASE ~NeedsClaim(t) /\ Goto(tick, "insert", [t |-> t]) /\ UNCHANGED claims
  BY <1>1, <1>9, <1>11, LeasesKept, Same
<1>12. CASE W!ClaimGranted(t, req, 0) /\ Goto(tick, "insert", [t |-> t])
  <2>1. /\ W!Conflicts(claims, t, BaseOf[t], ScopesOf[t], 0) = {}
        /\ claims' = W!Put(claims, t, W!NewRow(Request(t, w), "CLAIMED", 0))
    BY <1>4, <1>5, <1>12 DEF W!ClaimGranted
  <2> QED BY <1>1, <1>2, <1>9, <1>12, <2>1, RowPut
<1>13. ~W!ClaimRenewed(t, req, 0)
  BY <1>2, <1>5 DEF W!ClaimRenewed
<1>14. CASE W!ClaimRefused(t, req, 0) /\
            Decide(tick, "dispatch", <<Unreserve(t), SetError(t, "QUEUED")>>)
  <2>1. UNCHANGED claims
    BY <1>5, <1>14 DEF W!ClaimRefused
  <2> QED BY <1>1, <1>2, <1>10, <1>14, <2>1, LeasesKept, Same
<1>15. CASE W!ClaimQueued(t, req, 0) /\
            Decide(tick, "dispatch", <<Unreserve(t), SetError(t, "QUEUED")>>)
  <2>1. claims' = W!Put(claims, t, W!NewRow(Request(t, w), "QUEUED", 0))
    BY <1>4, <1>5, <1>15 DEF W!ClaimQueued
  <2>2. Leases' /\ (\A u \in Task \ {t} : ClaimKept(u)) /\ ~W!Leased(claims', t)
    BY <1>1, <1>2, <2>1, RowPut
  <2> QED BY <1>10, <1>15, <2>2
<1> QED BY <1>2, <1>3, <1>4, <1>11, <1>12, <1>13, <1>14, <1>15 DEF ClaimWorkspace, Hand

LEMMA InsertKeeps ==
    ASSUME OneTick, TypeInv, TypeInv', TickInv, InsertManualJob(tick) \/ InsertJob(tick)
    PROVE  TickInv'
<1>1. /\ TasksOK /\ JobsOK /\ ExtTypeOK' /\ Hands /\ Rest /\ Lists /\ Leases /\ Results
      /\ At(tick, "insert")
      /\ UNCHANGED task /\ UNCHANGED reserved /\ UNCHANGED claims /\ UNCHANGED ext
  BY TablesTyped DEF TypeInv, TickInv, InsertManualJob, InsertJob
<1>2. PICK t \in Task :
        /\ Hand.t = t /\ Hand.pc = "insert" /\ Hand.todo = <<>> /\ ~Opened(t)
        /\ StateIs(t, {"ROUTING"}) /\ Unplaced(t) /\ Holding(t)
  BY <1>1, HandAt DEF Phases, Placing
<1>3. PICK j, w, status, old :
        /\ j \in JobId /\ j[1] = t
        /\ \/ job' = With(job, j, NewJob(w, status))
           \/ job' = With(job, j, [NewJob(w, status) EXCEPT !.old = old])
        /\ \/ /\ status = "AWAITING_MANUAL"
              /\ Decide(tick, "dispatch", <<Unreserve(t), Attempt(t, j, "AWAITING_MANUAL")>>)
           \/ /\ status = "SUBMITTING"
              /\ Goto(tick, "submit", [j |-> j, todo |-> <<Attempt(t, j, "RESERVED")>>])
  <2>1. PICK j : j = FreshJob(t) /\ j[1] = t
    <3>1. PICK n : n = Cardinality(JobsOf(t)) + 1
      OBVIOUS
    <3>2. PICK j : j = <<t, n>>
      OBVIOUS
    <3> QED BY <3>1, <3>2 DEF FreshJob
  <2>2. PICK w : w = proc[tick].place.worker
    OBVIOUS
  <2>3. CASE InsertManualJob(tick)
    BY <1>2, <2>1, <2>2, <2>3 DEF InsertManualJob, Hand
  <2>4. CASE InsertJob(tick)
    BY <1>2, <2>1, <2>2, <2>4 DEF InsertJob, Hand
  <2> QED BY <2>3, <2>4
<1>4. /\ DOMAIN job' = DOMAIN job \cup {j} /\ job'[j].status = status
      /\ \A i \in DOMAIN job \ {j} : job'[i] = job[i]
  BY <1>3 DEF With, NewJob
<1>5. ASSUME NEW u \in Task \ {t} PROVE Untouched(u)
  <2>1. JobsKept(u)
    BY <1>3, <1>4, <1>5 DEF JobsKept
  <2> QED BY <1>1, <2>1, Same DEF Untouched
<1>6. /\ ~Opened(t)' /\ StateIs(t, {"ROUTING"})' /\ Known(t)' /\ Holding(t)' /\ Quiet(t)'
  BY <1>1, <1>2 DEF Opened, Known, StateIs, Holding, NeedsClaim, Unplaced, Quiet, Alive, Exists
<1>7. ASSUME NEW i \in JobId, i[1] = t, i # j PROVE ~Active(i)'
  BY <1>2, <1>4, <1>7 DEF Unplaced, Active
<1>8. Leases' /\ Results'
  BY <1>1, LeasesKept DEF Results
<1>9. CASE /\ status = "AWAITING_MANUAL"
           /\ Decide(tick, "dispatch", <<Unreserve(t), Attempt(t, j, "AWAITING_MANUAL")>>)
  <2>1. PICK e : e = Unreserve(t)
    OBVIOUS
  <2>2. PICK f : f = Attempt(t, j, "AWAITING_MANUAL")
    OBVIOUS
  <2>3. e.op = "unreserve" /\ e.id = t /\ f.op = "task" /\ f.id = t /\ f.to = "AWAITING_MANUAL"
    BY <2>1, <2>2, LeaseWrites, AttemptWrites
  <2>4. PICK P : P = {e, f}
    OBVIOUS
  <2>5. \A i \in JobId : i[1] = t => ~Active(i)'
    BY <1>4, <1>7, <1>9 DEF Active, ACTIVE_JOB_STATES
  <2>6. Finishing(P, t)'
    BY <1>6, <2>3, <2>4, <2>5, LetsGo
  <2>7. PICK steps : steps = <<e, f>>
    OBVIOUS
  <2>8. steps # <<>> /\ Range(steps) = P
    BY <2>4, <2>7, Elements
  <2>9. Hands' /\ Rest' /\ Lists'
    BY <1>1, <1>2, <1>5, <1>9, <2>1, <2>2, <2>6, <2>7, <2>8, Decided DEF Phases
  <2> QED BY <1>8, <2>9 DEF TickInv
<1>10. CASE /\ status = "SUBMITTING"
            /\ Goto(tick, "submit", [j |-> j, todo |-> <<Attempt(t, j, "RESERVED")>>])
  <2>1. PICK r : r = [j |-> j, todo |-> <<Attempt(t, j, "RESERVED")>>]
    OBVIOUS
  <2>2. PICK q : q = After(tick, "submit", r)
    OBVIOUS
  <2>3. /\ q.pc = "submit" /\ q.t = t /\ q.todo = <<Attempt(t, j, "RESERVED")>>
        /\ q.left = Hand.left /\ q.j = j
    BY <1>2, <2>1, <2>2 DEF After, Field, Hand
  <2>4. Only(t, j)'
    BY <1>3, <1>4, <1>6, <1>7 DEF Only, Quiet
  <2>5. Starting(t, j)' /\ Submitted(q, t)'
    BY <1>4, <1>6, <1>10, <2>3, <2>4 DEF Starting, Submitted
  <2>6. StateIs(t, {"ROUTING", "RESERVED"})'
    BY <1>6 DEF StateIs
  <2>7. InHand(q, t)'
    BY <1>6, <2>3, <2>5, <2>6 DEF InHand
  <2>8. Hands' /\ Rest' /\ Lists'
    BY <1>1, <1>2, <1>5, <1>10, <2>1, <2>2, <2>3, <2>7, GoesOn DEF Phases
  <2> QED BY <1>8, <2>8 DEF TickInv
<1> QED BY <1>3, <1>9, <1>10

\* A step of the submission of j that may change what is there of j outside.
LEMMA SubmissionKeeps ==
    ASSUME OneTick, TypeInv, TypeInv', TickInv, NEW pc, At(tick, pc),
           pc \in {"submit", "spawn", "register", "answer"},
           UNCHANGED <<task, job, reserved, claims, faults>>,
           NEW t \in Task, t = Hand.t, NEW j \in JobId, j = Hand.j, Only(t, j),
           DOMAIN ext \subseteq DOMAIN ext',
           \A i \in DOMAIN ext' \ {j} : i \in DOMAIN ext /\ ext'[i] = ext[i],
           Exists(j) => Exists(j)',
           Exists(j)' => (ext'[j].result # "NONE" => ~ext'[j].alive),
           NEW next, NEW r, Goto(tick, next, r), DOMAIN r \subseteq {"t", "answer", "todo"},
           "t" \in DOMAIN r => r.t = t,
           \/ /\ next \in {"spawn", "register", "answer"} /\ "todo" \notin DOMAIN r
              /\ next = "spawn" => Quiet(t)' /\ Exists(j)' /\ ext'[j].result = "NONE"
              /\ next = "register" => Exists(j)'
              /\ next = "answer" => (Exists(j)' => ext'[j].known)
           \/ /\ next = "settle" /\ {"todo", "answer"} \subseteq DOMAIN r
              /\ r.todo = <<SetSent(j, r.answer)>>
              /\ \/ r.answer = "RUNNING" /\ Exists(j)' /\ ext'[j].known
                 \/ r.answer \in {"SUCCEEDED", "FAILED", "CANCELLED", "AWAITING_MANUAL"}
                    /\ Quiet(t)'
    PROVE  TickInv'
<1>1. /\ TasksOK /\ JobsOK /\ ExtTypeOK' /\ Hands /\ Rest /\ Lists /\ Leases /\ Results
      /\ UNCHANGED task /\ UNCHANGED job /\ UNCHANGED reserved /\ UNCHANGED claims
  BY TablesTyped DEF TypeInv, TickInv
<1>2. /\ Hand.pc = pc /\ Hand.todo = <<>> /\ ~Opened(t)
      /\ StateIs(t, {"ROUTING", "RESERVED"}) /\ Starting(t, j)
  BY <1>1, HandAt DEF Phases
<1>3. j[1] = t
  BY DEF Only
<1>4. ASSUME NEW u \in Task \ {t} PROVE Untouched(u)
  <2>1. ExecutionsKept(u)
    BY <1>3, <1>4 DEF ExecutionsKept, Exists
  <2> QED BY <1>1, <2>1, Same DEF Untouched
<1>5. Leases' /\ Results'
  BY <1>1, LeasesKept DEF Results, Exists
<1>6. ~Opened(t)' /\ StateIs(t, {"ROUTING", "RESERVED"})'
  BY <1>1, <1>2 DEF Opened, Known, StateIs
<1>7. Holding(t)'
  BY <1>1, <1>2 DEF Starting, Holding, NeedsClaim
<1>8. ASSUME NEW i \in JobId, i # j PROVE (Alive(i)' => Alive(i)) /\ (Active(i)' <=> Active(i))
  BY <1>1, <1>8 DEF Alive, Exists, Active
<1>9. Only(t, j)'
  BY <1>1, <1>8 DEF Only
<1>10. Starting(t, j)'
  BY <1>1, <1>2, <1>7, <1>9 DEF Starting
<1>11. PICK q : q = After(tick, next, r)
  OBVIOUS
<1>12. /\ q.pc = next /\ q.t = t /\ q.left = Hand.left /\ q.j = j
       /\ q.todo = IF "todo" \in DOMAIN r THEN r.todo ELSE <<>>
       /\ "answer" \in DOMAIN r => q.answer = r.answer
  BY <1>2, <1>11 DEF After, Field, Hand
<1>13. InHand(q, t)'
  <2>1. CASE next # "settle"
    <3>1. q.todo = <<>> /\ Submitted(q, t)'
      BY <1>12, <2>1 DEF Submitted
    <3> QED BY <1>6, <1>10, <1>12, <3>1 DEF InHand
  <2>2. CASE next = "settle"
    <3>1. job'[j].status = "SUBMITTING"
      BY <1>10 DEF Starting
    <3>2. Answered(q, t)'
      BY <1>7, <1>9, <1>12, <2>2, <3>1 DEF Answered
    <3> QED BY <1>6, <3>2 DEF InHand
  <2> QED BY <2>1, <2>2
<1>14. Hands' /\ Rest' /\ Lists'
  BY <1>1, <1>2, <1>4, <1>11, <1>12, <1>13, GoesOn DEF Phases
<1> QED BY <1>5, <1>14 DEF TickInv

LEMMA SubmitStepKeeps ==
    ASSUME OneTick, TypeInv, TypeInv', TickInv,
           \/ MakeJobDirectory(tick) \/ SpawnRunner(tick) \/ RegisterRunner(tick)
           \/ SubmitManual(tick) \/ SubmitRemote(tick) \/ RemoteAnswers(tick)
    PROVE  TickInv'
<1>1. /\ ExtTypeOK /\ ExtTypeOK' /\ Hands /\ Results
      /\ UNCHANGED <<task, job, reserved, claims, faults>>
  BY TablesTyped DEF TypeInv, TickInv, MakeJobDirectory, SpawnRunner, RegisterRunner,
         SubmitManual, SubmitRemote, RemoteAnswers, ReadOnly
<1>2. PICK pc \in {"submit", "spawn", "register", "answer"} :
        /\ At(tick, pc)
        /\ MakeJobDirectory(tick) \/ SubmitManual(tick) \/ SubmitRemote(tick) => pc = "submit"
        /\ SpawnRunner(tick) => pc = "spawn"
        /\ RegisterRunner(tick) => pc = "register"
        /\ RemoteAnswers(tick) => pc = "answer"
  BY DEF MakeJobDirectory, SpawnRunner, RegisterRunner, SubmitManual, SubmitRemote,
         RemoteAnswers, SubmitTo, At
<1>3. PICK t \in Task : /\ t = Hand.t
                        /\ \E j \in JobId : j = Hand.j /\ Starting(t, j) /\ Submitted(Hand, t)
  BY <1>1, <1>2, HandAt DEF Phases
<1>4. PICK j \in JobId : j = Hand.j /\ Starting(t, j) /\ Submitted(Hand, t)
  BY <1>3
<1>5. /\ Only(t, j) /\ Hand.pc = pc
      /\ pc = "submit" => Quiet(t)
      /\ pc = "spawn" => Exists(j) /\ ext[j].result = "NONE"
      /\ pc = "register" => Exists(j)
      /\ pc = "answer" => (Exists(j) => ext[j].known)
  BY <1>2, <1>4 DEF Starting, Submitted, At, Hand
<1>6. UNCHANGED ext => (Quiet(t) => Quiet(t)')
  BY DEF Quiet, Alive, Exists
<1>7. Exists(j) => ext[j] \in Execution
  BY <1>1 DEF Exists, ExtTypeOK
<1>8. CASE MakeJobDirectory(tick)
  <2>1. /\ ~Exists(j) /\ DOMAIN ext' = DOMAIN ext \cup {j}
        /\ \A i \in DOMAIN ext : ext'[i] = ext[i]
        /\ ext'[j].alive = FALSE /\ ext'[j].result = "NONE"
    BY <1>4, <1>8 DEF MakeJobDirectory, Create, Hand, Exists
  <2>2. Quiet(t)'
    BY <1>2, <1>5, <1>8, <2>1 DEF Quiet, Alive, Exists
  <2>3. PICK r : r = [t |-> t]
    OBVIOUS
  <2>4. Goto(tick, "spawn", r) /\ DOMAIN r = {"t"} /\ r.t = t
    BY <1>3, <1>8, <2>3 DEF MakeJobDirectory, Hand
  <2> QED BY <1>1, <1>2, <1>3, <1>4, <1>5, <2>1, <2>2, <2>4, SubmissionKeeps DEF Exists
<1>9. CASE SpawnRunner(tick)
  <2>1. ext' = [ext EXCEPT ![j].alive = TRUE]
    BY <1>4, <1>9 DEF SpawnRunner, Spawn, Hand
  <2>2. /\ DOMAIN ext' = DOMAIN ext /\ Exists(j)' /\ ext'[j].result = "NONE"
        /\ \A i \in DOMAIN ext \ {j} : ext'[i] = ext[i]
    BY <1>1, <1>2, <1>5, <1>7, <1>9, <2>1 DEF Execution, Exists
  <2>3. PICK r : r = [t |-> t]
    OBVIOUS
  <2>4. Goto(tick, "register", r) /\ DOMAIN r = {"t"} /\ r.t = t
    BY <1>3, <1>9, <2>3 DEF SpawnRunner, Hand
  <2> QED BY <1>1, <1>2, <1>3, <1>4, <1>5, <2>2, <2>4, SubmissionKeeps DEF Exists
<1>10. CASE RegisterRunner(tick)
  <2>1. ext' = [ext EXCEPT ![j].known = TRUE]
    BY <1>4, <1>10 DEF RegisterRunner, Register, Hand
  <2>2. /\ DOMAIN ext' = DOMAIN ext /\ Exists(j)' /\ Exists(j) /\ ext'[j].known
        /\ ext'[j].result = ext[j].result /\ ext'[j].alive = ext[j].alive
        /\ \A i \in DOMAIN ext \ {j} : ext'[i] = ext[i]
    BY <1>1, <1>2, <1>5, <1>7, <1>10, <2>1 DEF Execution, Exists
  <2>3. PICK r : r = [answer |-> "RUNNING", todo |-> <<SetSent(j, "RUNNING")>>]
    OBVIOUS
  <2>4. /\ Goto(tick, "settle", r) /\ DOMAIN r = {"answer", "todo"}
        /\ r.answer = "RUNNING" /\ r.todo = <<SetSent(j, r.answer)>>
    BY <1>4, <1>10, <2>3 DEF RegisterRunner, Returned, Hand
  <2> QED BY <1>1, <1>2, <1>3, <1>4, <1>5, <2>2, <2>4, SubmissionKeeps DEF Exists, Results
<1>11. CASE SubmitManual(tick)
  <2>1. UNCHANGED ext /\ Quiet(t)'
    BY <1>2, <1>5, <1>6, <1>11 DEF SubmitManual, ReadOnly
  <2>2. PICK r : r = [answer |-> "AWAITING_MANUAL", todo |-> <<SetSent(j, "AWAITING_MANUAL")>>]
    OBVIOUS
  <2>3. /\ Goto(tick, "settle", r) /\ DOMAIN r = {"answer", "todo"}
        /\ r.answer = "AWAITING_MANUAL" /\ r.todo = <<SetSent(j, r.answer)>>
    BY <1>4, <1>11, <2>2 DEF SubmitManual, Returned, Hand
  <2> QED BY <1>1, <1>2, <1>3, <1>4, <1>5, <2>1, <2>3, SubmissionKeeps DEF Exists, Results
<1>12. CASE SubmitRemote(tick)
  <2>1. /\ DOMAIN ext \subseteq DOMAIN ext'
        /\ \A i \in DOMAIN ext' \ {j} : i \in DOMAIN ext /\ ext'[i] = ext[i]
        /\ Exists(j)' => ext'[j].known /\ (ext'[j].result # "NONE" => ~ext'[j].alive)
    BY <1>4, <1>12 DEF SubmitRemote, Create, Hand, Exists
  <2>2. PICK r : r = [t |-> t]
    OBVIOUS
  <2>3. Goto(tick, "answer", r) /\ DOMAIN r = {"t"} /\ r.t = t
    BY <1>3, <1>12, <2>2 DEF SubmitRemote, Hand
  <2> QED BY <1>1, <1>2, <1>3, <1>4, <1>5, <2>1, <2>3, SubmissionKeeps DEF Exists
<1>13. CASE RemoteAnswers(tick)
  <2>1. UNCHANGED ext
    BY <1>13 DEF RemoteAnswers, ReadOnly
  <2>2. PICK a : /\ Returned(tick, a)
                 /\ \/ Exists(j) /\ a = IF ext[j].result = "NONE" THEN "RUNNING"
                                        ELSE ext[j].result
                    \/ ~Exists(j) /\ a = "AWAITING_MANUAL"
    BY <1>4, <1>13 DEF RemoteAnswers, Hand, OneTick
  <2>3. \/ a = "RUNNING" /\ Exists(j)' /\ ext'[j].known
        \/ a \in {"SUCCEEDED", "FAILED", "CANCELLED", "AWAITING_MANUAL"} /\ ~Alive(j)
    BY <1>1, <1>2, <1>5, <1>7, <1>13, <2>1, <2>2 DEF Exists, Alive, Results, Execution, Result
  <2>4. ~Alive(j) => Quiet(t)'
    BY <1>5, <1>6, <2>1 DEF Only, Quiet
  <2>5. PICK r : r = [answer |-> a, todo |-> <<SetSent(j, a)>>]
    OBVIOUS
  <2>6. /\ Goto(tick, "settle", r) /\ DOMAIN r = {"answer", "todo"}
        /\ r.answer = a /\ r.todo = <<SetSent(j, r.answer)>>
    BY <1>4, <2>2, <2>5 DEF Returned, Hand
  <2> QED BY <1>1, <1>2, <1>3, <1>4, <1>5, <2>1, <2>3, <2>4, <2>6, SubmissionKeeps
          DEF Exists, Results
<1> QED BY <1>8, <1>9, <1>10, <1>11, <1>12, <1>13

LEMMA SettleKeeps ==
    ASSUME OneTick, TypeInv, TypeInv', TickInv, SettleAnswer(tick)
    PROVE  TickInv'
<1>1. /\ TasksOK /\ JobsOK /\ ExtTypeOK' /\ Hands /\ Rest /\ Lists /\ Leases /\ Results
      /\ ReadOnly /\ At(tick, "settle")
  BY TablesTyped DEF TypeInv, TickInv, SettleAnswer
<1>2. PICK t \in Task : /\ t = Hand.t /\ ~Opened(t) /\ StateIs(t, {"ROUTING", "RESERVED"})
                        /\ \E j \in JobId : /\ j = Hand.j /\ Answered(Hand, t)
                                            /\ job[j].status = Hand.answer
  BY <1>1, HandAt DEF Phases
<1>3. PICK j \in JobId : j = Hand.j /\ Answered(Hand, t) /\ job[j].status = Hand.answer
  BY <1>2
<1>4. /\ \A u \in Task : Untouched(u)
      /\ UNCHANGED task /\ UNCHANGED job /\ UNCHANGED reserved /\ UNCHANGED claims
      /\ UNCHANGED ext
  BY <1>1, NothingTouched
<1>5. PICK a : a = Hand.answer
  OBVIOUS
<1>6. /\ Hand.pc = "settle" /\ Only(t, j) /\ Holding(t)
      /\ \/ a = "RUNNING" /\ Exists(j) /\ ext[j].known
         \/ a \in {"SUCCEEDED", "FAILED", "CANCELLED", "AWAITING_MANUAL"} /\ Quiet(t)
  BY <1>3, <1>5 DEF Answered
<1>7. PICK row : row = task[t]
  OBVIOUS
<1>8. PICK steps :
        /\ Decide(tick, "dispatch", steps)
        /\ \/ a = "AWAITING_MANUAL"
              /\ steps = Release(t, "RETRYABLE") \o <<Set(t, "AWAITING_MANUAL")>>
           \/ a = "RUNNING" /\ steps = <<Set(t, "RUNNING")>>
           \/ a = "SUCCEEDED" /\ steps = Success(t, j)
           \/ a \in {"FAILED", "CANCELLED"} /\ steps = Failure(t, row, j, a)
  <2>1. \/ /\ a = "AWAITING_MANUAL"
           /\ Decide(tick, "dispatch", Release(t, "RETRYABLE") \o <<Set(t, "AWAITING_MANUAL")>>)
        \/ a = "RUNNING" /\ Decide(tick, "dispatch", <<Set(t, "RUNNING")>>)
        \/ a = "SUCCEEDED" /\ Decide(tick, "dispatch", Success(t, j))
        \/ a \in {"FAILED", "CANCELLED"} /\ Decide(tick, "dispatch", Failure(t, row, j, a))
    BY <1>2, <1>3, <1>5, <1>7 DEF SettleAnswer, OneTick, Hand
  <2>2. CASE /\ a = "AWAITING_MANUAL"
             /\ Decide(tick, "dispatch",
                       Release(t, "RETRYABLE") \o <<Set(t, "AWAITING_MANUAL")>>)
    BY <2>2
  <2>3. CASE a = "RUNNING" /\ Decide(tick, "dispatch", <<Set(t, "RUNNING")>>)
    BY <2>3
  <2>4. CASE a = "SUCCEEDED" /\ Decide(tick, "dispatch", Success(t, j))
    BY <2>4
  <2>5. CASE a \in {"FAILED", "CANCELLED"} /\ Decide(tick, "dispatch", Failure(t, row, j, a))
    BY <2>5
  <2> QED BY <2>1, <2>2, <2>3, <2>4, <2>5
<1>9. /\ ~Opened(t)' /\ Known(t)' /\ Only(t, j)' /\ (Quiet(t) => Quiet(t)')
      /\ Holding(t)' /\ (Exists(j)' <=> Exists(j)) /\ job'[j].status = a
  <2>1. Only(t, j)' /\ Holding(t)' /\ (Quiet(t) => Quiet(t)')
    BY <1>1, <1>4, <1>6, PlacesKept DEF Untouched
  <2> QED BY <1>2, <1>3, <1>4, <1>5, <2>1 DEF Opened, Known, StateIs, Exists
<1>10. steps # <<>> /\ Finishing(Range(steps), t)'
  <2>1. CASE a = "AWAITING_MANUAL"
    <3>1. PICK release, e : /\ release \in Seq(Write) /\ release = Release(t, "RETRYABLE")
                            /\ e.op = "unclaim" /\ e.id = t
                            /\ Range(release) = {Unreserve(t), e}
      <4>1. Release(t, "RETRYABLE") \in Seq(Write)
        BY LeasesTyped, Outcomes
      <4>2. \E e : /\ e.op = "unclaim" /\ e.id = t
                   /\ Range(Release(t, "RETRYABLE")) = {Unreserve(t), e}
        BY LeaseWrites
      <4> QED BY <4>1, <4>2
    <3>2. PICK f : f = Set(t, "AWAITING_MANUAL")
      OBVIOUS
    <3>3. f.op = "task" /\ f.id = t /\ f.to = "AWAITING_MANUAL"
      BY <3>2, TaskWrites
    <3>4. <<f>> \in Seq(Write)
      BY <3>2, StateTyped, Outcomes
    <3>5. PICK one \in Seq(Write) : one = <<f>> /\ Range(one) = {f}
      BY <3>4, Elements
    <3>6. steps = release \o one
      BY <1>8, <2>1, <3>1, <3>2, <3>5
    <3>7. PICK P : P = Range(steps)
      OBVIOUS
    <3>8. P = {Unreserve(t), e, f}
      <4>1. Range(release \o one) = Range(release) \cup Range(one)
        BY <3>1, <3>5, Joined
      <4>2. Range(release \o one) = {Unreserve(t), e} \cup {f}
        BY <3>1, <3>5, <4>1
      <4>3. P = Range(release \o one)
        BY <3>6, <3>7
      <4> QED BY <4>2, <4>3
    <3>9. Unreserve(t).op = "unreserve" /\ Unreserve(t).id = t
      BY LeaseWrites
    <3>10. \A i \in JobId : i[1] = t => ~Active(i)'
      BY <1>9, <2>1 DEF Only, Active, ACTIVE_JOB_STATES
    <3>11. Finishing(P, t)'
      BY <1>6, <1>9, <2>1, <3>1, <3>3, <3>8, <3>9, <3>10, LetsGo
    <3>12. steps # <<>>
      BY <3>7, <3>8, Elements
    <3> QED BY <3>7, <3>11, <3>12
  <2>2. CASE a = "RUNNING"
    <3>1. PICK f : f = Set(t, "RUNNING")
      OBVIOUS
    <3>2. f.op = "task" /\ f.id = t /\ f.to = "RUNNING"
      BY <3>1, TaskWrites
    <3>3. PICK P : P = {f}
      OBVIOUS
    <3>4. Running(t, j)'
      BY <1>4, <1>6, <1>9, <2>2 DEF Running
    <3>5. Finishing(P, t)'
      BY <1>9, <3>2, <3>3, <3>4, RunningGoesOn
    <3>6. steps = <<f>>
      BY <1>8, <2>2, <3>1
    <3>7. steps # <<>> /\ Range(steps) = P
      BY <3>3, <3>6, Elements
    <3> QED BY <3>5, <3>7
  <2>3. CASE a = "SUCCEEDED"
    BY <1>6, <1>8, <1>9, <2>3, SuccessLetsGo
  <2>4. CASE a \in {"FAILED", "CANCELLED"}
    BY <1>6, <1>8, <1>9, <2>4, FailureLetsGo
  <2> QED BY <1>8, <2>1, <2>2, <2>3, <2>4
<1>11. Hands' /\ Rest' /\ Lists'
  BY <1>1, <1>2, <1>4, <1>6, <1>8, <1>10, Decided DEF Phases
<1> QED BY <1>1, <1>4, <1>11, LeasesKept DEF TickInv, Results

-----------------------------------------------------------------------------
(* Every step                                                                *)

\* What needs an adapter that raises, a reservation that is there already, or
\* a job that a crash has left.
LEMMA NeverHappens ==
    ASSUME OneTick, TypeInv, TickInv
    PROVE  /\ ~InquireDispatchKey(tick) /\ ~OutcomeUnknown(tick) /\ ~PollError(tick)
           /\ ~PollMisreported(tick) /\ ~CollectError(tick) /\ ~WorkspaceFails(tick)
           /\ ~ReservationReused(tick) /\ ~SubmitFails(tick)
<1>1. "adapter" \notin Faults /\ Hands
  BY DEF OneTick, TickInv
<1>2. ~InquireDispatchKey(tick) /\ ~OutcomeUnknown(tick)
  <2>1. Hand.pc # "inquire"
    BY <1>1, HandPlaces DEF Phases, Submission
  <2> QED BY <2>1 DEF InquireDispatchKey, OutcomeUnknown, At, Hand
<1>3. /\ ~PollError(tick) /\ ~PollMisreported(tick) /\ ~CollectError(tick)
      /\ ~WorkspaceFails(tick) /\ ~SubmitFails(tick)
  BY <1>1 DEF PollError, PollMisreported, CollectError, WorkspaceFails, SubmitFails
<1>4. ~ReservationReused(tick)
  <2>1. At(tick, "insert") => ~Hand.place.reused
    BY <1>1, HandAt DEF Phases, Placing
  <2> QED BY <2>1 DEF ReservationReused, Hand
<1> QED BY <1>2, <1>3, <1>4

LEMMA RunKeeps ==
    ASSUME OneTick, TypeInv, TypeInv', TickInv, Run(tick)
    PROVE  TickInv'
<1>1. CASE Perform(tick)
  BY <1>1, PerformKeeps
<1>2. CASE ReconcileStep(tick)
  BY <1>2, NeverHappens, ScanKeeps, NothingToRecover, TakePoll, PollKeeps DEF ReconcileStep
<1>3. CASE DispatchStep(tick)
  BY <1>3, NeverHappens, ScanKeeps, TakeUp, DependKeeps, AcquireKeeps, RouteKeeps, ClaimKeeps,
     InsertKeeps, SubmitStepKeeps, SettleKeeps DEF DispatchStep
<1> QED BY <1>1, <1>2, <1>3 DEF Run

LEMMA StepKeeps ==
    ASSUME OneTick, TypeInv, TypeInv', TickInv, [Next]_vars
    PROVE  TickInv'
<1>1. CASE Environment
  BY <1>1, EnvironmentKeeps
<1>2. ASSUME NEW p \in Proc, Run(p) \/ CommandStep(p) \/ Crash(p) PROVE TickInv'
  <2>1. p = tick /\ Run(p)
    BY <1>2, OthersIdle DEF TickInv
  <2>2. Run(tick)
    BY <2>1
  <2> QED BY <2>2, RunKeeps
<1>3. CASE UNCHANGED vars
  <2>1. /\ UNCHANGED task /\ UNCHANGED job /\ UNCHANGED reserved /\ UNCHANGED claims
        /\ UNCHANGED ext /\ UNCHANGED proc
    BY <1>3 DEF vars
  <2>2. \A u \in Task : Untouched(u) /\ JobsKept(u)
    BY <2>1, Same DEF Untouched
  <2>3. Hands' /\ Rest' /\ Lists'
    BY <2>1, <2>2, Meanwhile DEF TickInv
  <2> QED BY <2>1, <2>3, LeasesKept DEF TickInv, Results
<1> QED BY <1>1, <1>2, <1>3 DEF Next

LEMMA InitKeeps ==
    ASSUME OneTick, Init
    PROVE  TickInv
<1>1. /\ DOMAIN task = {} /\ DOMAIN job = {} /\ DOMAIN reserved = {} /\ DOMAIN claims = {}
      /\ DOMAIN ext = {} /\ \A p \in Proc : proc[p] = Idle
  BY DEF Init, W!Init
<1>2. Hand = Idle /\ Hand.t = NoTask /\ Hand.pc = "idle" /\ Hand.todo = <<>>
  <2>1. tick \in Proc
    BY TickKnown
  <2>2. PICK q : q = Idle
    OBVIOUS
  <2>3. q.t = NoTask /\ q.pc = "idle" /\ q.todo = <<>>
    BY <2>2 DEF Idle
  <2>4. Hand = q
    BY <1>1, <2>1, <2>2 DEF Hand
  <2> QED BY <2>2, <2>3, <2>4
<1>3. Hands
  BY <1>1, <1>2 DEF Hands, Resolved, Phases
<1>4. Rest
  BY <1>1 DEF Rest, AtRest, Opened, Known, Free, Unplaced, Alive, Exists, Active, W!Leased
<1>5. Lists /\ Leases /\ Results
  BY <1>1, <1>2 DEF Lists, Leases, Results, W!LeasesDisjoint
<1> QED BY <1>3, <1>4, <1>5 DEF TickInv

-----------------------------------------------------------------------------
(* What the orchestrator promises                                            *)

LEMMA AccountFor ==
    ASSUME OneTick, TypeInv, TickInv, NEW j \in JobId, Alive(j)
    PROVE  Only(j[1], j) /\ Active(j) /\ Holding(j[1])
<1>1. PICK t \in Task : t = j[1]
  BY LedgerAssumption
<1>2. ~Quiet(t) /\ ~Unplaced(t) /\ ~Free(t)
  BY <1>1 DEF Quiet, Unplaced, Free
<1>3. ASSUME NEW i, Running(t, i) PROVE i = j /\ Only(t, j) /\ Active(j) /\ Holding(t)
  <2>1. i = j
    BY <1>1, <1>3 DEF Running, Only
  <2> QED BY <1>3, <2>1 DEF Running, Only, Active, ACTIVE_JOB_STATES
<1>4. CASE Hand.t # t
  BY <1>1, <1>2, <1>3, <1>4 DEF TickInv, Rest, AtRest
<1>5. CASE Hand.t = t
  <2>1. InHand(Hand, t)
    BY <1>5, LedgerAssumption DEF TickInv, Hands
  <2>2. CASE Finishing(Range(Hand.todo), t)
    BY <1>1, <1>2, <1>3, <2>2 DEF Finishing, LettingGo, GoingOn
  <2>3. ~Placing(Hand, t)
    BY <1>2 DEF Placing
  <2>4. CASE Starting(t, Hand.j)
    BY <1>1, <2>4 DEF Starting, Only, Active, ACTIVE_JOB_STATES
  <2>5. CASE Answered(Hand, t)
    BY <1>1, <1>2, <2>5 DEF Answered, Only, Active, ACTIVE_JOB_STATES
  <2> QED BY <1>1, <1>3, <2>1, <2>2, <2>3, <2>4, <2>5 DEF InHand
<1> QED BY <1>1, <1>4, <1>5

\* Two running executions, and the claims that their tasks hold.
LEMMA Exclusive ==
    ASSUME OneTick, TypeInv, TickInv, NEW i \in JobId, NEW j \in JobId,
           Alive(i), Alive(j), Overlap(i[1], j[1])
    PROVE  i[1] = j[1]
<1>1. PICK t \in Task, u \in Task : t = i[1] /\ u = j[1]
  BY LedgerAssumption
<1>2. Overlap(t, u) /\ Holding(t) /\ Holding(u)
  BY <1>1, AccountFor
<1>3. ScopesOf[t] # {} /\ ScopesOf[u] # {}
  BY <1>2 DEF Overlap, W!ScopesOverlap
<1>4. W!Leased(claims, t) /\ W!Leased(claims, u)
  BY <1>2, <1>3 DEF Holding, NeedsClaim
<1>5. /\ t \in DOMAIN claims /\ claims[t].base = BaseOf[t] /\ claims[t].scopes = ScopesOf[t]
      /\ u \in DOMAIN claims /\ claims[u].base = BaseOf[u] /\ claims[u].scopes = ScopesOf[u]
  BY <1>4 DEF W!Leased, TickInv, Leases
<1>6. t = u
  BY <1>2, <1>4, <1>5 DEF TickInv, Leases, W!LeasesDisjoint, Overlap
<1> QED BY <1>1, <1>6

LEMMA Promises ==
    ASSUME OneTick, TypeInv, TickInv
    PROVE  OneLiveExecution /\ ScopeExclusion /\ ExecutionAccounted /\ ReleasedWhenOver
<1>1. OneLiveExecution
  <2> SUFFICES ASSUME NEW i \in JobId, NEW j \in JobId, Alive(i), Alive(j), i[1] = j[1]
               PROVE  i = j
    BY DEF OneLiveExecution
  <2>1. Only(j[1], j)
    BY AccountFor
  <2> QED BY <2>1 DEF Only
<1>2. ScopeExclusion
  BY Exclusive DEF ScopeExclusion
<1>3. ExecutionAccounted
  BY AccountFor DEF ExecutionAccounted, Active, Holding
<1>4. ReleasedWhenOver
  <2> SUFFICES ASSUME NEW t \in DOMAIN task, Resting(t),
                      task[t].state \in {"DONE", "FAILED", "CANCELLED"} \cup SCHEDULABLE
               PROVE  t \notin DOMAIN reserved /\ ~W!Leased(claims, t)
    BY DEF ReleasedWhenOver
  <2>1. t \in Task /\ Hand.t # t
    BY TablesTyped, TickKnown DEF Resting, Hand, TasksOK, TypeInv
  <2>2. AtRest(t)
    BY <2>1 DEF TickInv, Rest
  <2>3. Known(t) /\ ~StateIs(t, {"AWAITING_MANUAL"}) /\ ~StateIs(t, {"RUNNING"})
    BY DEF Known, StateIs, SCHEDULABLE
  <2> QED BY <2>2, <2>3 DEF AtRest, Free
<1> QED BY <1>1, <1>2, <1>3, <1>4

LEMMA Invariance == ASSUME OneTick PROVE Spec => [](TypeInv /\ TickInv)
<1>1. Init => TypeInv /\ TickInv
  BY InitTyped, InitKeeps
<1>2. TypeInv /\ TickInv /\ [Next]_vars => (TypeInv /\ TickInv)'
  BY NextTyped, StepKeeps
<1> QED BY <1>1, <1>2, PTL DEF Spec

\* No task ever has two executions running, although a tick may stall for
\* minutes inside a submission, runners may die and tasks are tried again:
\* dispatch takes a task up only after all that it had started is over.
THEOREM OneExecutionPerTask == ASSUME OneTick PROVE Spec => []OneLiveExecution
<1>1. TypeInv /\ TickInv => OneLiveExecution
  BY Promises
<1> QED BY <1>1, Invariance, PTL

\* Executions of two tasks whose scopes overlap never run at the same time:
\* the claim that dispatch must have before it submits outlives the execution,
\* renewed by the polls.
THEOREM ScopesExclusive == ASSUME OneTick PROVE Spec => []ScopeExclusion
<1>1. TypeInv /\ TickInv => ScopeExclusion
  BY Promises
<1> QED BY <1>1, Invariance, PTL

\* Whatever runs has a job that reconcile polls, a worker reserved for its task
\* and, where the task has scopes, a lease on them: no release, expiry or
\* terminal write of the orchestrator comes before the end of the execution.
THEOREM Accounted == ASSUME OneTick PROVE Spec => []ExecutionAccounted
<1>1. TypeInv /\ TickInv => ExecutionAccounted
  BY Promises
<1> QED BY <1>1, Invariance, PTL

\* A task that is over, or is back among the candidates of dispatch, and that
\* the tick has done with, holds neither a worker nor paths: the writes of
\* settle, release and retry_or_fail come to that in every order they have.
THEOREM Released == ASSUME OneTick PROVE Spec => []ReleasedWhenOver
<1>1. TypeInv /\ TickInv => ReleasedWhenOver
  BY Promises
<1> QED BY <1>1, Invariance, PTL

-----------------------------------------------------------------------------
(***************************************************************************)
(* The budget of attempts.  Now the tick may be killed and any number of   *)
(* operators may retry and cancel: one tick at a time is what it takes.    *)
(* Two ticks start a task on the same count; complete-manual decides on a  *)
(* row that another operator's retry has changed since; resolve-dispatch   *)
(* makes a task RETRYABLE without looking at its attempts.                 *)
(***************************************************************************)
LoneTick ==
    /\ \A p, q \in Ticker : p = q
    /\ Commands \subseteq {"retry", "cancel"}

\* States from which a task may be started without another decision.
Startable == SCHEDULABLE \cup {"ROUTING"}

Spare(t) == Known(t) /\ task[t].attempts < task[t].max

Ledger ==
    /\ \A t \in DOMAIN task :
          /\ task[t].attempts <= task[t].max
          /\ task[t].state \in Startable => Spare(t)
    /\ \A j \in DOMAIN job : Known(j[1])

\* The row that r has read is still true but for n attempts counted since, and
\* a maximum that may have been raised.
AsRead(r, n) ==
    /\ Known(r.t)
    /\ r.row.attempts \in Nat /\ r.row.attempts + n = task[r.t].attempts
    /\ r.row.max \in Nat /\ r.row.max <= task[r.t].max

\* Writes that neither count an attempt nor let a task be started ...
Harmless(todo) ==
    \A i \in 1..Len(todo) :
        todo[i].op = "task" => todo[i].bump = 0 /\ todo[i].to \notin Startable

\* ... that let a task be started only if it has an attempt to spare ...
Sparing(todo) ==
    \A i \in 1..Len(todo) : todo[i].op = "task" =>
        todo[i].bump = 0 /\ (todo[i].to \in Startable => Spare(todo[i].id))

\* ... and that count one, after which nothing more is written.
Charging(todo, t, j) ==
    /\ Spare(t)
    /\ todo \in {<<Attempt(t, j, "RESERVED")>>, <<Attempt(t, j, "AWAITING_MANUAL")>>,
                 <<Unreserve(t), Attempt(t, j, "AWAITING_MANUAL")>>}

Thrifty(pc, todo) ==
    \/ Sparing(todo)
    \/ pc \in {"dispatch", "submit"} /\ \E t \in Task, j \in JobId : Charging(todo, t, j)

Counting(r) ==
    /\ Thrifty(r.pc, r.todo)
    /\ r.pc \in Polling => \A x \in r.left : Known(x.id[1])
    /\ r.pc \in Dispatching => r.left \subseteq DOMAIN task
    /\ r.pc \in {"inquire", "ask", "depend", "acquire", "route", "claim", "insert"} => AsRead(r, 0)
    /\ r.pc \in {"route", "claim", "insert"} => Spare(r.t)
    /\ r.pc = "submit" =>
          /\ r.j[1] = r.t
          /\ r.todo \in {<<>>, <<Attempt(r.t, r.j, "RESERVED")>>}
          /\ AsRead(r, IF r.todo = <<>> THEN 1 ELSE 0)
    /\ r.pc \in {"spawn", "register"} => AsRead(r, 1)
    /\ r.pc \in {"answer", "settle"} => Known(r.t)

\* Jobs that are executed, or will be by a call that has counted its attempt.
Paid == DOMAIN ext \cup {proc[p].j : p \in {q \in Ticker : At(q, "submit")}}
PaidFor(t) == {j \in Paid : j[1] = t}

Made(t) == IF Known(t) THEN task[t].attempts ELSE 0

BudgetInv ==
    /\ Ledger
    /\ \A t \in Task : IsFiniteSet(PaidFor(t)) /\ Cardinality(PaidFor(t)) <= Made(t)
    /\ \A p \in Ticker : Counting(proc[p])
    /\ \A p \in Operator : Harmless(proc[p].todo)
    /\ \A p \in Proc : proc[p].pc # "resolve"

-----------------------------------------------------------------------------
(* Lists of writes                                                           *)

LEMMA HarmlessSpares ==
    ASSUME NEW s, Harmless(s)
    PROVE  Sparing(s)
BY DEF Harmless, Sparing

LEMMA HarmlessJoined ==
    ASSUME NEW s \in Seq(Write), NEW r \in Seq(Write), Harmless(s), Harmless(r)
    PROVE  Harmless(s \o r)
BY DEF Harmless

LEMMA SparingJoined ==
    ASSUME NEW s \in Seq(Write), NEW r \in Seq(Write), Sparing(s), Sparing(r)
    PROVE  Sparing(s \o r)
BY DEF Sparing

LEMMA HarmlessLeases ==
    ASSUME NEW t, NEW outcome
    PROVE  /\ Harmless(Release(t, outcome)) /\ Harmless(Renew(t))
           /\ Harmless(<<Unreserve(t)>>) /\ Harmless(<<Hold(t)>>)
           /\ Harmless(<<[op |-> "reopen", id |-> t]>>) /\ Harmless(<<>>)
<1>1. ASSUME NEW e, NEW f, e.op # "task", f.op # "task"
      PROVE  Harmless(<<e>>) /\ Harmless(<<e, f>>)
  BY <1>1 DEF Harmless
<1>2. Harmless(<<>>)
  BY DEF Harmless
<1>3. PICK a, b, c, d, e :
        /\ a = [op |-> "unreserve", id |-> t] /\ b = [op |-> "unclaim", id |-> t, to |-> outcome]
        /\ c = [op |-> "renew", id |-> t] /\ d = [op |-> "hold", id |-> t]
        /\ e = [op |-> "reopen", id |-> t]
  OBVIOUS
<1>4. a.op # "task" /\ b.op # "task" /\ c.op # "task" /\ d.op # "task" /\ e.op # "task"
  BY <1>3
<1>5. Harmless(<<a, b>>) /\ Harmless(<<c, d>>) /\ Harmless(<<a>>) /\ Harmless(<<d>>)
      /\ Harmless(<<e>>)
  BY <1>1, <1>4
<1> QED BY <1>2, <1>3, <1>5 DEF Release, Renew, Unreserve, Hold

LEMMA HarmlessPair ==
    ASSUME NEW e, NEW f, Harmless(<<e>>), Harmless(<<f>>)
    PROVE  Harmless(<<e, f>>)
<1>1. ASSUME NEW g, Harmless(<<g>>), g.op = "task" PROVE g.bump = 0 /\ g.to \notin Startable
  <2>1. 1 \in 1..Len(<<g>>) /\ <<g>>[1] = g
    OBVIOUS
  <2> QED BY <1>1, <2>1 DEF Harmless
<1>2. /\ e.op = "task" => e.bump = 0 /\ e.to \notin Startable
      /\ f.op = "task" => f.bump = 0 /\ f.to \notin Startable
  BY <1>1
<1> QED BY <1>2 DEF Harmless

LEMMA SparingPair ==
    ASSUME NEW e, NEW f, Sparing(<<e>>), Sparing(<<f>>)
    PROVE  Sparing(<<e, f>>)
<1>1. ASSUME NEW g, Sparing(<<g>>), g.op = "task"
      PROVE  g.bump = 0 /\ (g.to \in Startable => Spare(g.id))
  <2>1. 1 \in 1..Len(<<g>>) /\ <<g>>[1] = g
    OBVIOUS
  <2> QED BY <1>1, <2>1 DEF Sparing
<1>2. /\ e.op = "task" => e.bump = 0 /\ (e.to \in Startable => Spare(e.id))
      /\ f.op = "task" => f.bump = 0 /\ (f.to \in Startable => Spare(f.id))
  BY <1>1
<1> QED BY <1>2 DEF Sparing

LEMMA HarmlessJobs ==
    ASSUME NEW j, NEW status
    PROVE  Harmless(<<SetJob(j, status)>>) /\ Harmless(<<SetSent(j, status)>>)
BY DEF Harmless, SetJob, SetSent

\* The writes of _set_task_state, but for the one that counts an attempt.
Uncounted(e, t, state) == e.op = "task" /\ e.id = t /\ e.to = state /\ e.bump = 0

LEMMA TaskWrite ==
    ASSUME NEW t, NEW state
    PROVE  /\ Uncounted(Set(t, state), t, state) /\ Uncounted(SetError(t, state), t, state)
           /\ Uncounted(SetDropJob(t, state), t, state)
           /\ Uncounted([SetError(t, state) EXCEPT !.job = NoJob], t, state)
           /\ Uncounted([Set(t, state) EXCEPT !.error = "unknown"], t, state)
<1> DEFINE S == [op : {"task"}, id : {t}, to : {state}, job : {KeepJob, NoJob},
                 error : {"keep", "other", "unknown"}, bump : {0}]
<1>1. /\ Set(t, state) \in S /\ SetError(t, state) \in S /\ SetDropJob(t, state) \in S
      /\ [SetError(t, state) EXCEPT !.job = NoJob] \in S
      /\ [Set(t, state) EXCEPT !.error = "unknown"] \in S
  BY DEF Set, SetError, SetDropJob
<1>2. \A e \in S : Uncounted(e, t, state)
  BY DEF Uncounted
<1> HIDE DEF S
<1> QED BY <1>1, <1>2

LEMMA HarmlessStates ==
    ASSUME NEW t, NEW state, state \notin Startable
    PROVE  /\ Harmless(<<Set(t, state)>>) /\ Harmless(<<SetError(t, state)>>)
           /\ Harmless(<<SetDropJob(t, state)>>)
           /\ Harmless(<<[SetError(t, state) EXCEPT !.job = NoJob]>>)
           /\ Harmless(<<[Set(t, state) EXCEPT !.error = "unknown"]>>)
<1>1. \A e : Uncounted(e, t, state) => Harmless(<<e>>)
  BY DEF Harmless, Uncounted
<1> QED BY <1>1, TaskWrite, Zenon

LEMMA SparingStates ==
    ASSUME NEW t, NEW state, state \in Startable => Spare(t)
    PROVE  /\ Sparing(<<SetError(t, state)>>)
           /\ Sparing(<<[SetError(t, state) EXCEPT !.job = NoJob]>>)
<1>1. \A e : Uncounted(e, t, state) => Sparing(<<e>>)
  BY DEF Sparing, Uncounted
<1> QED BY <1>1, TaskWrite, Zenon

LEMMA NotStartable ==
    \A state \in {"DONE", "FAILED", "CANCELLED", "BLOCKED", "RESERVED", "RUNNING",
                  "AWAITING_MANUAL", "VERIFYING"} : state \notin Startable
BY DEF Startable, SCHEDULABLE

LEMMA HarmlessSuccess ==
    ASSUME NEW t \in Task, NEW j \in JobId \cup {NoJob}
    PROVE  Harmless(Success(t, j))
<1> DEFINE child == [op |-> "child", id |-> ChildOf[t], of |-> j]
           parent == IF IsVerification(t) THEN <<SetDropJob(ParentOf(t), "DONE")>>
                     ELSE <<>>
           rest == IF ChildOf[t] # NoTask /\ ~IsVerification(t)
                   THEN <<child, SetDropJob(t, "VERIFYING")>>
                   ELSE <<SetDropJob(t, "DONE")>> \o parent
<1>1. /\ <<SetJob(j, "SUCCEEDED")>> \in Seq(Write) /\ Harmless(<<SetJob(j, "SUCCEEDED")>>)
      /\ Release(t, "DONE") \in Seq(Write) /\ Harmless(Release(t, "DONE"))
  BY Outcomes, JobTyped, LeasesTyped, HarmlessJobs, HarmlessLeases
<1>2. parent \in Seq(Write) /\ Harmless(parent)
  <2>1. CASE IsVerification(t)
    <3>1. PICK u \in Task : u = ParentOf(t)
      BY <2>1, ParentTyped
    <3>2. <<SetDropJob(u, "DONE")>> \in Seq(Write) /\ Harmless(<<SetDropJob(u, "DONE")>>)
      BY Outcomes, StateTyped, HarmlessStates, NotStartable
    <3> QED BY <2>1, <3>1, <3>2
  <2>2. CASE ~IsVerification(t)
    BY <2>2, NothingTyped, HarmlessLeases
  <2> QED BY <2>1, <2>2
<1>3. /\ <<SetDropJob(t, "DONE")>> \in Seq(Write) /\ Harmless(<<SetDropJob(t, "DONE")>>)
      /\ <<SetDropJob(t, "VERIFYING")>> \in Seq(Write) /\ Harmless(<<SetDropJob(t, "VERIFYING")>>)
  BY Outcomes, StateTyped, HarmlessStates, NotStartable
<1> HIDE DEF parent
<1>4. rest \in Seq(Write) /\ Harmless(rest)
  <2>1. CASE ChildOf[t] # NoTask /\ ~IsVerification(t)
    <3>1. child \in Write /\ Harmless(<<child>>)
      BY <2>1, LedgerAssumption DEF Write, Harmless
    <3> HIDE DEF child
    <3>2. PICK e : e = SetDropJob(t, "VERIFYING")
      OBVIOUS
    <3>3. e \in Write /\ Harmless(<<e>>)
      BY <1>3, <3>2
    <3>4. <<child, e>> \in Seq(Write) /\ Harmless(<<child, e>>)
      BY <3>1, <3>3, HarmlessPair
    <3> QED BY <2>1, <3>2, <3>4 DEF rest
  <2>2. CASE ~(ChildOf[t] # NoTask /\ ~IsVerification(t))
    <3>1. /\ <<SetDropJob(t, "DONE")>> \o parent \in Seq(Write)
          /\ Harmless(<<SetDropJob(t, "DONE")>> \o parent)
      BY <1>2, <1>3, HarmlessJoined, JoinTyped
    <3> QED BY <2>2, <3>1
  <2> QED BY <2>1, <2>2
<1> HIDE DEF rest
<1>5. Harmless(<<SetJob(j, "SUCCEEDED")>> \o Release(t, "DONE") \o rest)
  <2>1. /\ <<SetJob(j, "SUCCEEDED")>> \o Release(t, "DONE") \in Seq(Write)
        /\ Harmless(<<SetJob(j, "SUCCEEDED")>> \o Release(t, "DONE"))
    BY <1>1, HarmlessJoined, JoinTyped
  <2> QED BY <1>4, <2>1, HarmlessJoined
<1> QED BY <1>5 DEF Success, rest, parent, child

LEMMA SparingFailure ==
    ASSUME NEW t \in Task, NEW row, NEW j \in JobId \cup {NoJob}, NEW status \in JOB_STATES,
           row.attempts < row.max => Spare(t)
    PROVE  Sparing(Failure(t, row, j, status))
<1> DEFINE next == NextTry(row.attempts, row.max)
           last == IF next = "FAILED" /\ IsVerification(t)
                   THEN <<SetError(ParentOf(t), "FAILED")>> ELSE <<>>
<1>1. next \in TASK_STATES /\ (next \in Startable => Spare(t))
  BY Outcomes, NotStartable DEF NextTry
<1>2. last \in Seq(Write) /\ Sparing(last)
  <2>1. CASE IsVerification(t)
    <3>1. PICK u \in Task : u = ParentOf(t)
      BY <2>1, ParentTyped
    <3>2. <<SetError(u, "FAILED")>> \in Seq(Write) /\ Sparing(<<SetError(u, "FAILED")>>)
      BY Outcomes, StateTyped, HarmlessStates, HarmlessSpares, NotStartable
    <3> QED BY <3>1, <3>2, NothingTyped, HarmlessLeases, HarmlessSpares
  <2>2. CASE ~IsVerification(t)
    BY <2>2, NothingTyped, HarmlessLeases, HarmlessSpares
  <2> QED BY <2>1, <2>2
<1>3. /\ <<SetJob(j, status)>> \in Seq(Write) /\ Sparing(<<SetJob(j, status)>>)
      /\ Release(t, "RETRYABLE") \in Seq(Write) /\ Sparing(Release(t, "RETRYABLE"))
      /\ <<[SetError(t, next) EXCEPT !.job = NoJob]>> \in Seq(Write)
      /\ Sparing(<<[SetError(t, next) EXCEPT !.job = NoJob]>>)
  BY <1>1, Outcomes, JobTyped, LeasesTyped, StateTyped, HarmlessJobs, HarmlessLeases,
     HarmlessSpares, SparingStates
<1> HIDE DEF next, last
<1>4. PICK a, b, c, d :
        /\ a = <<SetJob(j, status)>> /\ b = Release(t, "RETRYABLE")
        /\ c = <<[SetError(t, next) EXCEPT !.job = NoJob]>> /\ d = last
  OBVIOUS
<1>5. /\ a \in Seq(Write) /\ b \in Seq(Write) /\ c \in Seq(Write) /\ d \in Seq(Write)
      /\ Sparing(a) /\ Sparing(b) /\ Sparing(c) /\ Sparing(d)
  BY <1>2, <1>3, <1>4
<1>6. a \o b \in Seq(Write) /\ Sparing(a \o b)
  BY <1>5, SparingJoined, JoinTyped
<1>7. a \o b \o c \in Seq(Write) /\ Sparing(a \o b \o c)
  BY <1>5, <1>6, SparingJoined, JoinTyped
<1>8. Sparing(a \o b \o c \o d)
  BY <1>5, <1>7, SparingJoined
<1>9. Failure(t, row, j, status) = <<SetJob(j, status)>> \o Release(t, "RETRYABLE") \o
        <<[SetError(t, next) EXCEPT !.job = NoJob]>> \o last
  BY DEF Failure, next, last
<1> QED BY <1>4, <1>8, <1>9

-----------------------------------------------------------------------------
(* Steps that count no attempt                                               *)

\* Every task that is known stays so, with the attempts it has had.
Kept ==
    /\ \A t \in DOMAIN task :
          /\ t \in DOMAIN task'
          /\ task'[t].attempts = task[t].attempts /\ task[t].max <= task'[t].max
          /\ task'[t].state \in Startable => task[t].attempts < task'[t].max
    /\ \A t \in DOMAIN task' : t \notin DOMAIN task =>
          task'[t].attempts = 0 /\ task'[t].max = MaxAttempts
    /\ \A j \in DOMAIN job' : j[1] \in DOMAIN task'

\* What a call may be left with.
Fine(p, r) ==
    /\ p \in Ticker => Counting(r) /\ (r.pc = "submit" => r.todo # <<>>)
    /\ p \in Operator => Harmless(r.todo)
    /\ r.pc # "resolve"

LEMMA CountsTyped ==
    ASSUME TypeInv
    PROVE  \A t \in DOMAIN task : task[t].attempts \in Nat /\ task[t].max \in Nat
BY TablesTyped DEF TypeInv, TasksOK, TaskRow

LEMMA CountsTypedNext ==
    ASSUME TypeInv'
    PROVE  \A t \in DOMAIN task' : task'[t].attempts \in Nat /\ task'[t].max \in Nat
BY TablesTyped DEF TypeInv, TasksOK, TaskRow

LEMMA LedgerKept ==
    ASSUME TypeInv, TypeInv', Ledger, Kept
    PROVE  Ledger'
<1>1. ASSUME NEW t \in DOMAIN task'
      PROVE  /\ task'[t].attempts <= task'[t].max
             /\ task'[t].state \in Startable => task'[t].attempts < task'[t].max
  <2>1. CASE t \in DOMAIN task
    BY <2>1, CountsTyped, CountsTypedNext DEF Kept, Ledger
  <2>2. CASE t \notin DOMAIN task
    BY <2>2, LedgerAssumption DEF Kept
  <2> QED BY <2>1, <2>2
<1> QED BY <1>1 DEF Ledger, Kept, Spare, Known

LEMMA SpareKept ==
    ASSUME TypeInv, TypeInv', Kept, NEW t, Spare(t)
    PROVE  Spare(t)'
BY CountsTyped, CountsTypedNext DEF Spare, Known, Kept

LEMMA CountingKept ==
    ASSUME TypeInv, TypeInv', Kept, NEW r, Counting(r)
    PROVE  Counting(r)'
<1>1. \A n : AsRead(r, n) => AsRead(r, n)'
  BY CountsTyped, CountsTypedNext DEF AsRead, Known, Kept
<1>2. Thrifty(r.pc, r.todo)'
  BY SpareKept DEF Counting, Thrifty, Sparing, Charging
<1>3. /\ \A t : Known(t) => Known(t)'
      /\ DOMAIN task \subseteq DOMAIN task'
      /\ \A t : Spare(t) => Spare(t)'
  BY SpareKept DEF Known, Kept
<1> QED BY <1>1, <1>2, <1>3 DEF Counting

LEMMA BudgetKept ==
    ASSUME TypeInv, TypeInv', BudgetInv, Kept, NEW t \in Task, PaidFor(t)' \subseteq PaidFor(t)
    PROVE  IsFiniteSet(PaidFor(t))' /\ (Cardinality(PaidFor(t)) <= Made(t))'
<1>1. IsFiniteSet(PaidFor(t)) /\ Cardinality(PaidFor(t)) <= Made(t)
  BY DEF BudgetInv
<1>2. PICK S : S = PaidFor(t)'
  OBVIOUS
<1>3. IsFiniteSet(S) /\ Cardinality(S) <= Cardinality(PaidFor(t))
  BY <1>1, <1>2, FS_Subset
<1>4. Made(t) <= Made(t)' /\ Made(t) \in Nat /\ Made(t)' \in Nat
  BY CountsTyped, CountsTypedNext DEF Made, Known, Kept
<1>5. Cardinality(S) \in Nat /\ Cardinality(PaidFor(t)) \in Nat
  BY <1>1, <1>3, FS_CardinalityType
<1> QED BY <1>1, <1>2, <1>3, <1>4, <1>5

Quietly ==
    /\ TypeInv /\ TypeInv' /\ BudgetInv
    /\ Kept
    /\ DOMAIN ext' \subseteq Paid

LEMMA KeptSteps ==
    ASSUME Quietly, \A p \in Proc : proc'[p] = proc[p] \/ Fine(p, proc'[p])
    PROVE  BudgetInv'
<1> USE DEF Quietly
<1>1. Ledger'
  BY LedgerKept DEF BudgetInv
<1>2. ASSUME NEW q \in Ticker PROVE Counting(proc[q])'
  <2>1. PICK s : s = proc'[q]
    OBVIOUS
  <2>2. Counting(s)
    BY <2>1 DEF BudgetInv, Fine, Proc
  <2>3. Counting(s)'
    BY <2>2, CountingKept
  <2> QED BY <2>1, <2>3 DEF Counting, Thrifty, Sparing, Charging, AsRead
<1>3. ASSUME NEW q \in Operator PROVE Harmless(proc[q].todo)'
  <2>1. PICK s : s = proc'[q]
    OBVIOUS
  <2>2. Harmless(s.todo)
    BY <2>1 DEF BudgetInv, Fine, Proc
  <2> QED BY <2>1, <2>2 DEF Harmless
<1>4. \A q \in Proc : proc'[q].pc # "resolve"
  BY DEF BudgetInv, Fine
<1>5. Paid' \subseteq Paid
  BY DEF Paid, At, Fine, Proc
<1>6. \A t \in Task : PaidFor(t)' \subseteq PaidFor(t)
  BY <1>5 DEF PaidFor
<1> QED BY <1>1, <1>2, <1>3, <1>4, <1>6, BudgetKept DEF BudgetInv

LEMMA KeptStep ==
    ASSUME Quietly, NEW p \in Proc, NEW r, proc' = [proc EXCEPT ![p] = r], Fine(p, r)
    PROVE  BudgetInv'
<1>1. proc'[p] = r /\ \A q \in Proc \ {p} : proc'[q] = proc[q]
  BY DEF Quietly, TypeInv, ProcOK
<1>2. \A q \in Proc : proc'[q] = proc[q] \/ Fine(q, proc'[q])
  BY <1>1
<1> QED BY <1>2, KeptSteps

LEMMA GotoKeeps ==
    ASSUME Quietly, NEW p \in Proc, NEW pc, NEW r, Goto(p, pc, r), Fine(p, After(p, pc, r))
    PROVE  BudgetInv'
<1>1. PICK q : q = After(p, pc, r)
  OBVIOUS
<1>2. proc' = [proc EXCEPT ![p] = q] /\ Fine(p, q)
  BY <1>1, GotoAfter
<1> QED BY <1>2, KeptStep

LEMMA DecideKeeps ==
    ASSUME Quietly, NEW p \in Proc, NEW pc \in {"idle", "poll", "dispatch"}, NEW steps,
           Decide(p, pc, steps),
           p \in Ticker => Thrifty(pc, steps), p \in Operator => Harmless(steps),
           pc = "poll" => \A x \in proc[p].left : Known(x.id[1]),
           pc = "dispatch" => proc[p].left \subseteq DOMAIN task
    PROVE  BudgetInv'
<1>1. PICK q : q = [Idle EXCEPT
        !.pc = pc, !.left = proc[p].left, !.todo = steps,
        !.t = IF steps = <<>> THEN NoTask ELSE proc[p].t]
  OBVIOUS
<1>2. proc' = [proc EXCEPT ![p] = q]
  BY <1>1 DEF Decide
<1>3. q.pc = pc /\ q.todo = steps /\ q.left = proc[p].left
  BY <1>1 DEF Idle
<1>4. Fine(p, q)
  BY <1>3 DEF Fine, Counting, Polling, Dispatching, Placed, Submission
<1> QED BY <1>2, <1>4, KeptStep

LEMMA ExitKeeps ==
    ASSUME Quietly, NEW p \in Proc, Exit(p)
    PROVE  BudgetInv'
<1>1. PICK q : q = Idle
  OBVIOUS
<1>2. q.pc = "idle" /\ q.todo = <<>>
  BY <1>1 DEF Idle
<1>3. Harmless(<<>>) /\ Sparing(<<>>)
  BY HarmlessLeases, HarmlessSpares
<1>4. Fine(p, q)
  BY <1>2, <1>3 DEF Fine, Counting, Thrifty, Polling, Dispatching, Placed, Submission
<1> QED BY <1>1, <1>4, KeptStep DEF Exit

\* Nothing but the surroundings changes.
LEMMA StayKeeps ==
    ASSUME Quietly, UNCHANGED proc
    PROVE  BudgetInv'
BY KeptSteps

-----------------------------------------------------------------------------
(* The writes that are due                                                   *)

LEMMA Attempted ==
    ASSUME NEW t, NEW j, NEW state
    PROVE  /\ Attempt(t, j, state).op = "task" /\ Attempt(t, j, state).id = t
           /\ Attempt(t, j, state).to = state /\ Attempt(t, j, state).bump = 1
<1> DEFINE S == [op : {"task"}, id : {t}, to : {state}, job : {j}, error : {"keep"}, bump : {1}]
<1>1. Attempt(t, j, state) \in S
  BY DEF Attempt, Set
<1> QED BY <1>1

LEMMA TailHarmless ==
    ASSUME NEW s \in Seq(Write), s # <<>>
    PROVE  /\ Harmless(s) => Harmless(Tail(s))
           /\ Sparing(s) => Sparing(Tail(s))
<1>1. /\ Len(Tail(s)) = Len(s) - 1
      /\ \A i \in 1..Len(Tail(s)) : Tail(s)[i] = s[i + 1] /\ i + 1 \in 1..Len(s)
  OBVIOUS
<1> QED BY <1>1 DEF Harmless, Sparing

\* The list of a call that counts an attempt, when its first write is made.
LEMMA ChargeDue ==
    ASSUME NEW p \in Proc, NEW t, NEW j, Charging(proc[p].todo, t, j)
    PROVE  \/ /\ Step(p).op = "unreserve"
              /\ Charging(Tail(proc[p].todo), t, j)
           \/ /\ Tail(proc[p].todo) = <<>>
              /\ Step(p).op = "task" /\ Step(p).id = t /\ Step(p).bump = 1
              /\ Step(p).to \in {"RESERVED", "AWAITING_MANUAL"}
<1>1. PICK a, b, c :
        a = Attempt(t, j, "RESERVED") /\ b = Attempt(t, j, "AWAITING_MANUAL") /\ c = Unreserve(t)
  OBVIOUS
<1>2. c.op = "unreserve"
  BY <1>1 DEF Unreserve
<1>3. proc[p].todo \in {<<a>>, <<b>>, <<c, b>>}
  BY <1>1 DEF Charging
<1>4. CASE proc[p].todo = <<c, b>>
  <2>1. Head(<<c, b>>) = c /\ Tail(<<c, b>>) = <<b>>
    OBVIOUS
  <2> QED BY <1>1, <1>2, <1>4, <2>1 DEF Step, Charging
<1>5. ASSUME NEW e \in {a, b}, proc[p].todo = <<e>>
      PROVE  Step(p) = e /\ Tail(proc[p].todo) = <<>>
  <2>1. Head(<<e>>) = e /\ Tail(<<e>>) = <<>>
    OBVIOUS
  <2> QED BY <1>5, <2>1 DEF Step
<1> QED BY <1>1, <1>3, <1>4, <1>5, Attempted

LEMMA AfterPop ==
    ASSUME TypeInv, NEW p \in Proc, proc[p].todo # <<>>, Pop(p)
    PROVE  \E q :
              /\ proc' = [proc EXCEPT ![p] = q]
              /\ q.pc = proc[p].pc /\ q.j = proc[p].j /\ q.left = proc[p].left
              /\ q.row = proc[p].row /\ q.todo = Tail(proc[p].todo)
              /\ proc[p].pc \notin Phases => q.t = proc[p].t
<1>1. PICK q : q = [proc[p] EXCEPT
                !.todo = Tail(proc[p].todo),
                !.t = IF Tail(proc[p].todo) = <<>> /\ proc[p].pc \in Phases
                      THEN NoTask ELSE proc[p].t]
  OBVIOUS
<1>2. proc' = [proc EXCEPT ![p] = q]
  BY <1>1 DEF Pop
<1>3. Typed(proc[p])
  BY DEF TypeInv, ProcOK
<1>4. /\ q.pc = proc[p].pc /\ q.j = proc[p].j /\ q.left = proc[p].left
      /\ q.row = proc[p].row /\ q.todo = Tail(proc[p].todo)
      /\ proc[p].pc \notin Phases => q.t = proc[p].t
  BY <1>1, <1>3 DEF Typed, Fields
<1> QED BY <1>2, <1>4

LEMMA PopKeeps ==
    ASSUME Quietly, NEW p \in Proc, proc[p].todo # <<>>, Pop(p),
           Step(p).op = "task" => Step(p).bump = 0
    PROVE  BudgetInv'
<1>1. PICK q :
        /\ proc' = [proc EXCEPT ![p] = q]
        /\ q.pc = proc[p].pc /\ q.j = proc[p].j /\ q.left = proc[p].left
        /\ q.row = proc[p].row /\ q.todo = Tail(proc[p].todo)
        /\ proc[p].pc \notin Phases => q.t = proc[p].t
  BY AfterPop DEF Quietly
<1>2. proc[p].todo \in Seq(Write)
  BY DEF Quietly, TypeInv, ProcOK, Typed
<1>3. ASSUME p \in Ticker PROVE Counting(q) /\ q.pc # "submit"
  <2>1. Counting(proc[p])
    BY <1>3 DEF Quietly, BudgetInv
  <2>2. Thrifty(q.pc, q.todo)
    <3>1. CASE Sparing(proc[p].todo)
      BY <1>1, <1>2, <3>1, TailHarmless DEF Thrifty
    <3>2. ASSUME NEW t \in Task, NEW j \in JobId, Charging(proc[p].todo, t, j),
                 proc[p].pc \in {"dispatch", "submit"}
          PROVE  Thrifty(q.pc, q.todo)
      <4>1. Charging(Tail(proc[p].todo), t, j)
        BY <3>2, ChargeDue
      <4> QED BY <1>1, <3>2, <4>1 DEF Thrifty
    <3> QED BY <2>1, <3>1, <3>2 DEF Counting, Thrifty
  <2>3. q.pc # "submit"
    <3>1. ASSUME NEW t, NEW j, proc[p].todo = <<Attempt(t, j, "RESERVED")>> PROVE FALSE
      <4>1. PICK a : a = Attempt(t, j, "RESERVED")
        OBVIOUS
      <4>2. Step(p) = a
        BY <3>1, <4>1 DEF Step
      <4> QED BY <4>1, <4>2, Attempted
    <3> QED BY <1>1, <2>1, <3>1 DEF Counting
  <2>4. q.pc \notin Phases => q.t = proc[p].t
    BY <1>1
  <2> QED BY <1>1, <2>1, <2>2, <2>3, <2>4
          DEF Counting, AsRead, Polling, Dispatching, Placed, Submission, Phases
<1>4. p \in Operator => Harmless(q.todo)
  BY <1>1, <1>2, TailHarmless DEF Quietly, BudgetInv
<1>5. Fine(p, q)
  BY <1>1, <1>3, <1>4 DEF Fine, Quietly, BudgetInv, Proc
<1> QED BY <1>1, <1>5, KeptStep

LEMMA WriteDue ==
    ASSUME TypeInv, NEW p \in Proc, Due(p, "task")
    PROVE  /\ Harmless(proc[p].todo) => Step(p).bump = 0 /\ Step(p).to \notin Startable
           /\ Sparing(proc[p].todo) =>
                 Step(p).bump = 0 /\ (Step(p).to \in Startable => Spare(Step(p).id))
<1>1. proc[p].todo \in Seq(Write) /\ proc[p].todo # <<>>
  BY DEF TypeInv, ProcOK, Typed, Due
<1>2. Step(p) = proc[p].todo[1] /\ 1 \in 1..Len(proc[p].todo) /\ Step(p).op = "task"
  BY <1>1 DEF Step, Due
<1> QED BY <1>2 DEF Harmless, Sparing

\* The one step that counts an attempt is paid for by the one tick there is.
LEMMA ChargeKeeps ==
    ASSUME LoneTick, TypeInv, TypeInv', BudgetInv, NEW p \in Proc,
           PerformTask(p), Step(p).bump = 1
    PROVE  BudgetInv'
<1>1. Due(p, "task") /\ proc[p].todo # <<>> /\ Pop(p)
  BY DEF PerformTask, Due
<1>2. p \in Ticker /\ ~Sparing(proc[p].todo) /\ Counting(proc[p])
  BY <1>1, WriteDue DEF Proc, BudgetInv
<1>3. PICK t \in Task, j \in JobId : Charging(proc[p].todo, t, j)
  BY <1>2 DEF Counting, Thrifty
<1>4. /\ Step(p).id = t /\ Step(p).to \in {"RESERVED", "AWAITING_MANUAL"}
      /\ Tail(proc[p].todo) = <<>> /\ proc[p].pc \in {"dispatch", "submit"}
      /\ Spare(t)
  <2>1. Step(p).op = "task"
    BY <1>1 DEF Due, Step
  <2>2. Step(p).op # "unreserve"
    BY <2>1
  <2> QED BY <1>2, <1>3, <2>2, ChargeDue DEF Counting, Thrifty, Charging
<1>5. PICK row :
        /\ task' = [task EXCEPT ![t] = row]
        /\ row.attempts = task[t].attempts + 1 /\ row.max = task[t].max
        /\ row.state \notin Startable
  <2>1. PICK e : e = Step(p)
    OBVIOUS
  <2>2. PICK row : row = [task[t] EXCEPT
           !.state = e.to,
           !.old = FALSE,
           !.attempts = task[t].attempts + e.bump,
           !.job = IF e.job = KeepJob THEN task[t].job ELSE e.job,
           !.unknown = IF e.error = "keep" THEN task[t].unknown ELSE e.error = "unknown"]
    OBVIOUS
  <2>3. task' = [task EXCEPT ![t] = row]
    BY <1>4, <2>1, <2>2 DEF PerformTask, Spare
  <2>4. task[t] \in TaskRow
    BY <1>4, TablesTyped DEF TypeInv, TasksOK, Spare, Known
  <2>5. row.attempts = task[t].attempts + 1 /\ row.max = task[t].max /\ row.state = e.to
    BY <2>1, <2>2, <2>4 DEF TaskRow
  <2> QED BY <1>4, <2>1, <2>3, <2>5, NotStartable
<1>6. PICK q :
        /\ proc' = [proc EXCEPT ![p] = q]
        /\ q.pc = proc[p].pc /\ q.j = proc[p].j /\ q.left = proc[p].left
        /\ q.row = proc[p].row /\ q.todo = Tail(proc[p].todo)
        /\ proc[p].pc \notin Phases => q.t = proc[p].t
  BY <1>1, AfterPop
<1>7. q.pc = "submit" => q.t = t /\ q.j[1] = t /\ AsRead(q, 0)
  <2> SUFFICES ASSUME q.pc = "submit" PROVE q.t = t /\ q.j[1] = t /\ AsRead(q, 0)
    OBVIOUS
  <2>1. /\ proc[p].todo = <<Attempt(proc[p].t, proc[p].j, "RESERVED")>>
        /\ proc[p].j[1] = proc[p].t /\ AsRead(proc[p], 0)
    BY <1>1, <1>2, <1>6 DEF Counting
  <2>2. PICK a : a = Attempt(proc[p].t, proc[p].j, "RESERVED")
    OBVIOUS
  <2>3. Step(p) = a
    BY <2>1, <2>2 DEF Step
  <2>4. proc[p].t = t
    BY <1>4, <2>2, <2>3, Attempted
  <2> QED BY <1>6, <2>1, <2>4 DEF AsRead, Phases
<1>8. /\ t \in DOMAIN task /\ DOMAIN task' = DOMAIN task
      /\ task'[t].attempts = task[t].attempts + 1 /\ task'[t].max = task[t].max
      /\ task'[t].state \notin Startable
      /\ \A u \in DOMAIN task \ {t} : task'[u] = task[u]
      /\ UNCHANGED job /\ UNCHANGED ext
  <2>1. t \in DOMAIN task /\ DOMAIN task' = DOMAIN task /\ task'[t] = row
    BY <1>4, <1>5, TablesTyped DEF Spare, Known, TypeInv, TasksOK
  <2> QED BY <1>5, <2>1 DEF PerformTask
<1>9. Ledger'
  BY <1>4, <1>8, CountsTyped DEF Ledger, BudgetInv, Spare, Known
<1>10. proc'[p] = q /\ \A o \in Proc \ {p} : proc'[o] = proc[o]
  BY <1>6 DEF TypeInv, ProcOK
<1>11. Counting(q)'
  <2>1. Thrifty(q.pc, q.todo)'
    BY <1>4, <1>6 DEF Thrifty, Sparing
  <2>2. q.pc = "submit" => q.todo = <<>> /\ AsRead(q, 1)'
    BY <1>4, <1>6, <1>7, <1>8, CountsTyped DEF AsRead, Known
  <2>3. q.pc = "dispatch" => q.left \subseteq DOMAIN task'
    BY <1>2, <1>6, <1>8 DEF Counting, Dispatching
  <2>4. q.pc = "submit" => q.left \subseteq DOMAIN task'
    BY <1>2, <1>6, <1>8 DEF Counting, Dispatching, Placed, Submission
  <2> QED BY <1>4, <1>6, <1>7, <2>1, <2>2, <2>3, <2>4 DEF Counting, Polling
<1>12. ASSUME NEW o \in Ticker PROVE Counting(proc[o])'
  <2>1. o = p
    BY <1>2 DEF LoneTick
  <2> QED BY <1>10, <1>11, <2>1 DEF Counting, Thrifty, Sparing, Charging, AsRead
<1>13. ASSUME NEW o \in Operator PROVE Harmless(proc[o].todo)'
  <2>1. o # p
    BY <1>2, LedgerAssumption
  <2> QED BY <1>10, <2>1 DEF BudgetInv, Harmless, Proc
<1>14. \A o \in Proc : proc'[o].pc # "resolve"
  BY <1>4, <1>6, <1>10 DEF BudgetInv
<1>15. Paid' \subseteq Paid \cup (IF q.pc = "submit" THEN {q.j} ELSE {})
  BY <1>8, <1>10 DEF Paid, At, Proc
<1>16. ASSUME NEW u \in Task
       PROVE  IsFiniteSet(PaidFor(u))' /\ (Cardinality(PaidFor(u)) <= Made(u))'
  <2> DEFINE S == PaidFor(u)
             more == S \cup {q.j}
  <2>1. IsFiniteSet(S) /\ Cardinality(S) <= Made(u) /\ Cardinality(S) \in Nat
    BY FS_CardinalityType DEF BudgetInv
  <2>2. PICK R : R = PaidFor(u)'
    OBVIOUS
  <2>3. Made(u) \in Nat /\ (u # t => Made(u)' = Made(u)) /\ (u = t => Made(u)' = Made(u) + 1)
    BY <1>8, CountsTyped DEF Made, Known
  <2> HIDE DEF S
  <2>4. IsFiniteSet(more) /\ Cardinality(more) \in Nat /\ Cardinality(more) <= Cardinality(S) + 1
    <3>1. PICK x : x = q.j
      OBVIOUS
    <3>2. /\ IsFiniteSet(S \cup {x})
          /\ Cardinality(S \cup {x}) = IF x \in S THEN Cardinality(S) ELSE Cardinality(S) + 1
      BY <2>1, FS_AddElement
    <3>3. Cardinality(S \cup {x}) <= Cardinality(S) + 1 /\ Cardinality(S \cup {x}) \in Nat
      BY <2>1, <3>2
    <3> QED BY <3>1, <3>2, <3>3
  <2> HIDE DEF more
  <2>5. R \subseteq more /\ (u # t => R \subseteq S)
    BY <1>7, <1>15, <2>2 DEF PaidFor, S, more
  <2>6. IsFiniteSet(R) /\ Cardinality(R) \in Nat /\ Cardinality(R) <= Cardinality(more)
        /\ (u # t => Cardinality(R) <= Cardinality(S))
    BY <2>1, <2>4, <2>5, FS_Subset, FS_CardinalityType
  <2> QED BY <2>1, <2>2, <2>3, <2>4, <2>6
<1> QED BY <1>9, <1>12, <1>13, <1>14, <1>16 DEF BudgetInv

LEMMA SameKept ==
    ASSUME TypeInv, Ledger, UNCHANGED task, DOMAIN job' \subseteq DOMAIN job
    PROVE  Kept
BY CountsTyped DEF Kept, Ledger, Spare, Known

LEMMA RowKept ==
    ASSUME TypeInv, Ledger, NEW t, NEW row, task' = [task EXCEPT ![t] = row],
           t \in DOMAIN task =>
              /\ row.attempts = task[t].attempts /\ task[t].max <= row.max
              /\ row.state \in Startable => task[t].attempts < row.max,
           DOMAIN job' \subseteq DOMAIN job
    PROVE  Kept
<1>1. DOMAIN task' = DOMAIN task
  BY TablesTyped DEF TypeInv, TasksOK
<1>2. ASSUME NEW u \in DOMAIN task
      PROVE  /\ task'[u].attempts = task[u].attempts /\ task[u].max <= task'[u].max
             /\ task'[u].state \in Startable => task[u].attempts < task'[u].max
  <2>1. CASE u = t
    BY <2>1
  <2>2. CASE u # t
    BY <2>2, CountsTyped DEF Ledger, Spare, Known
  <2> QED BY <2>1, <2>2
<1> QED BY <1>1, <1>2 DEF Kept, Ledger, Known

LEMMA NewKept ==
    ASSUME TypeInv, Ledger, NEW t, NEW of, t \notin DOMAIN task,
           task' = With(task, t, NewTask(of)), DOMAIN job' \subseteq DOMAIN job
    PROVE  Kept
<1>1. /\ DOMAIN task' = DOMAIN task \cup {t}
      /\ task'[t] = NewTask(of)
      /\ \A u \in DOMAIN task : task'[u] = task[u]
  BY DEF With
<1>2. NewTask(of).attempts = 0 /\ NewTask(of).max = MaxAttempts
  BY DEF NewTask
<1> QED BY <1>1, <1>2, CountsTyped DEF Kept, Ledger, Known, Spare

LEMMA PerformBudget ==
    ASSUME LoneTick, TypeInv, TypeInv', BudgetInv, NEW p \in Proc, Perform(p)
    PROVE  BudgetInv'
<1>1. proc[p].todo # <<>> /\ Step(p) \in Write
  BY DueTyped DEF TypeInv, Perform, PerformTask, PerformJob, PerformUnreserve, PerformUnclaim,
                  PerformRenew, PerformHold, PerformChild, PerformReopen, Due
<1>2. DOMAIN ext' \subseteq Paid /\ Ledger
  BY DEF Perform, PerformTask, PerformJob, PerformUnreserve, PerformUnclaim,
         PerformRenew, PerformHold, PerformChild, PerformReopen, Paid, BudgetInv
<1>3. ASSUME Kept, Pop(p), Step(p).op = "task" => Step(p).bump = 0 PROVE BudgetInv'
  BY <1>1, <1>2, <1>3, PopKeeps DEF Quietly
<1>4. CASE PerformTask(p)
  <2>1. Due(p, "task") /\ Step(p).op = "task" /\ Pop(p) /\ UNCHANGED job
    BY <1>4 DEF PerformTask, Due, Step
  <2>2. Step(p).bump \in {0, 1}
    BY <1>1, <2>1 DEF Write
  <2>3. CASE Step(p).bump = 1
    BY <1>4, <2>3, ChargeKeeps
  <2>4. CASE Step(p).bump = 0
    <3>1. Harmless(proc[p].todo) \/ Sparing(proc[p].todo)
      <4>1. CASE p \in Operator
        BY <4>1 DEF BudgetInv
      <4>2. CASE p \in Ticker
        <5>1. ASSUME NEW t, NEW j, Charging(proc[p].todo, t, j) PROVE FALSE
          <6>1. Step(p).op # "unreserve"
            BY <2>1
          <6>2. Step(p).bump # 1
            BY <2>4
          <6> QED BY <5>1, <6>1, <6>2, ChargeDue
        <5> QED BY <4>2, <5>1 DEF BudgetInv, Counting, Thrifty
      <4> QED BY <4>1, <4>2 DEF Proc
    <3>2. Step(p).to \in Startable => Spare(Step(p).id)
      BY <2>1, <3>1, WriteDue
    <3>3. CASE ~Known(Step(p).id)
      BY <1>2, <1>3, <1>4, <2>1, <2>4, <3>3, SameKept DEF PerformTask
    <3>4. CASE Known(Step(p).id)
      <4>1. PICK e : e = Step(p)
        OBVIOUS
      <4>2. PICK row : row = [task[e.id] EXCEPT
               !.state = e.to,
               !.old = FALSE,
               !.attempts = task[e.id].attempts + e.bump,
               !.job = IF e.job = KeepJob THEN task[e.id].job ELSE e.job,
               !.unknown = IF e.error = "keep" THEN task[e.id].unknown ELSE e.error = "unknown"]
        OBVIOUS
      <4>3. task' = [task EXCEPT ![e.id] = row]
        BY <1>4, <3>4, <4>1, <4>2 DEF PerformTask
      <4>4. task[e.id] \in TaskRow
        BY <3>4, <4>1, TablesTyped DEF TypeInv, TasksOK, Known
      <4>5. row.attempts = task[e.id].attempts + 0 /\ row.max = task[e.id].max /\ row.state = e.to
        BY <2>4, <4>1, <4>2, <4>4 DEF TaskRow
      <4>6. row.attempts = task[e.id].attempts /\ task[e.id].max <= row.max
        BY <4>4, <4>5 DEF TaskRow
      <4>7. row.state \in Startable => task[e.id].attempts < row.max
        BY <3>2, <4>1, <4>5 DEF Spare
      <4>8. Kept
        BY <1>2, <2>1, <4>3, <4>6, <4>7, RowKept
      <4> QED BY <1>3, <2>1, <2>4, <4>8
    <3> QED BY <3>3, <3>4
  <2> QED BY <2>2, <2>3, <2>4
<1>5. CASE \/ PerformJob(p) \/ PerformUnreserve(p) \/ PerformUnclaim(p)
           \/ PerformRenew(p) \/ PerformHold(p)
  <2>1. /\ UNCHANGED task /\ Pop(p) /\ Step(p).op # "task"
        /\ DOMAIN job' = DOMAIN job
    BY <1>5, TablesTyped DEF PerformJob, PerformUnreserve, PerformUnclaim, PerformRenew,
           PerformHold, Due, Step, TypeInv, JobsOK
  <2> QED BY <1>2, <1>3, <2>1, SameKept
<1>6. CASE PerformChild(p)
  <2>1. Step(p).op = "child" /\ UNCHANGED job
    BY <1>6 DEF PerformChild, Due, Step
  <2>2. UNCHANGED task => Kept
    BY <1>2, <2>1, SameKept
  <2>3. CASE ~Known(Step(p).id) /\ Pop(p) /\ task' = With(task, Step(p).id, NewTask(Step(p).of))
    <3>1. Kept
      BY <1>2, <2>1, <2>3, NewKept DEF Known
    <3> QED BY <1>3, <2>1, <2>3, <3>1
  <2>4. CASE UNCHANGED task /\ Exit(p)
    BY <1>2, <2>2, <2>4, ExitKeeps DEF Quietly
  <2>5. CASE UNCHANGED task /\ Pop(p)
    BY <1>3, <2>1, <2>2, <2>5
  <2> QED BY <1>6, <2>3, <2>4, <2>5 DEF PerformChild
<1>7. CASE PerformReopen(p)
  <2>1. PICK t : t = Step(p).id
    OBVIOUS
  <2>2. PICK row : row = [task[t] EXCEPT
              !.state = "QUEUED", !.job = NoJob, !.unknown = FALSE, !.old = FALSE,
              !.max = IF task[t].max <= task[t].attempts THEN task[t].attempts + 1
                      ELSE task[t].max]
    OBVIOUS
  <2>3. task' = [task EXCEPT ![t] = row] /\ UNCHANGED job /\ Pop(p) /\ Step(p).op = "reopen"
    BY <1>7, <2>1, <2>2 DEF PerformReopen, Due, Step
  <2>4. ASSUME t \in DOMAIN task
        PROVE  /\ row.attempts = task[t].attempts /\ task[t].max <= row.max
               /\ task[t].attempts < row.max
    <3>1. task[t] \in TaskRow
      BY <2>4, TablesTyped DEF TypeInv, TasksOK
    <3>2. PICK n : n = IF task[t].max <= task[t].attempts THEN task[t].attempts + 1
                       ELSE task[t].max
      OBVIOUS
    <3>3. row.attempts = task[t].attempts /\ row.max = n
      BY <2>2, <3>1, <3>2 DEF TaskRow
    <3> QED BY <3>1, <3>2, <3>3 DEF TaskRow
  <2>5. Kept
    BY <1>2, <2>3, <2>4, RowKept
  <2> QED BY <1>3, <2>3, <2>5
<1> QED BY <1>4, <1>5, <1>6, <1>7 DEF Perform

-----------------------------------------------------------------------------
(* The phases of a tick                                                      *)

LEMMA NothingDue ==
    ASSUME NEW pc
    PROVE  Thrifty(pc, <<>>) /\ Harmless(<<>>)
BY HarmlessLeases, HarmlessSpares DEF Thrifty

LEMMA Quietness ==
    ASSUME TypeInv, TypeInv', BudgetInv, UNCHANGED task, DOMAIN job' \subseteq DOMAIN job,
           DOMAIN ext' \subseteq DOMAIN ext
    PROVE  Quietly
BY SameKept DEF Quietly, BudgetInv, Paid

LEMMA ListingBudget ==
    ASSUME TypeInv, TypeInv', BudgetInv, NEW p \in Ticker,
           \/ StartTick(p) \/ RecoverRouting(p) \/ ListJobs(p) \/ ListCandidates(p)
           \/ BeginDispatch(p) \/ EndTick(p)
    PROVE  BudgetInv'
<1> p \in Proc /\ p \notin Operator /\ Counting(proc[p])
  BY LedgerAssumption DEF Proc, BudgetInv
<1>1. proc[p].todo = <<>> /\ UNCHANGED job /\ UNCHANGED ext
  BY DEF StartTick, RecoverRouting, ListJobs, ListCandidates, BeginDispatch, EndTick, At, ReadOnly
<1>2. ASSUME UNCHANGED task PROVE Quietly
  BY <1>1, <1>2, Quietness
<1>3. CASE StartTick(p)
  <2>1. PICK s : Goto(p, "recover", [left |-> s])
    BY <1>3 DEF StartTick
  <2>2. Fine(p, After(p, "recover", [left |-> s]))
    BY <1>1, NothingDue DEF Fine, After, Field, Counting, Polling, Dispatching, Placed, Submission
  <2> QED BY <1>2, <1>3, <2>1, <2>2, GotoKeeps DEF StartTick, ReadOnly
<1>4. CASE RecoverRouting(p)
  <2>1. PICK t : \/ /\ Abandoned(t)
                    /\ task' = [task EXCEPT ![t] = [@ EXCEPT
                          !.state = "RETRYABLE", !.old = FALSE, !.unknown = FALSE]]
                    /\ Goto(p, "recover", [left |-> proc[p].left \ {t}, t |-> t,
                                           todo |-> Release(t, "RETRYABLE")])
                 \/ /\ Goto(p, "recover", [left |-> proc[p].left \ {t}])
                    /\ UNCHANGED task
    BY <1>4 DEF RecoverRouting
  <2>2. PICK s, todo : s = proc[p].left \ {t} /\ todo = Release(t, "RETRYABLE")
    OBVIOUS
  <2>3. Sparing(todo)
    BY <2>2, HarmlessLeases, HarmlessSpares
  <2>4. /\ Fine(p, After(p, "recover", [left |-> s]))
        /\ Fine(p, After(p, "recover", [left |-> s, t |-> t, todo |-> todo]))
    BY <1>1, <2>3, NothingDue
       DEF Fine, After, Field, Counting, Thrifty, Polling, Dispatching, Placed, Submission
  <2>5. CASE UNCHANGED task /\ Goto(p, "recover", [left |-> s])
    BY <1>2, <2>4, <2>5, GotoKeeps
  <2>6. CASE /\ Abandoned(t)
             /\ task' = [task EXCEPT ![t] = [@ EXCEPT
                  !.state = "RETRYABLE", !.old = FALSE, !.unknown = FALSE]]
             /\ Goto(p, "recover", [left |-> s, t |-> t, todo |-> todo])
    <3>1. PICK row : row = [task[t] EXCEPT
                        !.state = "RETRYABLE", !.old = FALSE, !.unknown = FALSE]
      OBVIOUS
    <3>2. task' = [task EXCEPT ![t] = row]
      BY <2>6, <3>1
    <3>3. ASSUME t \in DOMAIN task
          PROVE  /\ row.attempts = task[t].attempts /\ task[t].max <= row.max
                 /\ task[t].attempts < row.max
      <4>1. task[t] \in TaskRow
        BY <3>3, TablesTyped DEF TypeInv, TasksOK
      <4>2. row.attempts = task[t].attempts /\ row.max = task[t].max
        BY <3>1, <4>1 DEF TaskRow
      <4>3. Spare(t)
        BY <2>6, <3>3 DEF Abandoned, BudgetInv, Ledger, Startable
      <4> QED BY <4>1, <4>2, <4>3 DEF Spare, TaskRow
    <3>4. Kept
      BY <1>1, <3>2, <3>3, RowKept DEF BudgetInv
    <3>5. Quietly
      BY <1>1, <3>4 DEF Quietly, Paid
    <3> QED BY <2>4, <2>6, <3>5, GotoKeeps
  <2> QED BY <2>1, <2>2, <2>5, <2>6
<1>5. CASE ListJobs(p)
  <2>1. PICK s :
           /\ Goto(p, "poll", [left |-> s])
           /\ \A x \in s : x.id \in DOMAIN job
    BY <1>5 DEF ListJobs
  <2>2. \A x \in s : Known(x.id[1])
    BY <2>1 DEF BudgetInv, Ledger
  <2>3. Fine(p, After(p, "poll", [left |-> s]))
    BY <1>1, <2>2, NothingDue
       DEF Fine, After, Field, Counting, Polling, Dispatching, Placed, Submission
  <2> QED BY <1>2, <1>5, <2>1, <2>3, GotoKeeps DEF ListJobs, ReadOnly
<1>6. CASE ListCandidates(p)
  <2>1. PICK s : Goto(p, "dispatch", [left |-> s]) /\ s \subseteq DOMAIN task
    BY <1>6 DEF ListCandidates
  <2>2. Fine(p, After(p, "dispatch", [left |-> s]))
    BY <1>1, <2>1, NothingDue
       DEF Fine, After, Field, Counting, Polling, Dispatching, Placed, Submission
  <2> QED BY <1>2, <1>6, <2>1, <2>2, GotoKeeps DEF ListCandidates, ReadOnly
<1>7. CASE BeginDispatch(p)
  <2>1. proc[p].left \subseteq DOMAIN task
    BY <1>7 DEF BeginDispatch, At, Counting, Dispatching
  <2>2. PICK t \in proc[p].left :
           \/ Goto(p, "depend", [left |-> proc[p].left \ {t}, t |-> t, row |-> task[t]])
           \/ Goto(p, "dispatch", [left |-> proc[p].left \ {t}])
    BY <1>7 DEF BeginDispatch
  <2>3. task[t].attempts \in Nat /\ task[t].max \in Nat /\ Known(t)
    BY <2>1, <2>2, CountsTyped DEF Known
  <2>4. PICK row, s : row = task[t] /\ s = proc[p].left \ {t}
    OBVIOUS
  <2>5. Fine(p, After(p, "depend", [left |-> s, t |-> t, row |-> row]))
    BY <1>1, <2>1, <2>2, <2>3, <2>4, NothingDue
       DEF Fine, After, Field, Counting, AsRead, Polling, Dispatching, Placed, Submission
  <2>6. Fine(p, After(p, "dispatch", [left |-> s]))
    BY <1>1, <2>1, <2>4, NothingDue
       DEF Fine, After, Field, Counting, Polling, Dispatching, Placed, Submission
  <2> QED BY <1>2, <1>7, <2>2, <2>4, <2>5, <2>6, GotoKeeps DEF BeginDispatch, ReadOnly
<1>8. CASE EndTick(p)
  BY <1>2, <1>8, ExitKeeps DEF EndTick, ReadOnly
<1> QED BY <1>3, <1>4, <1>5, <1>6, <1>7, <1>8

LEMMA AnswersCreateNothing ==
    ASSUME NEW j, NEW a, Answers(j, a)
    PROVE  DOMAIN ext' = DOMAIN ext
BY DEF Answers, Status

LEMMA PollBudget ==
    ASSUME TypeInv, TypeInv', BudgetInv, NEW p \in Ticker,
           \/ PollJob(p) \/ InquireDispatchKey(p) \/ OutcomeUnknown(p) \/ PollError(p)
           \/ PollMisreported(p) \/ PollRunning(p) \/ PollSucceeded(p) \/ CollectError(p)
           \/ PollFailed(p)
    PROVE  BudgetInv'
<1> DEFINE t == proc[p].t
           j == proc[p].j
           row == proc[p].row
<1> p \in Proc /\ p \notin Operator /\ Counting(proc[p]) /\ Typed(proc[p])
  BY LedgerAssumption DEF Proc, BudgetInv, TypeInv, ProcOK
<1>1. Quietly
  <2>1. UNCHANGED task /\ UNCHANGED job /\ DOMAIN ext' = DOMAIN ext
    BY AnswersCreateNothing
       DEF PollJob, InquireDispatchKey, OutcomeUnknown, PollError, PollMisreported, PollRunning,
           PollSucceeded, CollectError, PollFailed, ReadOnly
  <2> QED BY <2>1, Quietness
<1>2. proc[p].todo = <<>> /\ \A x \in proc[p].left : Known(x.id[1])
  BY DEF PollJob, InquireDispatchKey, OutcomeUnknown, PollError, PollMisreported,
         PollRunning, PollSucceeded, CollectError, PollFailed, At, Counting, Polling
<1>3. ASSUME NEW steps, Sparing(steps), Decide(p, "poll", steps) PROVE BudgetInv'
  BY <1>1, <1>2, <1>3, DecideKeeps DEF Thrifty
<1>4. CASE PollJob(p)
  <2>1. PICK r \in proc[p].left :
          \/ Goto(p, "poll", [left |-> proc[p].left \ {r}])
          \/ \E pc \in {"inquire", "ask"} :
                Goto(p, pc, [left |-> proc[p].left \ {r}, t |-> r.id[1], j |-> r.id,
                             row |-> task[r.id[1]], jrow |-> r.row])
    BY <1>4 DEF PollJob
  <2>2. Known(r.id[1])
    BY <1>2
  <2>3. PICK u, s, now : u = r.id[1] /\ s = proc[p].left \ {r} /\ now = task[u]
    OBVIOUS
  <2>4. now.attempts \in Nat /\ now.max \in Nat
    BY <2>2, <2>3, CountsTyped DEF Known
  <2>5. Fine(p, After(p, "poll", [left |-> s]))
    BY <1>2, <2>3, NothingDue
       DEF Fine, After, Field, Counting, Polling, Dispatching, Placed, Submission
  <2>6. ASSUME NEW pc \in {"inquire", "ask"}
        PROVE  Fine(p, After(p, pc, [left |-> s, t |-> u, j |-> r.id, row |-> now, jrow |-> r.row]))
    <3>1. PICK q : q = After(p, pc, [left |-> s, t |-> u, j |-> r.id, row |-> now, jrow |-> r.row])
      OBVIOUS
    <3>2. q.pc = pc /\ q.left = s /\ q.t = u /\ q.row = now /\ q.todo = <<>>
      BY <1>2, <3>1 DEF After, Field
    <3>3. AsRead(q, 0) /\ \A x \in q.left : Known(x.id[1])
      BY <1>2, <2>2, <2>3, <2>4, <3>2 DEF AsRead
    <3>4. Fine(p, q)
      BY <2>6, <3>2, <3>3, NothingDue DEF Fine, Counting, Dispatching, Placed, Submission
    <3> QED BY <3>1, <3>4
  <2> QED BY <1>1, <2>1, <2>3, <2>5, <2>6, GotoKeeps
<1>5. CASE InquireDispatchKey(p)
  <2>1. PICK a : Goto(p, "ask", [todo |-> <<SetSent(j, a)>>])
    BY <1>5 DEF InquireDispatchKey
  <2>2. PICK todo : todo = <<SetSent(j, a)>>
    OBVIOUS
  <2>3. Sparing(todo)
    BY <2>2, HarmlessJobs, HarmlessSpares
  <2>4. AsRead(proc[p], 0)
    BY <1>5 DEF InquireDispatchKey, At, Counting
  <2>5. Fine(p, After(p, "ask", [todo |-> todo]))
    BY <1>2, <2>3, <2>4
       DEF Fine, After, Field, Counting, Thrifty, AsRead, Polling, Dispatching, Placed, Submission
  <2> QED BY <1>1, <2>1, <2>2, <2>5, GotoKeeps
<1>6. CASE OutcomeUnknown(p)
  <2>1. Sparing(Block(t)) /\ Sparing(<<>>)
    BY HarmlessStates, NotStartable, HarmlessSpares, HarmlessLeases DEF Block
  <2> QED BY <1>3, <1>6, <2>1 DEF OutcomeUnknown
<1>7. ASSUME At(p, "ask")
      PROVE  /\ t \in Task /\ j \in JobId /\ AsRead(proc[p], 0)
             /\ Renew(t) \in Seq(Write) /\ Sparing(Renew(t))
             /\ <<SetJob(j, "RUNNING")>> \in Seq(Write) /\ Sparing(<<SetJob(j, "RUNNING")>>)
             /\ <<>> \in Seq(Write) /\ Sparing(<<>>)
             /\ <<Set(t, "RUNNING")>> \in Seq(Write) /\ Sparing(<<Set(t, "RUNNING")>>)
             /\ <<SetError(t, "RUNNING")>> \in Seq(Write) /\ Sparing(<<SetError(t, "RUNNING")>>)
  <2>1. t \in Task /\ j \in JobId /\ AsRead(proc[p], 0)
    BY <1>7 DEF Typed, At, Counting, Phases
  <2> QED BY <2>1, LeasesTyped, JobTyped, NothingTyped, StateTyped, Outcomes, HarmlessLeases,
             HarmlessJobs, HarmlessStates, HarmlessSpares, NotStartable
<1>8. CASE PollError(p)
  BY <1>3, <1>7, <1>8 DEF PollError
<1>9. CASE PollMisreported(p) \/ PollFailed(p)
  <2>1. PICK a \in {"FAILED", "CANCELLED"} :
           At(p, "ask") /\ Decide(p, "poll", Failure(t, row, j, a))
    BY <1>9 DEF PollMisreported, PollFailed
  <2>2. a \in JOB_STATES
    BY Outcomes
  <2>3. row.attempts < row.max => Spare(t)
    BY <1>7, <2>1, CountsTyped DEF AsRead, Spare, Known
  <2>4. Sparing(Failure(t, row, j, a))
    BY <1>7, <2>1, <2>2, <2>3, SparingFailure
  <2> QED BY <1>3, <2>1, <2>4
<1>10. CASE PollRunning(p)
  <2>1. PICK last \in {<<Set(t, "RUNNING")>>, <<>>} :
           At(p, "ask") /\ Decide(p, "poll", Renew(t) \o <<SetJob(j, "RUNNING")>> \o last)
    BY <1>10 DEF PollRunning
  <2>2. last \in Seq(Write) /\ Sparing(last)
    BY <1>7, <2>1
  <2>3. PICK a, b : a = Renew(t) /\ b = <<SetJob(j, "RUNNING")>>
    OBVIOUS
  <2>4. a \in Seq(Write) /\ Sparing(a) /\ b \in Seq(Write) /\ Sparing(b)
    BY <1>7, <2>1, <2>3
  <2>5. a \o b \in Seq(Write) /\ Sparing(a \o b)
    BY <2>4, SparingJoined, JoinTyped
  <2>6. Sparing(a \o b \o last)
    BY <2>2, <2>5, SparingJoined
  <2> QED BY <1>3, <2>1, <2>3, <2>6
<1>11. CASE PollSucceeded(p)
  <2>1. At(p, "ask") /\ Decide(p, "poll", Success(t, j))
    BY <1>11 DEF PollSucceeded
  <2>2. Sparing(Success(t, j))
    BY <1>7, <2>1, HarmlessSuccess, HarmlessSpares
  <2> QED BY <1>3, <2>1, <2>2
<1>12. CASE CollectError(p)
  <2>1. PICK last \in {<<SetError(t, "RUNNING")>>, <<>>} :
           At(p, "ask") /\ Decide(p, "poll", <<SetJob(j, "RUNNING")>> \o Renew(t) \o last)
    BY <1>12 DEF CollectError
  <2>2. last \in Seq(Write) /\ Sparing(last)
    BY <1>7, <2>1
  <2>3. PICK a, b : a = Renew(t) /\ b = <<SetJob(j, "RUNNING")>>
    OBVIOUS
  <2>4. a \in Seq(Write) /\ Sparing(a) /\ b \in Seq(Write) /\ Sparing(b)
    BY <1>7, <2>1, <2>3
  <2>5. b \o a \in Seq(Write) /\ Sparing(b \o a)
    BY <2>4, SparingJoined, JoinTyped
  <2>6. Sparing(b \o a \o last)
    BY <2>2, <2>5, SparingJoined
  <2> QED BY <1>3, <2>1, <2>3, <2>6
<1> QED BY <1>4, <1>5, <1>6, <1>8, <1>9, <1>10, <1>11, <1>12

LEMMA PlacingBudget ==
    ASSUME TypeInv, TypeInv', BudgetInv, NEW p \in Ticker,
           \/ CheckDependencies(p) \/ AcquireDispatchLease(p) \/ RouteAndReserve(p)
           \/ ClaimWorkspace(p) \/ WorkspaceFails(p) \/ ReservationReused(p)
    PROVE  BudgetInv'
<1> DEFINE t == proc[p].t
<1> p \in Proc /\ p \notin Operator /\ Counting(proc[p]) /\ Typed(proc[p])
  BY LedgerAssumption DEF Proc, BudgetInv, TypeInv, ProcOK
<1>1. /\ proc[p].todo = <<>> /\ proc[p].left \subseteq DOMAIN task
      /\ AsRead(proc[p], 0) /\ t \in Task
      /\ proc[p].pc \in {"route", "claim", "insert"} => Spare(t)
  BY DEF CheckDependencies, AcquireDispatchLease, RouteAndReserve, ClaimWorkspace, WorkspaceFails,
         ReservationReused, At, Counting, Dispatching, Placed, Typed, Phases
<1>2. UNCHANGED job /\ UNCHANGED ext
  BY DEF CheckDependencies, AcquireDispatchLease, RouteAndReserve, ClaimWorkspace, WorkspaceFails,
         ReservationReused, ReadOnly
<1>3. ASSUME UNCHANGED task PROVE Quietly
  BY <1>2, <1>3, Quietness
<1>4. ASSUME NEW steps, UNCHANGED task, Sparing(steps), Decide(p, "dispatch", steps)
      PROVE  BudgetInv'
  BY <1>1, <1>3, <1>4, DecideKeeps DEF Thrifty
<1>5. ASSUME NEW pc \in {"acquire", "route", "claim", "insert"}, pc # "acquire" => Spare(t),
             NEW r, DOMAIN r \in {{"t"}, {"place"}}, "t" \in DOMAIN r => r.t = t
      PROVE  Fine(p, After(p, pc, r))
  <2>1. PICK q : q = After(p, pc, r)
    OBVIOUS
  <2>2. q.pc = pc /\ q.left = proc[p].left /\ q.t = t /\ q.row = proc[p].row /\ q.todo = <<>>
    BY <1>1, <1>5, <2>1 DEF After, Field
  <2>3. AsRead(q, 0)
    BY <1>1, <2>2 DEF AsRead
  <2>4. Fine(p, q)
    BY <1>1, <1>5, <2>2, <2>3, NothingDue DEF Fine, Counting, Polling
  <2> QED BY <2>1, <2>4
<1>6. DOMAIN [t |-> t] = {"t"} /\ [t |-> t].t = t
  OBVIOUS
<1>7. CASE CheckDependencies(p)
  <2>1. Fine(p, After(p, "acquire", [t |-> t]))
    BY <1>5, <1>6
  <2>2. Sparing(<<SetError(t, "BLOCKED")>>) /\ Sparing(<<>>)
    BY SparingStates, NotStartable, HarmlessSpares, HarmlessLeases
  <2> QED BY <1>3, <1>4, <1>7, <2>1, <2>2, GotoKeeps DEF CheckDependencies, ReadOnly
<1>8. CASE AcquireDispatchLease(p)
  <2>1. ASSUME NEW old \in BOOLEAN, MayAcquire(t), Goto(p, "route", [t |-> t]),
               task' = [task EXCEPT ![t] = [@ EXCEPT
                    !.state = "ROUTING", !.old = old, !.unknown = FALSE]]
        PROVE  BudgetInv'
    <3>1. PICK row : row = [task[t] EXCEPT !.state = "ROUTING", !.old = old, !.unknown = FALSE]
      OBVIOUS
    <3>2. task' = [task EXCEPT ![t] = row]
      BY <2>1, <3>1
    <3>3. Spare(t)
      BY <1>1, <2>1 DEF MayAcquire, AsRead, Known, BudgetInv, Ledger, Startable
    <3>4. task[t] \in TaskRow
      BY <3>3, TablesTyped DEF TypeInv, TasksOK, Spare, Known
    <3>5. row.attempts = task[t].attempts /\ row.max = task[t].max
      BY <3>1, <3>4 DEF TaskRow
    <3>6. Kept
      <4>1. task[t].attempts < row.max /\ task[t].max <= row.max
        BY <3>3, <3>4, <3>5 DEF Spare, TaskRow
      <4>2. Ledger /\ DOMAIN job' \subseteq DOMAIN job
        BY <1>2 DEF BudgetInv
      <4> QED BY <3>2, <3>5, <4>1, <4>2, RowKept
    <3>7. Quietly
      BY <1>2, <3>6 DEF Quietly, Paid
    <3>8. Fine(p, After(p, "route", [t |-> t]))
      BY <1>5, <1>6, <3>3
    <3> QED BY <2>1, <3>7, <3>8, GotoKeeps
  <2>2. CASE UNCHANGED task /\ Decide(p, "dispatch", <<>>)
    BY <1>4, <2>2, HarmlessSpares, HarmlessLeases
  <2> QED BY <1>8, <2>1, <2>2 DEF AcquireDispatchLease, Stamp
<1>9. CASE RouteAndReserve(p)
  <2>1. Spare(t)
    BY <1>1, <1>9 DEF RouteAndReserve, At
  <2>2. UNCHANGED task
    BY <1>9 DEF RouteAndReserve
  <2>3. Sparing(<<SetError(t, "WAITING_CAPACITY")>>)
    BY <2>1, SparingStates
  <2>4. \/ \E x : Goto(p, "claim", [place |-> x])
        \/ Decide(p, "dispatch", <<SetError(t, "WAITING_CAPACITY")>>)
    BY <1>9 DEF RouteAndReserve
  <2>5. ASSUME NEW x, Goto(p, "claim", [place |-> x]) PROVE BudgetInv'
    <3>1. PICK r : r = [place |-> x]
      OBVIOUS
    <3>2. DOMAIN r = {"place"}
      BY <3>1
    <3>3. Fine(p, After(p, "claim", r))
      BY <1>5, <2>1, <3>2
    <3> QED BY <1>3, <2>2, <2>5, <3>1, <3>3, GotoKeeps
  <2> QED BY <1>4, <2>2, <2>3, <2>4, <2>5
<1>10. CASE ClaimWorkspace(p)
  <2>1. Spare(t)
    BY <1>1, <1>10 DEF ClaimWorkspace, At
  <2>2. UNCHANGED task
    BY <1>10 DEF ClaimWorkspace
  <2>3. Sparing(<<Unreserve(t), SetError(t, "QUEUED")>>)
    <3>1. Sparing(<<SetError(t, "QUEUED")>>) /\ Sparing(<<Unreserve(t)>>)
      BY <2>1, SparingStates, HarmlessLeases, HarmlessSpares
    <3> QED BY <3>1, SparingPair
  <2>4. \/ Goto(p, "insert", [t |-> t])
        \/ Decide(p, "dispatch", <<Unreserve(t), SetError(t, "QUEUED")>>)
    BY <1>10 DEF ClaimWorkspace
  <2>5. Fine(p, After(p, "insert", [t |-> t]))
    BY <1>5, <1>6, <2>1
  <2> QED BY <1>3, <1>4, <2>2, <2>3, <2>4, <2>5, GotoKeeps
<1>11. CASE WorkspaceFails(p)
  <2>1. Sparing(Release(t, "BLOCKED") \o <<SetError(t, "BLOCKED")>>)
    <3>1. <<SetError(t, "BLOCKED")>> \in Seq(Write) /\ Release(t, "BLOCKED") \in Seq(Write)
      BY <1>1, StateTyped, LeasesTyped, Outcomes
    <3>2. Sparing(<<SetError(t, "BLOCKED")>>) /\ Sparing(Release(t, "BLOCKED"))
      BY SparingStates, NotStartable, HarmlessLeases, HarmlessSpares
    <3> QED BY <3>1, <3>2, SparingJoined
  <2> QED BY <1>4, <1>11, <2>1 DEF WorkspaceFails, ReadOnly
<1>12. CASE ReservationReused(p)
  BY <1>3, <1>12, ExitKeeps DEF ReservationReused, ReadOnly
<1> QED BY <1>7, <1>8, <1>9, <1>10, <1>11, <1>12

LEMMA InsertBudget ==
    ASSUME TypeInv, TypeInv', BudgetInv, NEW p \in Ticker, InsertManualJob(p) \/ InsertJob(p)
    PROVE  BudgetInv'
<1> DEFINE t == proc[p].t
<1> p \in Proc /\ p \notin Operator /\ Counting(proc[p]) /\ Typed(proc[p])
  BY LedgerAssumption DEF Proc, BudgetInv, TypeInv, ProcOK
<1>1. /\ At(p, "insert") /\ proc[p].todo = <<>> /\ proc[p].left \subseteq DOMAIN task
      /\ AsRead(proc[p], 0) /\ t \in Task /\ Spare(t)
  BY DEF InsertManualJob, InsertJob, At, Counting, Dispatching, Placed, Typed, Phases
<1>2. PICK j \in JobId : j = FreshJob(t)
  BY DEF InsertManualJob, InsertJob
<1>3. j[1] = t
  BY <1>2 DEF FreshJob
<1>4. Quietly
  <2>1. UNCHANGED task /\ UNCHANGED ext /\ DOMAIN job' \subseteq DOMAIN job \cup {j}
    BY <1>2 DEF InsertManualJob, InsertJob, With
  <2>2. Kept
    BY <1>1, <1>3, <2>1, CountsTyped DEF Kept, BudgetInv, Ledger, Spare, Known
  <2> QED BY <2>1, <2>2 DEF Quietly, Paid
<1>5. CASE InsertManualJob(p)
  <2>1. PICK steps : steps = <<Unreserve(t), Attempt(t, j, "AWAITING_MANUAL")>>
    OBVIOUS
  <2>2. Charging(steps, t, j)
    BY <1>1, <2>1 DEF Charging
  <2>3. Thrifty("dispatch", steps)
    BY <1>1, <2>2 DEF Thrifty
  <2> QED BY <1>1, <1>2, <1>4, <1>5, <2>1, <2>3, DecideKeeps DEF InsertManualJob
<1>6. CASE InsertJob(p)
  <2>1. PICK steps : steps = <<Attempt(t, j, "RESERVED")>>
    OBVIOUS
  <2>2. PICK q : q = After(p, "submit", [j |-> j, todo |-> steps])
    OBVIOUS
  <2>3. /\ q.pc = "submit" /\ q.left = proc[p].left /\ q.t = t /\ q.j = j
        /\ q.row = proc[p].row /\ q.todo = steps
    BY <2>2 DEF After, Field
  <2>4. Charging(steps, t, j) /\ steps # <<>>
    BY <1>1, <2>1 DEF Charging
  <2>5. AsRead(q, IF q.todo = <<>> THEN 1 ELSE 0)
    BY <1>1, <2>3, <2>4 DEF AsRead
  <2>6. Counting(q)
    BY <1>1, <1>3, <2>1, <2>3, <2>4, <2>5 DEF Counting, Thrifty, Polling
  <2>7. Fine(p, q)
    BY <2>3, <2>4, <2>6 DEF Fine
  <2> QED BY <1>2, <1>4, <1>6, <2>1, <2>2, <2>7, GotoKeeps DEF InsertJob
<1> QED BY <1>5, <1>6

LEMMA SubmissionBudget ==
    ASSUME TypeInv, TypeInv', BudgetInv, NEW p \in Ticker,
           \/ SubmitFails(p) \/ MakeJobDirectory(p) \/ SpawnRunner(p) \/ RegisterRunner(p)
           \/ SubmitManual(p) \/ SubmitRemote(p) \/ RemoteAnswers(p) \/ SettleAnswer(p)
    PROVE  BudgetInv'
<1> DEFINE t == proc[p].t
           j == proc[p].j
           row == proc[p].row
<1> p \in Proc /\ p \notin Operator /\ Counting(proc[p]) /\ Typed(proc[p])
  BY LedgerAssumption DEF Proc, BudgetInv, TypeInv, ProcOK
<1>1. /\ proc[p].todo = <<>> /\ proc[p].left \subseteq DOMAIN task
      /\ Known(t) /\ t \in Task /\ j \in JobId
      /\ proc[p].pc \in {"submit", "spawn", "register"} => AsRead(proc[p], 1)
  BY DEF SubmitFails, MakeJobDirectory, SpawnRunner, RegisterRunner, SubmitManual, SubmitRemote,
         RemoteAnswers, SettleAnswer, SubmitTo, At, Counting, Dispatching, Placed, Submission,
         Typed, Phases, AsRead
<1>2. Quietly
  <2>1. UNCHANGED task /\ UNCHANGED job
    BY DEF SubmitFails, MakeJobDirectory, SpawnRunner, RegisterRunner, SubmitManual, SubmitRemote,
           RemoteAnswers, SettleAnswer, ReadOnly
  <2>2. At(p, "submit") => j \in Paid
    BY DEF Paid
  <2>3. \/ DOMAIN ext' \subseteq DOMAIN ext
        \/ At(p, "submit") /\ DOMAIN ext' \subseteq DOMAIN ext \cup {j}
    BY DEF SubmitFails, MakeJobDirectory, SpawnRunner, RegisterRunner, SubmitManual, SubmitRemote,
           RemoteAnswers, SettleAnswer, ReadOnly, SubmitTo, Create, Spawn, Register
  <2>4. DOMAIN ext' \subseteq Paid
    BY <2>2, <2>3 DEF Paid
  <2> QED BY <2>1, <2>4, SameKept DEF Quietly, BudgetInv
<1>3. ASSUME NEW steps, Sparing(steps), Decide(p, "dispatch", steps) PROVE BudgetInv'
  BY <1>1, <1>2, <1>3, DecideKeeps DEF Thrifty
<1>4. ASSUME NEW status, Returned(p, status) PROVE BudgetInv'
  <2>1. PICK todo : todo = <<SetSent(j, status)>>
    OBVIOUS
  <2>2. PICK q : q = After(p, "settle", [answer |-> status, todo |-> todo])
    OBVIOUS
  <2>3. q.pc = "settle" /\ q.left = proc[p].left /\ q.t = t /\ q.todo = todo
    BY <2>2 DEF After, Field
  <2>4. Sparing(todo)
    BY <2>1, HarmlessJobs, HarmlessSpares
  <2>5. Fine(p, q)
    BY <1>1, <2>3, <2>4 DEF Fine, Counting, Thrifty, Polling
  <2> QED BY <1>2, <1>4, <2>1, <2>2, <2>5, GotoKeeps DEF Returned
<1>5. CASE SubmitFails(p)
  <2>1. PICK next : /\ next = NextTry(row.attempts + 1, row.max)
                    /\ Decide(p, "dispatch", <<SetJob(j, "FAILED")>> \o Release(t, "RETRYABLE") \o
                               <<[SetError(t, next) EXCEPT !.job = NoJob]>>)
                    /\ proc[p].pc \in {"submit", "spawn", "register"}
    BY <1>5 DEF SubmitFails, At
  <2>2. next \in TASK_STATES /\ (next \in Startable => Spare(t))
    <3>1. AsRead(proc[p], 1)
      BY <1>1, <2>1
    <3>2. row.attempts + 1 < row.max => Spare(t)
      BY <1>1, <3>1, CountsTyped DEF AsRead, Spare, Known
    <3> QED BY <2>1, <3>2, Outcomes, NotStartable DEF NextTry
  <2>3. PICK a, b, c :
          /\ a = <<SetJob(j, "FAILED")>> /\ b = Release(t, "RETRYABLE")
          /\ c = <<[SetError(t, next) EXCEPT !.job = NoJob]>>
    OBVIOUS
  <2>4. /\ a \in Seq(Write) /\ Sparing(a) /\ b \in Seq(Write) /\ Sparing(b)
        /\ c \in Seq(Write) /\ Sparing(c)
    BY <1>1, <2>2, <2>3, Outcomes, JobTyped, LeasesTyped, StateTyped, HarmlessJobs, HarmlessLeases,
       HarmlessSpares, SparingStates
  <2>5. a \o b \in Seq(Write) /\ Sparing(a \o b)
    BY <2>4, SparingJoined, JoinTyped
  <2>6. Sparing(a \o b \o c)
    BY <2>4, <2>5, SparingJoined
  <2> QED BY <1>3, <2>1, <2>3, <2>6
<1>6. CASE MakeJobDirectory(p) \/ SpawnRunner(p) \/ SubmitRemote(p)
  <2>1. PICK pc \in {"spawn", "register", "answer"} :
           Goto(p, pc, [t |-> t]) /\ proc[p].pc \in {"submit", "spawn"}
    BY <1>6 DEF MakeJobDirectory, SpawnRunner, SubmitRemote, SubmitTo, At
  <2>2. PICK q : q = After(p, pc, [t |-> t])
    OBVIOUS
  <2>3. q.pc = pc /\ q.left = proc[p].left /\ q.t = t /\ q.row = row /\ q.todo = <<>>
    BY <1>1, <2>2 DEF After, Field
  <2>4. AsRead(q, 1)
    BY <1>1, <2>1, <2>3 DEF AsRead
  <2>5. Fine(p, q)
    BY <1>1, <2>3, <2>4, NothingDue DEF Fine, Counting, Polling
  <2> QED BY <1>2, <2>1, <2>2, <2>5, GotoKeeps
<1>7. CASE RegisterRunner(p) \/ SubmitManual(p) \/ RemoteAnswers(p)
  BY <1>4, <1>7 DEF RegisterRunner, SubmitManual, RemoteAnswers
<1>8. CASE SettleAnswer(p)
  <2>1. /\ Release(t, "RETRYABLE") \in Seq(Write) /\ <<Set(t, "AWAITING_MANUAL")>> \in Seq(Write)
        /\ <<SetError(t, "RUNNING")>> \in Seq(Write)
        /\ Renew(t) \in Seq(Write) /\ <<SetJob(j, "RUNNING")>> \in Seq(Write)
    BY <1>1, JobTyped, LeasesTyped, StateTyped, Outcomes
  <2>2. /\ Sparing(Release(t, "RETRYABLE")) /\ Sparing(<<Set(t, "AWAITING_MANUAL")>>)
        /\ Sparing(<<Set(t, "RUNNING")>>) /\ Sparing(<<SetError(t, "RUNNING")>>)
        /\ Sparing(Renew(t)) /\ Sparing(<<SetJob(j, "RUNNING")>>)
    BY HarmlessJobs, HarmlessLeases, HarmlessStates, HarmlessSpares, NotStartable
  <2>3. Sparing(Release(t, "RETRYABLE") \o <<Set(t, "AWAITING_MANUAL")>>)
    BY <2>1, <2>2, SparingJoined
  <2>4. Sparing(<<SetJob(j, "RUNNING")>> \o Renew(t) \o <<SetError(t, "RUNNING")>>)
    <3>1. PICK a, b, c : a = <<SetJob(j, "RUNNING")>> /\ b = Renew(t) /\ c = <<SetError(t, "RUNNING")>>
      OBVIOUS
    <3>2. /\ a \in Seq(Write) /\ b \in Seq(Write) /\ c \in Seq(Write)
          /\ Sparing(a) /\ Sparing(b) /\ Sparing(c)
      BY <2>1, <2>2, <3>1
    <3>3. a \o b \in Seq(Write) /\ Sparing(a \o b)
      BY <3>2, SparingJoined, JoinTyped
    <3>4. Sparing(a \o b \o c)
      BY <3>2, <3>3, SparingJoined
    <3> QED BY <3>1, <3>4
  <2>5. Sparing(Success(t, j))
    BY <1>1, HarmlessSuccess, HarmlessSpares
  <2>6. ASSUME NEW status \in {"FAILED", "CANCELLED"} PROVE Sparing(Failure(t, task[t], j, status))
    <3>1. task[t].attempts < task[t].max => Spare(t)
      BY <1>1 DEF Spare
    <3> QED BY <1>1, <3>1, SparingFailure, Outcomes
  <2> QED BY <1>3, <1>8, <2>2, <2>3, <2>4, <2>5, <2>6 DEF SettleAnswer
<1> QED BY <1>5, <1>6, <1>7, <1>8

-----------------------------------------------------------------------------
(* Commands and the surroundings                                             *)

LEMMA CommandBudget ==
    ASSUME LoneTick, TypeInv, TypeInv', BudgetInv, NEW p \in Proc, CommandStep(p)
    PROVE  BudgetInv'
<1>1. CASE ResolveDispatch(p)
  BY <1>1 DEF ResolveDispatch, At, BudgetInv
<1>2. CASE CancelTask(p)
  <2> DEFINE t == proc[p].t
             j == proc[p].row.job
             steps == Release(t, "FAILED") \o <<SetDropJob(t, "CANCELLED")>>
  <2>1. UNCHANGED task /\ UNCHANGED job /\ DOMAIN ext' \subseteq DOMAIN ext
    BY <1>2 DEF CancelTask, Cancel, Status
  <2>2. Quietly
    BY <2>1, Quietness
  <2>3. t \in Task /\ (j \in ActiveJobs(t) => j \in JobId)
    BY <1>2, TablesTyped
       DEF TypeInv, ProcOK, Typed, CancelTask, At, Phases, ActiveJobs, JobsOf, JobsOK
  <2>4. /\ Release(t, "FAILED") \in Seq(Write) /\ <<SetDropJob(t, "CANCELLED")>> \in Seq(Write)
        /\ Harmless(Release(t, "FAILED")) /\ Harmless(<<SetDropJob(t, "CANCELLED")>>)
        /\ j \in JobId => <<SetJob(j, "CANCELLED")>> \in Seq(Write)
        /\ Harmless(<<SetJob(j, "CANCELLED")>>)
    BY <2>3, LeasesTyped, StateTyped, JobTyped, Outcomes, HarmlessLeases, HarmlessStates,
       HarmlessJobs, NotStartable
  <2>5. steps \in Seq(Write) /\ Harmless(steps)
    BY <2>4, HarmlessJoined, JoinTyped
  <2>6. j \in JobId => Harmless(<<SetJob(j, "CANCELLED")>> \o steps)
    BY <2>4, <2>5, HarmlessJoined
  <2> HIDE DEF steps
  <2>7. PICK todo : Decide(p, "idle", todo) /\ Harmless(todo)
    BY <1>2, <2>3, <2>5, <2>6 DEF CancelTask, steps
  <2> QED BY <2>2, <2>7, HarmlessSpares, DecideKeeps DEF Thrifty
<1>3. ASSUME NEW t \in Task,
             Retry(p, t) \/ CompleteManual(p, t) \/ BeginResolve(p, t) \/ BeginCancel(p, t)
      PROVE  BudgetInv'
  <2>1. /\ p \in Operator /\ p \notin Ticker /\ At(p, "idle")
        /\ UNCHANGED task /\ UNCHANGED job /\ UNCHANGED ext
    BY <1>3, LedgerAssumption
       DEF Retry, CompleteManual, BeginResolve, BeginCancel, Command, ReadOnly
  <2>2. Quietly
    BY <2>1, Quietness
  <2>3. Retry(p, t) \/ BeginCancel(p, t)
    BY <1>3 DEF LoneTick, CompleteManual, BeginResolve, Command
  <2>4. CASE Retry(p, t)
    <3>1. PICK todo : todo = <<[op |-> "reopen", id |-> t]>>
      OBVIOUS
    <3>2. Harmless(todo)
      BY <3>1, HarmlessLeases
    <3>3. Fine(p, After(p, "idle", [t |-> t, todo |-> todo]))
      BY <2>1, <3>2 DEF Fine, After, Field
    <3> QED BY <2>2, <2>4, <3>1, <3>3, GotoKeeps DEF Retry
  <2>5. CASE BeginCancel(p, t)
    <3>1. PICK row : row = task[t]
      OBVIOUS
    <3>2. Fine(p, After(p, "cancel", [t |-> t, row |-> row]))
      BY <2>1, NothingDue DEF Fine, After, Field, At
    <3> QED BY <2>2, <2>5, <3>1, <3>2, GotoKeeps DEF BeginCancel
  <2> QED BY <2>3, <2>4, <2>5
<1> QED BY <1>1, <1>2, <1>3 DEF CommandStep

LEMMA SurroundingsBudget ==
    ASSUME TypeInv, TypeInv', BudgetInv, Environment
    PROVE  BudgetInv'
<1>1. UNCHANGED proc
  BY DEF Environment, SubmitTask, ExecutionEnds, ExecutionVanishes, ExecutionForgotten,
         TwoMinutes, Outage
<1>2. DOMAIN ext' \subseteq DOMAIN ext
  BY DEF Environment, SubmitTask, ExecutionEnds, ExecutionVanishes, ExecutionForgotten,
         TwoMinutes, Outage, Finish, Vanish, Forget
<1>3. DOMAIN job' \subseteq DOMAIN job
  BY DEF Environment, SubmitTask, ExecutionEnds, ExecutionVanishes, ExecutionForgotten,
         TwoMinutes, Outage
<1>4. Ledger
  BY DEF BudgetInv
<1>5. CASE UNCHANGED task
  BY <1>1, <1>2, <1>3, <1>5, Quietness, StayKeeps
<1>6. ASSUME Kept PROVE BudgetInv'
  BY <1>1, <1>2, <1>6, StayKeeps DEF Quietly, Paid
<1>7. ASSUME NEW t \in Task, SubmitTask(t) PROVE BudgetInv'
  <2>1. Kept
    BY <1>3, <1>4, <1>7, NewKept DEF SubmitTask, Known
  <2> QED BY <1>6, <2>1
<1>8. CASE TwoMinutes
  <2>1. DOMAIN task' = DOMAIN task
    BY <1>8 DEF TwoMinutes
  <2>2. ASSUME NEW t \in DOMAIN task
        PROVE  /\ task'[t].attempts = task[t].attempts /\ task'[t].max = task[t].max
               /\ task'[t].state = task[t].state
    <3>1. task[t] \in TaskRow
      BY <2>2, TablesTyped DEF TypeInv, TasksOK
    <3>2. task'[t] = [task[t] EXCEPT !.old = @ \/ (task[t].state = "ROUTING" /\ Ages(t))]
      BY <1>8, <2>2 DEF TwoMinutes
    <3> QED BY <3>1, <3>2 DEF TaskRow
  <2>3. Kept
    BY <1>3, <1>4, <2>1, <2>2, CountsTyped DEF Kept, Ledger, Spare, Known
  <2> QED BY <1>6, <2>3
<1>9. Environment => UNCHANGED task \/ TwoMinutes \/ \E t \in Task : SubmitTask(t)
  BY DEF Environment, ExecutionEnds, ExecutionVanishes, ExecutionForgotten, Outage
<1> QED BY <1>5, <1>7, <1>8, <1>9

LEMMA NextBudget ==
    ASSUME LoneTick, TypeInv, TypeInv', BudgetInv, [Next]_vars
    PROVE  BudgetInv'
<1>1. ASSUME NEW p \in Proc, Run(p) PROVE BudgetInv'
  <2>1. CASE Perform(p)
    BY <2>1, PerformBudget
  <2>2. CASE p \in Ticker /\ (ReconcileStep(p) \/ DispatchStep(p))
    BY <2>2, ListingBudget, PollBudget, PlacingBudget, InsertBudget, SubmissionBudget
       DEF ReconcileStep, DispatchStep
  <2> QED BY <1>1, <2>1, <2>2 DEF Run
<1>2. ASSUME NEW p \in Proc, Crash(p) PROVE BudgetInv'
  <2>1. Quietly
    BY <1>2, Quietness DEF Crash
  <2> QED BY <1>2, <2>1, ExitKeeps DEF Crash
<1>3. CASE UNCHANGED vars
  <2>1. UNCHANGED task /\ UNCHANGED job /\ UNCHANGED ext /\ UNCHANGED proc
    BY <1>3 DEF vars
  <2> QED BY <2>1, Quietness, StayKeeps
<1> QED BY <1>1, <1>2, <1>3, CommandBudget, SurroundingsBudget DEF Next

LEMMA InitBudget == ASSUME Init PROVE BudgetInv
<1>1. DOMAIN task = {} /\ DOMAIN job = {} /\ DOMAIN ext = {} /\ \A p \in Proc : proc[p] = Idle
  BY DEF Init
<1>2. PICK q : q = Idle
  OBVIOUS
<1>3. q.pc = "idle" /\ q.todo = <<>>
  BY <1>2 DEF Idle
<1>4. Counting(q) /\ Harmless(q.todo)
  BY <1>3, NothingDue DEF Counting, Polling, Dispatching, Placed, Submission
<1>5. Paid = {}
  BY <1>1, <1>2, <1>3 DEF Paid, At, Proc
<1>6. ASSUME NEW t \in Task PROVE PaidFor(t) = {} /\ Made(t) = 0
  BY <1>1, <1>5 DEF PaidFor, Made, Known
<1>7. Ledger
  BY <1>1 DEF Ledger
<1>8. \A t \in Task : IsFiniteSet(PaidFor(t)) /\ Cardinality(PaidFor(t)) <= Made(t)
  BY <1>6, FS_EmptySet
<1>9. /\ \A p \in Ticker : Counting(proc[p])
      /\ \A p \in Operator : Harmless(proc[p].todo)
      /\ \A p \in Proc : proc[p].pc # "resolve"
  <2>1. \A p \in Proc : proc[p] = q
    BY <1>1, <1>2
  <2>2. q.pc # "resolve"
    BY <1>3
  <2> QED BY <1>4, <2>1, <2>2 DEF Proc
<1> QED BY <1>7, <1>8, <1>9 DEF BudgetInv

LEMMA WithinBudget ==
    ASSUME TypeInv, BudgetInv
    PROVE  AttemptBudget
<1> SUFFICES ASSUME NEW t \in DOMAIN task
             PROVE  Cardinality({j \in DOMAIN ext : j[1] = t}) <= task[t].max
  BY DEF AttemptBudget
<1>1. t \in Task /\ task[t].attempts \in Nat /\ task[t].max \in Nat
  BY CountsTyped, TablesTyped DEF TypeInv, TasksOK
<1>2. PICK S : S = {j \in DOMAIN ext : j[1] = t}
  OBVIOUS
<1>3. S \subseteq PaidFor(t)
  BY <1>2 DEF PaidFor, Paid
<1>4. IsFiniteSet(PaidFor(t)) /\ Cardinality(PaidFor(t)) <= task[t].attempts
      /\ task[t].attempts <= task[t].max
  BY <1>1 DEF BudgetInv, Ledger, Made, Known
<1>5. Cardinality(S) <= Cardinality(PaidFor(t)) /\ Cardinality(S) \in Nat
      /\ Cardinality(PaidFor(t)) \in Nat
  BY <1>3, <1>4, FS_Subset, FS_CardinalityType
<1> QED BY <1>1, <1>2, <1>4, <1>5

\* A task is executed no more often than its max_attempts says, which a retry
\* raises to one more when they are used up: the attempt is counted before the
\* adapter is called, and nothing lets a task be started again without looking
\* at both numbers, whenever the tick is killed, adapters fail, leases expire
\* and operators retry and cancel.
THEOREM AttemptsBounded == ASSUME LoneTick PROVE Spec => []AttemptBudget
<1>1. Init => TypeInv /\ BudgetInv
  BY InitTyped, InitBudget
<1>2. TypeInv /\ BudgetInv /\ [Next]_vars => (TypeInv /\ BudgetInv)'
  BY NextTyped, NextBudget
<1>3. TypeInv /\ BudgetInv => AttemptBudget
  BY WithinBudget
<1> QED BY <1>1, <1>2, <1>3, PTL DEF Spec
==================================================================================
