---------------------------- MODULE OrchestratorTypes ----------------------------
(***************************************************************************)
(* Type correctness of Orchestrator, for any ticks, commands, tasks,       *)
(* workers and faults.  Tables take what calls have decided earlier, so    *)
(* the types of the writes a call still owes are part of the invariant.    *)
(***************************************************************************)
EXTENDS Orchestrator, TLAPS

-----------------------------------------------------------------------------
(* The inductive invariant                                                   *)

Write ==
    [op : {"task"}, id : Task, to : TASK_STATES, job : JobId \cup {NoJob, KeepJob},
     error : {"keep", "other", "unknown"}, bump : {0, 1}]
    \cup [op : {"job"}, id : JobId \cup {NoJob}, to : JOB_STATES, sent : BOOLEAN]
    \cup [op : {"unreserve", "hold", "renew", "reopen"}, id : Task]
    \cup [op : {"unclaim"}, id : Task, to : W!ReleaseOutcomes]
    \cup [op : {"child"}, id : Task, of : JobId \cup {NoJob}]

Fields == {"pc", "t", "j", "row", "jrow", "place", "answer", "left", "todo"}

\* Places of a call, by what it has in its hands.
Polling == {"poll", "inquire", "ask"}
Submission == {"submit", "spawn", "register", "answer", "settle"}
Placed == {"claim", "insert"} \cup Submission
Dispatching == {"dispatch", "depend", "acquire", "route"} \cup Placed

Typed(r) ==
    /\ DOMAIN r = Fields
    /\ r.todo \in Seq(Write)
    /\ r.pc \notin Phases => r.t \in Task
    /\ r.pc \in {"inquire", "ask"} \cup Submission => r.j \in JobId
    /\ r.pc \in Placed => r.place.worker \in Worker
    /\ r.pc \in {"recover"} \cup Dispatching => r.left \subseteq Task
    /\ r.pc \in Polling => \A x \in r.left : x.id \in JobId
    /\ r.pc = "settle" => r.answer \in JOB_STATES

ProcOK ==
    /\ DOMAIN proc = Proc
    /\ \A p \in Proc : Typed(proc[p])

TypeInv == TypeOK /\ ProcOK

-----------------------------------------------------------------------------
(* Writes                                                                    *)

LEMMA StateTyped ==
    ASSUME NEW t \in Task, NEW state \in TASK_STATES
    PROVE  /\ <<Set(t, state)>> \in Seq(Write) /\ <<SetError(t, state)>> \in Seq(Write)
           /\ <<SetDropJob(t, state)>> \in Seq(Write)
           /\ <<[SetError(t, state) EXCEPT !.job = NoJob]>> \in Seq(Write)
           /\ <<[Set(t, state) EXCEPT !.error = "unknown"]>> \in Seq(Write)
           /\ \A j \in JobId : <<Attempt(t, j, state)>> \in Seq(Write)
<1> DEFINE W0 == [op : {"task"}, id : Task, to : TASK_STATES, job : JobId \cup {NoJob, KeepJob},
                  error : {"keep", "other", "unknown"}, bump : {0, 1}]
<1>1. /\ Set(t, state) \in W0 /\ SetError(t, state) \in W0 /\ SetDropJob(t, state) \in W0
      /\ [SetError(t, state) EXCEPT !.job = NoJob] \in W0
      /\ [Set(t, state) EXCEPT !.error = "unknown"] \in W0
      /\ \A j \in JobId : Attempt(t, j, state) \in W0
  BY DEF Set, SetError, SetDropJob, Attempt
<1>2. W0 \subseteq Write
  BY DEF Write
<1> QED BY <1>1, <1>2

LEMMA JobTyped ==
    ASSUME NEW j \in JobId \cup {NoJob}, NEW status \in JOB_STATES
    PROVE  <<SetJob(j, status)>> \in Seq(Write) /\ <<SetSent(j, status)>> \in Seq(Write)
<1>1. SetJob(j, status) \in Write /\ SetSent(j, status) \in Write
  BY DEF SetJob, SetSent, Write
<1> QED BY <1>1

LEMMA LeasesTyped ==
    ASSUME NEW t \in Task, NEW outcome \in W!ReleaseOutcomes
    PROVE  /\ Release(t, outcome) \in Seq(Write) /\ Renew(t) \in Seq(Write)
           /\ <<Unreserve(t)>> \in Seq(Write) /\ <<Hold(t)>> \in Seq(Write)
           /\ <<[op |-> "reopen", id |-> t]>> \in Seq(Write)
<1>1. /\ Unreserve(t) \in Write /\ [op |-> "unclaim", id |-> t, to |-> outcome] \in Write
      /\ [op |-> "renew", id |-> t] \in Write /\ Hold(t) \in Write
      /\ [op |-> "reopen", id |-> t] \in Write
  BY DEF Unreserve, Hold, Write
<1> QED BY <1>1 DEF Release, Renew

LEMMA JoinTyped ==
    ASSUME NEW s \in Seq(Write), NEW r \in Seq(Write)
    PROVE  s \o r \in Seq(Write)
OBVIOUS

LEMMA ThreeTyped ==
    ASSUME NEW e, NEW f, NEW g,
           <<e>> \in Seq(Write), <<f>> \in Seq(Write), <<g>> \in Seq(Write)
    PROVE  <<e, f, g>> \in Seq(Write)
<1>1. e \in Write /\ f \in Write /\ g \in Write
  OBVIOUS
<1> QED BY <1>1

LEMMA NothingTyped == <<>> \in Seq(Write)
OBVIOUS

LEMMA Outcomes ==
    /\ {"DONE", "FAILED", "RETRYABLE", "BLOCKED"} = W!ReleaseOutcomes
    /\ {"DONE", "FAILED", "CANCELLED", "BLOCKED", "QUEUED", "WAITING_CAPACITY", "RETRYABLE",
        "ROUTING", "RESERVED", "RUNNING", "AWAITING_MANUAL", "VERIFYING"} = TASK_STATES
    /\ {"SUBMITTING", "SUBMITTED", "QUEUED", "RUNNING", "SUCCEEDED", "FAILED", "CANCELLED",
        "AWAITING_MANUAL"} = JOB_STATES
BY DEF W!ReleaseOutcomes, TASK_STATES, TERMINAL_TASK_STATES, SCHEDULABLE, JOB_STATES,
       ACTIVE_JOB_STATES

LEMMA ParentTyped ==
    ASSUME NEW t \in Task, IsVerification(t)
    PROVE  ParentOf(t) \in Task
BY DEF IsVerification, ParentOf

LEMMA FailureTyped ==
    ASSUME NEW t \in Task, NEW row, NEW j \in JobId \cup {NoJob}, NEW status \in JOB_STATES
    PROVE  Failure(t, row, j, status) \in Seq(Write)
<1> DEFINE next == NextTry(row.attempts, row.max)
           last == IF next = "FAILED" /\ IsVerification(t)
                   THEN <<SetError(ParentOf(t), "FAILED")>> ELSE <<>>
<1>1. next \in TASK_STATES
  BY Outcomes DEF NextTry
<1>2. last \in Seq(Write)
  <2>1. CASE IsVerification(t)
    <3>1. PICK u \in Task : u = ParentOf(t)
      BY <2>1, ParentTyped
    <3>2. <<SetError(u, "FAILED")>> \in Seq(Write)
      BY Outcomes, StateTyped
    <3>3. <<>> \in Seq(Write)
      OBVIOUS
    <3> QED BY <3>1, <3>2, <3>3
  <2>2. CASE ~IsVerification(t)
    BY <2>2
  <2> QED BY <2>1, <2>2
<1>3. /\ <<SetJob(j, status)>> \in Seq(Write) /\ Release(t, "RETRYABLE") \in Seq(Write)
      /\ <<[SetError(t, next) EXCEPT !.job = NoJob]>> \in Seq(Write)
  BY <1>1, Outcomes, JobTyped, LeasesTyped, StateTyped
<1> HIDE DEF next, last
<1>4. (<<SetJob(j, status)>> \o Release(t, "RETRYABLE") \o
       <<[SetError(t, next) EXCEPT !.job = NoJob]>> \o last) \in Seq(Write)
  BY <1>2, <1>3, JoinTyped
<1> QED BY <1>4 DEF Failure, next, last

LEMMA SuccessTyped ==
    ASSUME NEW t \in Task, NEW j \in JobId \cup {NoJob}
    PROVE  Success(t, j) \in Seq(Write)
<1> DEFINE child == [op |-> "child", id |-> ChildOf[t], of |-> j]
           parent == IF IsVerification(t) THEN <<SetDropJob(ParentOf(t), "DONE")>>
                     ELSE <<>>
           rest == IF ChildOf[t] # NoTask /\ ~IsVerification(t)
                   THEN <<child, SetDropJob(t, "VERIFYING")>>
                   ELSE <<SetDropJob(t, "DONE")>> \o parent
<1>1. <<SetJob(j, "SUCCEEDED")>> \in Seq(Write) /\ Release(t, "DONE") \in Seq(Write)
  BY Outcomes, JobTyped, LeasesTyped
<1>2. parent \in Seq(Write)
  <2>1. CASE IsVerification(t)
    <3>1. PICK u \in Task : u = ParentOf(t)
      BY <2>1, ParentTyped
    <3>2. <<SetDropJob(u, "DONE")>> \in Seq(Write)
      BY Outcomes, StateTyped
    <3> QED BY <2>1, <3>1, <3>2
  <2>2. CASE ~IsVerification(t)
    BY <2>2
  <2> QED BY <2>1, <2>2
<1>3. /\ <<SetDropJob(t, "DONE")>> \in Seq(Write) /\ <<SetDropJob(t, "VERIFYING")>> \in Seq(Write)
  BY Outcomes, StateTyped
<1>4. CASE ChildOf[t] # NoTask /\ ~IsVerification(t)
  <2>1. child \in Write
    BY <1>4, LedgerAssumption DEF Write
  <2> HIDE DEF child
  <2>2. <<child>> \o <<SetDropJob(t, "VERIFYING")>> \in Seq(Write)
    BY <1>3, <2>1
  <2>3. rest \in Seq(Write)
    BY <1>4, <2>2
  <2> HIDE DEF rest
  <2>4. <<SetJob(j, "SUCCEEDED")>> \o Release(t, "DONE") \o rest \in Seq(Write)
    BY <1>1, <2>3, JoinTyped
  <2> QED BY <2>4 DEF Success, rest, child, parent
<1>5. CASE ~(ChildOf[t] # NoTask /\ ~IsVerification(t))
  <2> HIDE DEF parent
  <2>1. rest \in Seq(Write)
    BY <1>2, <1>3, <1>5, JoinTyped
  <2> HIDE DEF rest
  <2>2. <<SetJob(j, "SUCCEEDED")>> \o Release(t, "DONE") \o rest \in Seq(Write)
    BY <1>1, <2>1, JoinTyped
  <2> QED BY <2>2 DEF Success, rest, child, parent
<1> QED BY <1>4, <1>5

-----------------------------------------------------------------------------
(* Calls                                                                     *)

LEMMA StepTyped ==
    ASSUME ProcOK, NEW p \in Proc, NEW r, Typed(r), proc' = [proc EXCEPT ![p] = r]
    PROVE  ProcOK'
<1>1. DOMAIN proc' = Proc /\ proc'[p] = r /\ \A q \in Proc \ {p} : proc'[q] = proc[q]
  BY DEF ProcOK
<1>2. ASSUME NEW q \in Proc PROVE Typed(proc[q])'
  <2>1. PICK s : s = proc'[q] /\ Typed(s)
    BY <1>1 DEF ProcOK
  <2> QED BY <2>1 DEF Typed
<1> QED BY <1>1, <1>2 DEF ProcOK, Proc

\* The call after Goto(p, pc, r), field by field.
Field(p, r, f) == IF f \in DOMAIN r THEN r[f] ELSE proc[p][f]

After(p, pc, r) ==
    [pc |-> pc, t |-> Field(p, r, "t"), j |-> Field(p, r, "j"),
     row |-> Field(p, r, "row"), jrow |-> Field(p, r, "jrow"),
     place |-> Field(p, r, "place"), answer |-> Field(p, r, "answer"),
     left |-> Field(p, r, "left"), todo |-> Field(p, r, "todo")]

LEMMA GotoAfter ==
    ASSUME NEW p \in Proc, NEW pc, NEW r, Goto(p, pc, r)
    PROVE  proc' = [proc EXCEPT ![p] = After(p, pc, r)]
<1> DEFINE q == [f \in DOMAIN Idle |->
                    IF f = "pc" THEN pc
                    ELSE IF f \in DOMAIN r THEN r[f] ELSE proc[p][f]]
<1>1. q = After(p, pc, r)
  BY DEF Idle, After, Field
<1>2. proc' = [proc EXCEPT ![p] = q]
  BY DEF Goto
<1> QED BY <1>1, <1>2

LEMMA GotoTyped ==
    ASSUME ProcOK, NEW p \in Proc, NEW pc, NEW r, Goto(p, pc, r), Typed(After(p, pc, r))
    PROVE  ProcOK'
<1>1. PICK q : q = After(p, pc, r)
  OBVIOUS
<1>2. proc' = [proc EXCEPT ![p] = q] /\ Typed(q)
  BY <1>1, GotoAfter
<1> QED BY <1>2, StepTyped

LEMMA DecideTyped ==
    ASSUME ProcOK, NEW p \in Proc, NEW pc \in {"idle", "poll", "dispatch"},
           NEW steps \in Seq(Write), Decide(p, pc, steps),
           pc = "poll" => \A x \in proc[p].left : x.id \in JobId,
           pc = "dispatch" => proc[p].left \subseteq Task
    PROVE  ProcOK'
<1>1. PICK q : q = [Idle EXCEPT
        !.pc = pc, !.left = proc[p].left, !.todo = steps,
        !.t = IF steps = <<>> THEN NoTask ELSE proc[p].t]
  OBVIOUS
<1>2. proc' = [proc EXCEPT ![p] = q]
  BY <1>1 DEF Decide
<1>3. DOMAIN q = Fields /\ q.pc = pc /\ q.todo = steps /\ q.left = proc[p].left
  BY <1>1 DEF Idle, Fields
<1>4. Typed(q)
  BY <1>3 DEF Typed, Placed, Submission, Dispatching, Polling, Phases
<1> QED BY <1>2, <1>4, StepTyped

LEMMA IdleTyped == Typed(Idle)
<1>1. <<>> \in Seq(Write)
  OBVIOUS
<1> QED BY <1>1 DEF Typed, Idle, Fields, Placed, Submission, Dispatching, Polling, Phases

LEMMA ExitTyped ==
    ASSUME ProcOK, NEW p \in Proc, Exit(p)
    PROVE  ProcOK'
<1>1. PICK q : q = Idle
  OBVIOUS
<1> QED BY <1>1, IdleTyped, StepTyped DEF Exit

LEMMA PopTyped ==
    ASSUME ProcOK, NEW p \in Proc, proc[p].todo # <<>>, Pop(p)
    PROVE  ProcOK'
<1>1. PICK q : q = [proc[p] EXCEPT
                !.todo = Tail(proc[p].todo),
                !.t = IF Tail(proc[p].todo) = <<>> /\ proc[p].pc \in Phases
                      THEN NoTask ELSE proc[p].t]
  OBVIOUS
<1>2. proc' = [proc EXCEPT ![p] = q]
  BY <1>1 DEF Pop
<1>3. Typed(proc[p]) /\ Tail(proc[p].todo) \in Seq(Write)
  BY DEF ProcOK, Typed
<1>4. /\ DOMAIN q = Fields
      /\ q.pc = proc[p].pc /\ q.j = proc[p].j /\ q.left = proc[p].left
      /\ q.place = proc[p].place /\ q.answer = proc[p].answer
      /\ q.todo = Tail(proc[p].todo)
      /\ proc[p].pc \notin Phases => q.t = proc[p].t
  BY <1>1, <1>3 DEF Typed, Fields
<1>5. Typed(q)
  BY <1>3, <1>4 DEF Typed
<1> QED BY <1>2, <1>5, StepTyped

LEMMA DueTyped ==
    ASSUME ProcOK, NEW p \in Proc, NEW op, Due(p, op)
    PROVE  Step(p) \in Write /\ Step(p).op = op
BY DEF ProcOK, Typed, Due, Step
-----------------------------------------------------------------------------
(* Tables                                                                    *)

TasksOK == DOMAIN task \subseteq Task /\ task \in [DOMAIN task -> TaskRow]
JobsOK == DOMAIN job \subseteq JobId /\ job \in [DOMAIN job -> JobRow]
ReservedOK == DOMAIN reserved \subseteq Task /\ reserved \in [DOMAIN reserved -> Reservation]

LEMMA TablesTyped ==
    /\ TypeOK <=> TasksOK /\ JobsOK /\ ReservedOK /\ W!TypeOK /\ ExtTypeOK
    /\ TypeOK' <=> TasksOK' /\ JobsOK' /\ ReservedOK' /\ W!TypeOK' /\ ExtTypeOK'
BY DEF TypeOK, TasksOK, JobsOK, ReservedOK

LEMMA StillTyped ==
    /\ TasksOK /\ UNCHANGED task => TasksOK'
    /\ JobsOK /\ UNCHANGED job => JobsOK'
    /\ ReservedOK /\ UNCHANGED reserved => ReservedOK'
    /\ W!TypeOK /\ UNCHANGED claims => W!TypeOK'
    /\ ExtTypeOK /\ UNCHANGED ext => ExtTypeOK'
<1>1. W!TypeOK /\ UNCHANGED claims => W!TypeOK'
  BY DEF W!TypeOK
<1>2. ExtTypeOK /\ UNCHANGED ext => ExtTypeOK'
  BY DEF ExtTypeOK
<1> QED BY <1>1, <1>2 DEF TasksOK, JobsOK, ReservedOK

LEMMA RowTyped ==
    ASSUME TasksOK, NEW t, NEW row, t \in DOMAIN task => row \in TaskRow,
           task' = [task EXCEPT ![t] = row]
    PROVE  TasksOK'
BY DEF TasksOK

LEMMA NewTaskTyped ==
    ASSUME TasksOK, NEW t \in Task, NEW of \in JobId \cup {NoJob},
           task' = With(task, t, NewTask(of))
    PROVE  TasksOK'
<1>1. NewTask(of) \in TaskRow
  BY Outcomes, LedgerAssumption DEF NewTask, TaskRow
<1> QED BY <1>1 DEF TasksOK, With

LEMMA NewJobTyped ==
    ASSUME JobsOK, NEW j \in JobId, NEW w \in Worker, NEW status \in JOB_STATES,
           NEW old \in BOOLEAN,
           \/ job' = With(job, j, NewJob(w, status))
           \/ job' = With(job, j, [NewJob(w, status) EXCEPT !.old = old])
    PROVE  JobsOK'
<1>1. NewJob(w, status) \in JobRow /\ [NewJob(w, status) EXCEPT !.old = old] \in JobRow
  BY DEF NewJob, JobRow
<1> QED BY <1>1 DEF JobsOK, With

-----------------------------------------------------------------------------
(* Executions                                                                *)

LEMMA ExecutionTyped ==
    ASSUME ExtTypeOK, NEW j \in DOMAIN ext, NEW x \in Execution, ext' = [ext EXCEPT ![j] = x]
    PROVE  ExtTypeOK'
BY DEF ExtTypeOK

LEMMA OutcomeTyped ==
    ASSUME ExtTypeOK, NEW j \in JobId,
           \/ \E a : Status(j, a)
           \/ Cancel(j) \/ Finish(j) \/ Vanish(j) \/ Spawn(j) \/ Register(j)
           \/ Forget(j)
    PROVE  ExtTypeOK'
<1>1. j \in DOMAIN ext /\ ext[j] \in Execution
  BY DEF Status, Cancel, Finish, Vanish, Spawn, Register, Forget, Exists, Alive, ExtTypeOK
<1>2. CASE UNCHANGED ext
  BY <1>2, StillTyped
<1>3. CASE \E alive \in BOOLEAN, known \in BOOLEAN, result \in Result :
              ext' = [ext EXCEPT ![j].alive = alive, ![j].known = known, ![j].result = result]
  <2>1. PICK alive \in BOOLEAN, known \in BOOLEAN, result \in Result :
              ext' = [ext EXCEPT ![j].alive = alive, ![j].known = known, ![j].result = result]
    BY <1>3
  <2> DEFINE x == [ext[j] EXCEPT !.alive = alive, !.known = known, !.result = result]
  <2>2. ext' = [ext EXCEPT ![j] = x] /\ x \in Execution
    BY <1>1, <2>1 DEF Execution
  <2> HIDE DEF x
  <2> QED BY <1>1, <2>2, ExecutionTyped
<1>4. /\ Spawn(j) => ext' = [ext EXCEPT ![j].alive = TRUE, ![j].known = ext[j].known,
                                        ![j].result = ext[j].result]
      /\ Register(j) => ext' = [ext EXCEPT ![j].alive = ext[j].alive, ![j].known = TRUE,
                                           ![j].result = ext[j].result]
      /\ Vanish(j) => ext' = [ext EXCEPT ![j].alive = FALSE, ![j].known = ext[j].known,
                                         ![j].result = ext[j].result]
      /\ Forget(j) => ext' = [ext EXCEPT ![j].alive = ext[j].alive, ![j].known = FALSE,
                                         ![j].result = ext[j].result]
  BY <1>1 DEF Spawn, Register, Vanish, Forget, Execution, ExtTypeOK
<1>5. Finish(j) => \E r \in Result :
        ext' = [ext EXCEPT ![j].alive = FALSE, ![j].known = ext[j].known, ![j].result = r]
  <2> SUFFICES ASSUME Finish(j)
               PROVE  \E r \in Result :
        ext' = [ext EXCEPT ![j].alive = FALSE, ![j].known = ext[j].known, ![j].result = r]
    OBVIOUS
  <2>1. PICK r \in {"SUCCEEDED", "FAILED", "CANCELLED"} :
           ext' = [ext EXCEPT ![j].alive = FALSE, ![j].result = r]
    BY DEF Finish
  <2>2. [ext EXCEPT ![j].alive = FALSE, ![j].result = r] =
        [ext EXCEPT ![j].alive = FALSE, ![j].known = ext[j].known, ![j].result = r]
    BY <1>1 DEF ExtTypeOK, Execution
  <2> QED BY <2>1, <2>2 DEF Result
<1>6. ASSUME NEW a, Status(j, a) PROVE ExtTypeOK'
  <2>1. CASE ext' = [ext EXCEPT ![j].result = "FAILED"]
    <3> DEFINE x == [ext[j] EXCEPT !.result = "FAILED"]
    <3>1. ext' = [ext EXCEPT ![j] = x] /\ x \in Execution
      BY <1>1, <2>1 DEF Execution, Result
    <3> HIDE DEF x
    <3> QED BY <1>1, <3>1, ExecutionTyped
  <2> QED BY <1>2, <1>6, <2>1 DEF Status
<1>7. ASSUME Cancel(j) PROVE ExtTypeOK'
  <2>1. CASE \E survives \in {FALSE, ext[j].alive /\ ~ext[j].known} :
                ext' = [ext EXCEPT ![j].alive = survives, ![j].result = "CANCELLED"]
    <3>1. PICK survives \in BOOLEAN :
                ext' = [ext EXCEPT ![j].alive = survives, ![j].result = "CANCELLED"]
      BY <1>1, <2>1 DEF Execution
    <3> DEFINE x == [ext[j] EXCEPT !.alive = survives, !.result = "CANCELLED"]
    <3>2. ext' = [ext EXCEPT ![j] = x] /\ x \in Execution
      BY <1>1, <3>1 DEF Execution, Result
    <3> HIDE DEF x
    <3> QED BY <1>1, <3>2, ExecutionTyped
  <2> QED BY <1>6, <1>7, <2>1 DEF Cancel
<1>8. ext[j].alive \in BOOLEAN /\ ext[j].known \in BOOLEAN /\ ext[j].result \in Result
  BY <1>1 DEF Execution
<1> QED BY <1>3, <1>4, <1>5, <1>6, <1>7, <1>8

LEMMA CreateTyped ==
    ASSUME ExtTypeOK, NEW j \in JobId,
           NEW alive \in BOOLEAN, NEW known \in BOOLEAN, NEW result \in Result,
           Create(j, alive, known, result)
    PROVE  ExtTypeOK'
<1>1. [alive |-> alive, known |-> known, result |-> result] \in Execution
  BY DEF Execution
<1> QED BY <1>1 DEF Create, ExtTypeOK

-----------------------------------------------------------------------------
(* Claims                                                                    *)

LEMMA ClaimRowTyped ==
    ASSUME NEW row \in W!Row
    PROVE  /\ [row EXCEPT !.state = "RETRYABLE", !.left = 0] \in W!Row
           /\ [row EXCEPT !.ttl = 1, !.left = 1] \in W!Row
           /\ [row EXCEPT !.left = 1, !.ttl = 1, !.pid = NoProcess] \in W!Row
<1>1. "RETRYABLE" \in W!STATES /\ 0 \in Int /\ 1 \in Int
  BY DEF W!STATES
<1>2. [row EXCEPT !.state = "RETRYABLE", !.left = 0] \in W!Row
  BY <1>1 DEF W!Row
<1>3. [row EXCEPT !.ttl = 1, !.left = 1] \in W!Row
  BY <1>1 DEF W!Row
<1>4. [row EXCEPT !.left = 1, !.ttl = 1, !.pid = NoProcess] \in W!Row
  BY <1>1 DEF W!Row
<1> QED BY <1>2, <1>3, <1>4

LEMMA CleanedTyped ==
    ASSUME W!TypeOK
    PROVE  /\ DOMAIN W!Cleaned(0, {}) = DOMAIN claims
           /\ W!Cleaned(0, {}) \in [DOMAIN claims -> W!Row]
<1>1. ASSUME NEW row \in W!Row PROVE W!CleanedRow(row, 0, {}) \in W!Row
  BY ClaimRowTyped DEF W!CleanedRow
<1> QED BY <1>1 DEF W!Cleaned, W!TypeOK

LEMMA LeaseTyped ==
    ASSUME W!TypeOK, NEW t \in Task,
           \/ \E outcome \in W!ReleaseOutcomes : W!Release(t, outcome)
           \/ W!Heartbeat(t, 1, 0) \/ W!Cleanup(0, {}) \/ W!Tick
    PROVE  W!TypeOK'
<1>1. CASE \E outcome \in W!ReleaseOutcomes : W!Release(t, outcome)
  BY <1>1 DEF W!Release, W!TypeOK, W!Row, W!STATES, W!ReleaseOutcomes, W!TERMINAL_STATES
<1>2. CASE W!Heartbeat(t, 1, 0)
  <2> DEFINE tbl == W!Cleaned(0, {})
  <2>1. DOMAIN tbl = DOMAIN claims /\ tbl \in [DOMAIN claims -> W!Row]
    BY CleanedTyped
  <2>2. t \in DOMAIN claims /\ claims' = [tbl EXCEPT ![t].ttl = 1, ![t].left = 1 - 0]
    BY <1>2, <2>1 DEF W!Heartbeat
  <2> HIDE DEF tbl
  <2> DEFINE row == [tbl[t] EXCEPT !.ttl = 1, !.left = 1]
  <2>3. row \in W!Row
    BY <2>1, <2>2, ClaimRowTyped
  <2>4. 1 - 0 = 1
    OBVIOUS
  <2>5. claims' = [tbl EXCEPT ![t] = row]
    BY <2>1, <2>2, <2>4
  <2> HIDE DEF row
  <2> QED BY <2>1, <2>3, <2>5 DEF W!TypeOK
<1>3. CASE W!Cleanup(0, {})
  BY <1>3, CleanedTyped DEF W!Cleanup, W!TypeOK
<1>4. CASE W!Tick
  BY <1>4 DEF W!Tick, W!TypeOK, W!Row
<1> QED BY <1>1, <1>2, <1>3, <1>4

LEMMA ClaimTyped ==
    ASSUME W!TypeOK, NEW t \in Task, NEW w \in Worker, NEW req, req = Request(t, w),
           \/ W!ClaimRefused(t, req, 0) \/ W!ClaimRenewed(t, req, 0)
           \/ W!ClaimQueued(t, req, 0) \/ W!ClaimGranted(t, req, 0)
    PROVE  W!TypeOK'
<1> DEFINE tbl == W!Cleaned(0, {})
<1>1. DOMAIN tbl = DOMAIN claims /\ tbl \in [DOMAIN claims -> W!Row] /\ DOMAIN claims \subseteq Task
  BY CleanedTyped DEF W!TypeOK
<1>2. /\ req.base = BaseOf[t] /\ req.scopes = ScopesOf[t] /\ req.owner = "orchestrator"
      /\ req.worker = w /\ req.pid = NoProcess /\ req.ttl = 1 /\ req.ttl - 0 = 1
  BY DEF Request
<1> HIDE DEF tbl
<1>3. CASE W!ClaimRefused(t, req, 0)
  BY <1>1, <1>3 DEF W!ClaimRefused, W!TypeOK, tbl
<1>4. CASE W!ClaimRenewed(t, req, 0)
  <2> DEFINE row == [tbl[t] EXCEPT !.left = 1, !.ttl = 1, !.pid = NoProcess]
  <2>1. t \in DOMAIN claims /\ claims' = [tbl EXCEPT ![t] = row]
    BY <1>1, <1>2, <1>4 DEF W!ClaimRenewed, W!Leased, tbl
  <2>2. row \in W!Row
    BY <1>1, <2>1, ClaimRowTyped
  <2> HIDE DEF row
  <2> QED BY <1>1, <2>1, <2>2 DEF W!TypeOK
<1>5. CASE W!ClaimQueued(t, req, 0) \/ W!ClaimGranted(t, req, 0)
  <2>1. PICK state \in {"QUEUED", "CLAIMED"} :
           claims' = W!Put(tbl, t, W!NewRow(req, state, 0))
    BY <1>5 DEF W!ClaimQueued, W!ClaimGranted, tbl
  <2>2. W!NewRow(req, state, 0) =
           [base |-> BaseOf[t], scopes |-> ScopesOf[t], owner |-> "orchestrator", worker |-> w,
            pid |-> NoProcess, state |-> state, ttl |-> 1, left |-> 1]
    BY <1>2 DEF W!NewRow
  <2>3. W!NewRow(req, state, 0) \in W!Row
    BY <2>2, LedgerAssumption DEF W!Row, W!STATES, W!EXPIRING_STATES, W!LEASE_STATES
  <2> QED BY <1>1, <2>1, <2>3 DEF W!Put, W!TypeOK
<1> QED BY <1>3, <1>4, <1>5
-----------------------------------------------------------------------------
(* The writes that are due                                                   *)

LEMMA PerformTyped ==
    ASSUME TypeInv, NEW p \in Proc, Perform(p)
    PROVE  TypeInv'
<1> USE DEF TypeInv
<1>1. TasksOK /\ JobsOK /\ ReservedOK /\ W!TypeOK /\ ExtTypeOK
  BY TablesTyped
<1>2. PICK e : e = Step(p)
  OBVIOUS
<1>3. proc[p].todo # <<>> /\ e \in Write
  BY <1>2, DueTyped DEF Perform, PerformTask, PerformJob, PerformUnreserve, PerformUnclaim,
                       PerformRenew, PerformHold, PerformChild, PerformReopen, Due
<1>4. ProcOK'
  BY <1>3, PopTyped, ExitTyped DEF Perform, PerformTask, PerformJob, PerformUnreserve, PerformUnclaim,
                       PerformRenew, PerformHold, PerformChild, PerformReopen
<1>5. ASSUME PerformTask(p) PROVE TypeInv'
  <2>1. /\ UNCHANGED job /\ UNCHANGED reserved /\ UNCHANGED claims /\ UNCHANGED ext
        /\ e.op = "task"
    BY <1>2, <1>5, DueTyped DEF PerformTask
  <2>2. /\ e.to \in TASK_STATES /\ e.job \in JobId \cup {NoJob, KeepJob} /\ e.bump \in {0, 1}
    BY <1>3, <2>1 DEF Write
  <2>3. CASE ~Known(e.id)
    BY <1>1, <1>2, <1>4, <1>5, <2>1, <2>3, StillTyped, TablesTyped DEF PerformTask
  <2>4. CASE Known(e.id)
    <3> DEFINE row == [task[e.id] EXCEPT
                          !.state = e.to,
                          !.old = FALSE,
                          !.attempts = task[e.id].attempts + e.bump,
                          !.job = IF e.job = KeepJob THEN task[e.id].job ELSE e.job,
                          !.unknown = IF e.error = "keep" THEN task[e.id].unknown
                                      ELSE e.error = "unknown"]
    <3>1. task' = [task EXCEPT ![e.id] = row]
      BY <1>2, <1>5, <2>4 DEF PerformTask
    <3>2. PICK r \in TaskRow : r = task[e.id]
      BY <1>1, <2>4 DEF TasksOK, Known
    <3>3. r.attempts + e.bump \in Nat /\ (e.job # KeepJob => e.job \in JobId \cup {NoJob})
      BY <2>2, <3>2 DEF TaskRow
    <3>4. row \in TaskRow
      BY <2>2, <3>2, <3>3 DEF TaskRow
    <3> HIDE DEF row
    <3>5. TasksOK'
      BY <1>1, <3>1, <3>4, RowTyped
    <3> QED BY <1>1, <1>4, <2>1, <3>5, StillTyped, TablesTyped
  <2> QED BY <2>3, <2>4
<1>6. ASSUME PerformJob(p) PROVE TypeInv'
  <2>1. /\ UNCHANGED task /\ UNCHANGED reserved /\ UNCHANGED claims /\ UNCHANGED ext
        /\ e.op = "job"
    BY <1>2, <1>6, DueTyped DEF PerformJob
  <2>2. e.to \in JOB_STATES /\ e.sent \in BOOLEAN
    BY <1>3, <2>1 DEF Write
  <2>3. JobsOK'
    BY <1>1, <1>2, <1>6, <2>2 DEF PerformJob, JobsOK, JobRow
  <2> QED BY <1>1, <1>4, <2>1, <2>3, StillTyped, TablesTyped
<1>7. ASSUME PerformUnreserve(p) \/ PerformRenew(p) PROVE TypeInv'
  <2>1. UNCHANGED task /\ UNCHANGED job /\ UNCHANGED claims /\ UNCHANGED ext
    BY <1>7 DEF PerformUnreserve, PerformRenew
  <2>2. ReservedOK'
    BY <1>1, <1>7 DEF PerformUnreserve, PerformRenew, ReservedOK, Reservation, Without
  <2> QED BY <1>1, <1>4, <2>1, <2>2, StillTyped, TablesTyped
<1>8. ASSUME PerformUnclaim(p) \/ PerformHold(p) PROVE TypeInv'
  <2>1. UNCHANGED task /\ UNCHANGED job /\ UNCHANGED reserved /\ UNCHANGED ext
    BY <1>8 DEF PerformUnclaim, PerformHold
  <2>2. /\ e.id \in Task
        /\ \/ UNCHANGED claims
           \/ \E outcome \in W!ReleaseOutcomes : W!Release(e.id, outcome)
           \/ W!Heartbeat(e.id, 1, 0) \/ W!Cleanup(0, {})
    BY <1>2, <1>3, <1>8, DueTyped DEF PerformUnclaim, PerformHold, Write
  <2>3. W!TypeOK'
    BY <1>1, <2>2, LeaseTyped, StillTyped
  <2> QED BY <1>1, <1>4, <2>1, <2>3, StillTyped, TablesTyped
<1>9. ASSUME PerformChild(p) PROVE TypeInv'
  <2>1. /\ UNCHANGED job /\ UNCHANGED reserved /\ UNCHANGED claims /\ UNCHANGED ext
        /\ e.op = "child"
    BY <1>2, <1>9, DueTyped DEF PerformChild
  <2>2. e.id \in Task /\ e.of \in JobId \cup {NoJob}
    BY <1>3, <2>1 DEF Write
  <2>3. TasksOK'
    BY <1>1, <1>2, <1>9, <2>2, StillTyped, NewTaskTyped DEF PerformChild
  <2> QED BY <1>1, <1>4, <2>1, <2>3, StillTyped, TablesTyped
<1>10. ASSUME PerformReopen(p) PROVE TypeInv'
  <2>1. UNCHANGED job /\ UNCHANGED reserved /\ UNCHANGED claims /\ UNCHANGED ext
    BY <1>10 DEF PerformReopen
  <2> DEFINE row == [task[e.id] EXCEPT
                        !.state = "QUEUED", !.job = NoJob, !.unknown = FALSE, !.old = FALSE,
                        !.max = IF task[e.id].max <= task[e.id].attempts
                                THEN task[e.id].attempts + 1 ELSE task[e.id].max]
  <2>2. task' = [task EXCEPT ![e.id] = row]
    BY <1>2, <1>10 DEF PerformReopen
  <2>3. ASSUME e.id \in DOMAIN task PROVE row \in TaskRow
    <3>1. PICK r \in TaskRow : r = task[e.id]
      BY <1>1, <2>3 DEF TasksOK
    <3>2. (IF r.max <= r.attempts THEN r.attempts + 1 ELSE r.max) \in Nat
      BY DEF TaskRow
    <3> QED BY <3>1, <3>2, Outcomes DEF TaskRow
  <2> HIDE DEF row
  <2>4. TasksOK'
    BY <1>1, <2>2, <2>3, RowTyped
  <2> QED BY <1>1, <1>4, <2>1, <2>4, StillTyped, TablesTyped
<1> QED BY <1>5, <1>6, <1>7, <1>8, <1>9, <1>10 DEF Perform

-----------------------------------------------------------------------------
(* Reconciliation                                                            *)

LEMMA StateWritten ==
    ASSUME TasksOK, NEW t, NEW state \in TASK_STATES,
           task' = [task EXCEPT ![t] = [@ EXCEPT !.state = state, !.old = FALSE, !.unknown = FALSE]]
    PROVE  TasksOK'
<1> DEFINE row == [task[t] EXCEPT !.state = state, !.old = FALSE, !.unknown = FALSE]
<1>1. task' = [task EXCEPT ![t] = row]
  OBVIOUS
<1>2. t \in DOMAIN task => row \in TaskRow
  BY DEF TasksOK, TaskRow
<1> HIDE DEF row
<1> QED BY <1>1, <1>2, RowTyped

LEMMA ListingTyped ==
    ASSUME TypeInv, NEW p \in Proc,
           \/ StartTick(p) \/ RecoverRouting(p) \/ ListJobs(p) \/ PollJob(p)
           \/ ListCandidates(p) \/ EndTick(p) \/ BeginDispatch(p)
    PROVE  TypeInv'
<1> USE DEF TypeInv
<1>1. TasksOK /\ JobsOK /\ ReservedOK /\ W!TypeOK /\ ExtTypeOK
  BY TablesTyped
<1>2. /\ UNCHANGED job /\ UNCHANGED reserved /\ UNCHANGED claims /\ UNCHANGED ext
      /\ ~RecoverRouting(p) => UNCHANGED task
  BY DEF StartTick, RecoverRouting, ListJobs, PollJob, ListCandidates, EndTick, BeginDispatch,
         ReadOnly
<1>3. TasksOK'
  BY <1>1, <1>2, StillTyped, StateWritten, Outcomes DEF RecoverRouting
<1> SUFFICES ProcOK'
  BY <1>1, <1>2, <1>3, StillTyped, TablesTyped
<1>4. Typed(proc[p])
  BY DEF ProcOK
<1>5. CASE StartTick(p)
  <2> DEFINE found == {t \in DOMAIN task : task[t].state = "ROUTING" /\ task[t].old}
  <2>1. Goto(p, "recover", [left |-> found]) /\ found \subseteq Task
    BY <1>1, <1>5 DEF StartTick, TasksOK
  <2> HIDE DEF found
  <2>2. Typed(After(p, "recover", [left |-> found]))
    BY <1>4, <2>1 DEF Typed, After, Field, Fields, Placed, Submission, Dispatching, Polling, Phases
  <2> QED BY <2>1, <2>2, GotoTyped
<1>6. CASE RecoverRouting(p)
  <2>1. PICK t \in proc[p].left :
          \/ Goto(p, "recover", [left |-> proc[p].left \ {t}, t |-> t,
                                 todo |-> Release(t, "RETRYABLE")])
          \/ Goto(p, "recover", [left |-> proc[p].left \ {t}])
    BY <1>6 DEF RecoverRouting
  <2>2. proc[p].left \subseteq Task
    BY <1>4, <1>6 DEF Typed, RecoverRouting, At
  <2>3. Release(t, "RETRYABLE") \in Seq(Write)
    BY <2>2, LeasesTyped, Outcomes
  <2>4. Typed(After(p, "recover", [left |-> proc[p].left \ {t}, t |-> t,
                                   todo |-> Release(t, "RETRYABLE")]))
    BY <1>4, <2>2, <2>3 DEF Typed, After, Field, Fields, Placed, Submission, Dispatching, Polling, Phases
  <2>5. Typed(After(p, "recover", [left |-> proc[p].left \ {t}]))
    BY <1>4, <2>2 DEF Typed, After, Field, Fields, Placed, Submission, Dispatching, Polling, Phases
  <2> QED BY <2>1, <2>4, <2>5, GotoTyped
<1>7. CASE ListJobs(p)
  <2> DEFINE found == {[id |-> j, row |-> job[j]] :
                          j \in {i \in DOMAIN job : job[i].status \in ACTIVE_JOB_STATES}}
  <2>1. Goto(p, "poll", [left |-> found])
    BY <1>7 DEF ListJobs
  <2>2. \A x \in found : x.id \in JobId
    BY <1>1 DEF JobsOK
  <2> HIDE DEF found
  <2>3. Typed(After(p, "poll", [left |-> found]))
    BY <1>4, <2>2 DEF Typed, After, Field, Fields, Placed, Submission, Dispatching, Polling, Phases
  <2> QED BY <2>1, <2>3, GotoTyped
<1>8. CASE PollJob(p)
  <2>1. PICK r \in proc[p].left :
          \/ Goto(p, "poll", [left |-> proc[p].left \ {r}])
          \/ \E pc \in {"inquire", "ask"} : \E row :
                Goto(p, pc, [left |-> proc[p].left \ {r}, t |-> r.id[1], j |-> r.id,
                             row |-> row, jrow |-> r.row])
    BY <1>8 DEF PollJob
  <2>2. \A x \in proc[p].left : x.id \in JobId
    BY <1>4, <1>8 DEF Typed, PollJob, At, Polling
  <2>3. r.id[1] \in Task
    BY <2>2, LedgerAssumption
  <2>4. Typed(After(p, "poll", [left |-> proc[p].left \ {r}]))
    BY <1>4, <2>2 DEF Typed, After, Field, Fields, Placed, Submission, Dispatching, Polling, Phases
  <2>5. ASSUME NEW pc \in {"inquire", "ask"}, NEW row
        PROVE  Typed(After(p, pc, [left |-> proc[p].left \ {r}, t |-> r.id[1], j |-> r.id,
                                   row |-> row, jrow |-> r.row]))
    BY <1>4, <2>2, <2>3 DEF Typed, After, Field, Fields, Placed, Submission, Dispatching, Polling, Phases
  <2> QED BY <2>1, <2>4, <2>5, GotoTyped
<1>9. CASE ListCandidates(p)
  <2> DEFINE found == {t \in DOMAIN task : task[t].state \in SCHEDULABLE}
  <2>1. Goto(p, "dispatch", [left |-> found]) /\ found \subseteq Task
    BY <1>1, <1>9 DEF ListCandidates, TasksOK
  <2> HIDE DEF found
  <2>2. Typed(After(p, "dispatch", [left |-> found]))
    BY <1>4, <2>1 DEF Typed, After, Field, Fields, Placed, Submission, Dispatching, Polling, Phases
  <2> QED BY <2>1, <2>2, GotoTyped
<1>10. CASE EndTick(p)
  BY <1>10, ExitTyped DEF EndTick
<1>11. CASE BeginDispatch(p)
  <2>1. PICK t \in proc[p].left :
          \/ Goto(p, "depend", [left |-> proc[p].left \ {t}, t |-> t, row |-> task[t]])
          \/ Goto(p, "dispatch", [left |-> proc[p].left \ {t}])
    BY <1>11 DEF BeginDispatch
  <2>2. proc[p].left \subseteq Task
    BY <1>4, <1>11 DEF Typed, BeginDispatch, At, Dispatching
  <2>3. /\ Typed(After(p, "depend", [left |-> proc[p].left \ {t}, t |-> t, row |-> task[t]]))
        /\ Typed(After(p, "dispatch", [left |-> proc[p].left \ {t}]))
    BY <1>4, <2>2 DEF Typed, After, Field, Fields, Placed, Submission, Dispatching, Polling, Phases
  <2> QED BY <2>1, <2>3, GotoTyped
<1> QED BY <1>5, <1>6, <1>7, <1>8, <1>9, <1>10, <1>11
LEMMA PollTyped ==
    ASSUME TypeInv, NEW p \in Proc,
           \/ InquireDispatchKey(p) \/ OutcomeUnknown(p) \/ PollError(p)
           \/ PollMisreported(p) \/ PollRunning(p) \/ PollSucceeded(p)
           \/ CollectError(p) \/ PollFailed(p)
    PROVE  TypeInv'
<1> USE DEF TypeInv
<1> DEFINE t == proc[p].t
           j == proc[p].j
<1>1. Typed(proc[p]) /\ proc[p].pc \in {"inquire", "ask"}
  BY DEF ProcOK, InquireDispatchKey, OutcomeUnknown, PollError, PollMisreported,
         PollRunning, PollSucceeded, CollectError, PollFailed, At
<1>2. j \in JobId /\ t \in Task /\ \A x \in proc[p].left : x.id \in JobId
  BY <1>1 DEF Typed, Polling, Phases
<1>3. /\ UNCHANGED task /\ UNCHANGED job /\ UNCHANGED reserved /\ UNCHANGED claims
      /\ UNCHANGED ext \/ \E a : Status(j, a)
  BY DEF InquireDispatchKey, OutcomeUnknown, PollError, PollMisreported,
         PollRunning, PollSucceeded, CollectError, PollFailed, ReadOnly, Answers
<1>4. ExtTypeOK'
  BY <1>2, <1>3, OutcomeTyped, StillTyped, TablesTyped
<1> SUFFICES ProcOK'
  BY <1>3, <1>4, StillTyped, TablesTyped
<1>5. ASSUME NEW steps \in Seq(Write), Decide(p, "poll", steps) PROVE ProcOK'
  BY <1>2, <1>5, DecideTyped
<1>6. ASSUME InquireDispatchKey(p) PROVE ProcOK'
  <2>1. PICK a \in JOB_STATES : Goto(p, "ask", [todo |-> <<SetSent(j, a)>>])
    BY <1>6, Outcomes DEF InquireDispatchKey
  <2>2. <<SetSent(j, a)>> \in Seq(Write)
    BY <1>2, JobTyped
  <2>3. Typed(After(p, "ask", [todo |-> <<SetSent(j, a)>>]))
    BY <1>1, <1>2, <2>2 DEF Typed, After, Field, Fields, Placed, Submission, Dispatching, Polling, Phases
  <2> QED BY <2>1, <2>3, GotoTyped
<1>7. ASSUME OutcomeUnknown(p) PROVE ProcOK'
  <2>1. Block(t) \in Seq(Write) /\ <<>> \in Seq(Write)
    <3>1. <<[Set(t, "BLOCKED") EXCEPT !.error = "unknown"]>> \in Seq(Write)
      BY <1>2, StateTyped, Outcomes
    <3> QED BY <3>1 DEF Block
  <2> QED BY <1>5, <1>7, <2>1 DEF OutcomeUnknown
<1>8. ASSUME PollError(p) PROVE ProcOK'
  <2>1. Renew(t) \in Seq(Write)
    BY <1>2, LeasesTyped, Outcomes
  <2> QED BY <1>5, <1>8, <2>1 DEF PollError
<1>9. ASSUME PollMisreported(p) \/ PollFailed(p) PROVE ProcOK'
  <2>1. PICK a \in JOB_STATES : Decide(p, "poll", Failure(t, proc[p].row, j, a))
    BY <1>9, Outcomes DEF PollMisreported, PollFailed
  <2> QED BY <1>2, <1>5, <2>1, FailureTyped
<1>10. ASSUME PollSucceeded(p) PROVE ProcOK'
  BY <1>2, <1>5, <1>10, SuccessTyped DEF PollSucceeded
<1>11. /\ Renew(t) \in Seq(Write) /\ <<SetJob(j, "RUNNING")>> \in Seq(Write)
       /\ <<Set(t, "RUNNING")>> \in Seq(Write) /\ <<SetError(t, "RUNNING")>> \in Seq(Write)
  BY <1>2, LeasesTyped, JobTyped, StateTyped, Outcomes
<1>12. ASSUME PollRunning(p) PROVE ProcOK'
  <2>1. PICK last \in Seq(Write) : Decide(p, "poll", Renew(t) \o <<SetJob(j, "RUNNING")>> \o last)
    BY <1>11, <1>12, NothingTyped DEF PollRunning
  <2> QED BY <1>5, <1>11, <2>1, JoinTyped
<1>13. ASSUME CollectError(p) PROVE ProcOK'
  <2>1. PICK last \in Seq(Write) : Decide(p, "poll", <<SetJob(j, "RUNNING")>> \o Renew(t) \o last)
    BY <1>11, <1>13, NothingTyped DEF CollectError
  <2> QED BY <1>5, <1>11, <2>1, JoinTyped
<1> QED BY <1>6, <1>7, <1>8, <1>9, <1>10, <1>12, <1>13

-----------------------------------------------------------------------------
(* Dispatch                                                                  *)

LEMMA PlacingTyped ==
    ASSUME TypeInv, NEW p \in Proc,
           \/ CheckDependencies(p) \/ AcquireDispatchLease(p) \/ RouteAndReserve(p)
           \/ ClaimWorkspace(p)
    PROVE  TypeInv'
<1> USE DEF TypeInv
<1> DEFINE t == proc[p].t
<1>1. TasksOK /\ JobsOK /\ ReservedOK /\ W!TypeOK /\ ExtTypeOK
  BY TablesTyped
<1>2. Typed(proc[p]) /\ proc[p].pc \in {"depend", "acquire", "route", "claim"}
  BY DEF ProcOK, CheckDependencies, AcquireDispatchLease, RouteAndReserve, ClaimWorkspace, At
<1>3. t \in Task /\ proc[p].left \subseteq Task
  BY <1>2 DEF Typed, Dispatching, Placed, Phases
<1>4. /\ <<SetError(t, "BLOCKED")>> \in Seq(Write)
      /\ <<SetError(t, "WAITING_CAPACITY")>> \in Seq(Write)
      /\ <<SetError(t, "QUEUED")>> \in Seq(Write) /\ <<Unreserve(t)>> \in Seq(Write)
  BY <1>3, StateTyped, LeasesTyped, Outcomes
<1>5. ASSUME NEW steps \in Seq(Write), Decide(p, "dispatch", steps) PROVE ProcOK'
  BY <1>3, <1>5, DecideTyped
<1>6. ASSUME CheckDependencies(p) PROVE TypeInv'
  <2>1. TypeOK'
    BY <1>1, <1>6, StillTyped, TablesTyped DEF CheckDependencies, ReadOnly
  <2>2. Typed(After(p, "acquire", [t |-> t]))
    BY <1>2, <1>3 DEF Typed, After, Field, Fields, Placed, Submission, Dispatching, Polling, Phases
  <2> QED BY <1>4, <1>5, <1>6, <2>1, <2>2, NothingTyped, GotoTyped DEF CheckDependencies
<1>7. ASSUME AcquireDispatchLease(p) PROVE TypeInv'
  <2>1. UNCHANGED job /\ UNCHANGED reserved /\ UNCHANGED claims /\ UNCHANGED ext
    BY <1>7 DEF AcquireDispatchLease
  <2>2. TasksOK'
    <3>1. CASE UNCHANGED task
      BY <1>1, <3>1, StillTyped
    <3>2. ASSUME NEW old \in BOOLEAN,
                 task' = [task EXCEPT ![t] = [@ EXCEPT !.state = "ROUTING", !.old = old,
                                                       !.unknown = FALSE]]
          PROVE  TasksOK'
      <4> DEFINE row == [task[t] EXCEPT !.state = "ROUTING", !.old = old, !.unknown = FALSE]
      <4>1. task' = [task EXCEPT ![t] = row]
        BY <3>2
      <4>2. ASSUME NEW x \in TaskRow
            PROVE  [x EXCEPT !.state = "ROUTING", !.old = old, !.unknown = FALSE] \in TaskRow
        <5>1. "ROUTING" \in TASK_STATES /\ old \in BOOLEAN /\ FALSE \in BOOLEAN
          BY <3>2, Outcomes
        <5> QED BY <5>1 DEF TaskRow
      <4>3. t \in DOMAIN task => row \in TaskRow
        BY <1>1, <4>2 DEF TasksOK
      <4> HIDE DEF row
      <4> QED BY <1>1, <4>1, <4>3, RowTyped
    <3> QED BY <1>7, <3>1, <3>2 DEF AcquireDispatchLease, Stamp
  <2>3. Typed(After(p, "route", [t |-> t]))
    BY <1>2, <1>3 DEF Typed, After, Field, Fields, Placed, Submission, Dispatching, Polling, Phases
  <2>4. ProcOK'
    BY <1>4, <1>5, <1>7, <2>3, NothingTyped, GotoTyped DEF AcquireDispatchLease
  <2> QED BY <1>1, <2>1, <2>2, <2>4, StillTyped, TablesTyped
<1>8. ASSUME RouteAndReserve(p) PROVE TypeInv'
  <2> DEFINE kept == [u \in Unexpired |-> reserved[u]]
  <2>1. UNCHANGED task /\ UNCHANGED job /\ UNCHANGED claims /\ UNCHANGED ext
    BY <1>8 DEF RouteAndReserve
  <2>2. DOMAIN kept \subseteq Task /\ kept \in [DOMAIN kept -> Reservation]
    BY <1>1 DEF ReservedOK, Unexpired
  <2>3. /\ \A w \in Fits[t] : w \in Worker
        /\ t \in Unexpired => reserved[t].worker \in Worker
    BY <1>1, <1>3, LedgerAssumption DEF ReservedOK, Unexpired, Reservation
  <2>4. ReservedOK'
    <3>1. CASE reserved' = kept
      BY <2>2, <3>1 DEF ReservedOK
    <3>2. ASSUME NEW w \in Worker, reserved' = With(kept, t, [worker |-> w, fresh |-> TRUE])
          PROVE  ReservedOK'
      <4>1. [worker |-> w, fresh |-> TRUE] \in Reservation
        BY DEF Reservation
      <4> HIDE DEF kept
      <4> QED BY <1>3, <2>2, <3>2, <4>1 DEF ReservedOK, With
    <3> QED BY <1>8, <2>3, <3>1, <3>2 DEF RouteAndReserve
  <2>5. ASSUME NEW w \in Worker, NEW reused
        PROVE  Typed(After(p, "claim", [place |-> [worker |-> w, reused |-> reused]]))
    BY <1>2, <1>3 DEF Typed, After, Field, Fields, Placed, Submission, Dispatching, Polling, Phases
  <2>6. \/ \E w \in Worker : \E reused :
              Goto(p, "claim", [place |-> [worker |-> w, reused |-> reused]])
        \/ Decide(p, "dispatch", <<SetError(t, "WAITING_CAPACITY")>>)
    BY <1>8, <2>3 DEF RouteAndReserve
  <2>7. ProcOK'
    BY <1>4, <1>5, <2>5, <2>6, GotoTyped
  <2> QED BY <1>1, <2>1, <2>4, <2>7, StillTyped, TablesTyped
<1>9. ASSUME ClaimWorkspace(p) PROVE TypeInv'
  <2>1. UNCHANGED task /\ UNCHANGED job /\ UNCHANGED reserved /\ UNCHANGED ext
    BY <1>9 DEF ClaimWorkspace
  <2>2. proc[p].place.worker \in Worker
    BY <1>2, <1>9 DEF Typed, Placed, ClaimWorkspace, At
  <2>3. W!TypeOK'
    BY <1>1, <1>3, <1>9, <2>2, ClaimTyped, StillTyped DEF ClaimWorkspace
  <2>4. Typed(After(p, "insert", [t |-> t]))
    BY <1>2, <1>3, <2>2 DEF Typed, After, Field, Fields, Placed, Submission, Dispatching, Polling, Phases
  <2>5. <<Unreserve(t), SetError(t, "QUEUED")>> \in Seq(Write)
    <3>1. <<Unreserve(t)>> \o <<SetError(t, "QUEUED")>> \in Seq(Write)
      BY <1>4, JoinTyped
    <3> QED BY <3>1
  <2>6. ProcOK'
    BY <1>5, <1>9, <2>4, <2>5, GotoTyped DEF ClaimWorkspace
  <2> QED BY <1>1, <2>1, <2>3, <2>6, StillTyped, TablesTyped
<1> QED BY <1>6, <1>7, <1>8, <1>9
LEMMA InsertTyped ==
    ASSUME TypeInv, NEW p \in Proc,
           \/ WorkspaceFails(p) \/ ReservationReused(p) \/ InsertManualJob(p) \/ InsertJob(p)
    PROVE  TypeInv'
<1> USE DEF TypeInv
<1> DEFINE t == proc[p].t
           w == proc[p].place.worker
<1>1. TasksOK /\ JobsOK /\ ReservedOK /\ W!TypeOK /\ ExtTypeOK
  BY TablesTyped
<1>2. Typed(proc[p]) /\ proc[p].pc = "insert"
  BY DEF ProcOK, WorkspaceFails, ReservationReused, InsertManualJob, InsertJob, At
<1>3. t \in Task /\ w \in Worker /\ proc[p].left \subseteq Task
  BY <1>2 DEF Typed, Dispatching, Placed, Phases
<1>4. UNCHANGED task /\ UNCHANGED reserved /\ UNCHANGED claims /\ UNCHANGED ext
  BY DEF WorkspaceFails, ReservationReused, InsertManualJob, InsertJob, ReadOnly
<1>5. JobsOK'
  <2>1. CASE UNCHANGED job
    BY <1>1, <2>1, StillTyped
  <2>2. CASE \E j \in JobId : job' = With(job, j, NewJob(w, "AWAITING_MANUAL"))
    BY <1>1, <1>3, <2>2, NewJobTyped, Outcomes
  <2>3. CASE \E j \in JobId, old \in BOOLEAN :
                job' = With(job, j, [NewJob(w, "SUBMITTING") EXCEPT !.old = old])
    BY <1>1, <1>3, <2>3, NewJobTyped, Outcomes
  <2> QED BY <2>1, <2>2, <2>3
          DEF WorkspaceFails, ReservationReused, InsertManualJob, InsertJob, ReadOnly, Stamp
<1> SUFFICES ProcOK'
  BY <1>1, <1>4, <1>5, StillTyped, TablesTyped
<1>6. ASSUME WorkspaceFails(p) PROVE ProcOK'
  <2>1. Release(t, "BLOCKED") \o <<SetError(t, "BLOCKED")>> \in Seq(Write)
    BY <1>3, LeasesTyped, StateTyped, JoinTyped, Outcomes
  <2> QED BY <1>3, <1>6, <2>1, DecideTyped DEF WorkspaceFails
<1>7. ASSUME ReservationReused(p) PROVE ProcOK'
  BY <1>7, ExitTyped DEF ReservationReused
<1>8. ASSUME InsertManualJob(p) PROVE ProcOK'
  <2>1. PICK j \in JobId : Decide(p, "dispatch", <<Unreserve(t), Attempt(t, j, "AWAITING_MANUAL")>>)
    BY <1>8 DEF InsertManualJob
  <2>2. <<Unreserve(t)>> \o <<Attempt(t, j, "AWAITING_MANUAL")>> \in Seq(Write)
    BY <1>3, LeasesTyped, StateTyped, JoinTyped, Outcomes
  <2>3. <<Unreserve(t), Attempt(t, j, "AWAITING_MANUAL")>> \in Seq(Write)
    BY <2>2
  <2> QED BY <1>3, <2>1, <2>3, DecideTyped
<1>9. ASSUME InsertJob(p) PROVE ProcOK'
  <2>1. PICK j \in JobId : Goto(p, "submit", [j |-> j, todo |-> <<Attempt(t, j, "RESERVED")>>])
    BY <1>9 DEF InsertJob
  <2>2. <<Attempt(t, j, "RESERVED")>> \in Seq(Write)
    BY <1>3, StateTyped, Outcomes
  <2>3. Typed(After(p, "submit", [j |-> j, todo |-> <<Attempt(t, j, "RESERVED")>>]))
    BY <1>2, <1>3, <2>2 DEF Typed, After, Field, Fields, Placed, Submission, Dispatching, Polling, Phases
  <2> QED BY <2>1, <2>3, GotoTyped
<1> QED BY <1>6, <1>7, <1>8, <1>9

LEMMA SubmissionTyped ==
    ASSUME TypeInv, NEW p \in Proc,
           \/ SubmitFails(p) \/ MakeJobDirectory(p) \/ SpawnRunner(p) \/ RegisterRunner(p)
           \/ SubmitManual(p) \/ SubmitRemote(p) \/ RemoteAnswers(p) \/ SettleAnswer(p)
    PROVE  TypeInv'
<1> USE DEF TypeInv
<1> DEFINE t == proc[p].t
           j == proc[p].j
<1>1. TasksOK /\ JobsOK /\ ReservedOK /\ W!TypeOK /\ ExtTypeOK
  BY TablesTyped
<1>2. Typed(proc[p]) /\ proc[p].pc \in Submission
  BY DEF ProcOK, SubmitFails, MakeJobDirectory, SpawnRunner, RegisterRunner, SubmitManual,
         SubmitRemote, RemoteAnswers, SettleAnswer, SubmitTo, At, Submission
<1>3. /\ t \in Task /\ j \in JobId /\ proc[p].left \subseteq Task
      /\ proc[p].place.worker \in Worker
  BY <1>2 DEF Typed, Dispatching, Placed, Submission, Phases
<1>4. /\ UNCHANGED task /\ UNCHANGED job /\ UNCHANGED reserved /\ UNCHANGED claims
      /\ \/ UNCHANGED ext \/ Spawn(j) \/ Register(j)
         \/ \E alive \in BOOLEAN, known \in BOOLEAN, result \in Result :
               Create(j, alive, known, result)
  BY DEF SubmitFails, MakeJobDirectory, SpawnRunner, RegisterRunner, SubmitManual,
         SubmitRemote, RemoteAnswers, SettleAnswer, ReadOnly, Result
<1>5. ExtTypeOK'
  BY <1>1, <1>3, <1>4, OutcomeTyped, CreateTyped, StillTyped
<1> SUFFICES ProcOK'
  BY <1>1, <1>4, <1>5, StillTyped, TablesTyped
<1>6. ASSUME NEW steps \in Seq(Write), Decide(p, "dispatch", steps) PROVE ProcOK'
  BY <1>3, <1>6, DecideTyped
<1>7. ASSUME NEW status \in JOB_STATES, Returned(p, status) PROVE ProcOK'
  <2>1. <<SetSent(j, status)>> \in Seq(Write)
    BY <1>3, JobTyped
  <2>2. Typed(After(p, "settle", [answer |-> status, todo |-> <<SetSent(j, status)>>]))
    BY <1>2, <1>3, <2>1 DEF Typed, After, Field, Fields, Placed, Submission, Dispatching, Polling, Phases
  <2> QED BY <1>7, <2>2, GotoTyped DEF Returned
<1>8. ASSUME SubmitFails(p) PROVE ProcOK'
  <2>1. PICK next \in TASK_STATES :
          Decide(p, "dispatch", <<SetJob(j, "FAILED")>> \o Release(t, "RETRYABLE") \o
                  <<[SetError(t, next) EXCEPT !.job = NoJob]>>)
    BY <1>8, Outcomes DEF SubmitFails, NextTry
  <2>2. /\ <<SetJob(j, "FAILED")>> \in Seq(Write) /\ Release(t, "RETRYABLE") \in Seq(Write)
        /\ <<[SetError(t, next) EXCEPT !.job = NoJob]>> \in Seq(Write)
    BY <1>3, JobTyped, LeasesTyped, StateTyped, Outcomes
  <2> QED BY <1>6, <2>1, <2>2, JoinTyped
<1>9. ASSUME MakeJobDirectory(p) \/ SpawnRunner(p) \/ SubmitRemote(p) PROVE ProcOK'
  <2>1. PICK pc \in {"spawn", "register", "answer"} : Goto(p, pc, [t |-> t])
    BY <1>9 DEF MakeJobDirectory, SpawnRunner, SubmitRemote
  <2>2. Typed(After(p, pc, [t |-> t]))
    BY <1>2, <1>3 DEF Typed, After, Field, Fields, Placed, Submission, Dispatching, Polling, Phases
  <2> QED BY <2>1, <2>2, GotoTyped
<1>10. ASSUME RegisterRunner(p) \/ SubmitManual(p) PROVE ProcOK'
  BY <1>7, <1>10, Outcomes DEF RegisterRunner, SubmitManual
<1>11. ASSUME RemoteAnswers(p) PROVE ProcOK'
  <2>1. \/ Exists(j) /\ Returned(p, IF ext[j].result = "NONE" THEN "RUNNING" ELSE ext[j].result)
        \/ Returned(p, "AWAITING_MANUAL")
    BY <1>11 DEF RemoteAnswers
  <2>2. ASSUME Exists(j)
        PROVE  (IF ext[j].result = "NONE" THEN "RUNNING" ELSE ext[j].result) \in JOB_STATES
    BY <1>1, <2>2, Outcomes DEF ExtTypeOK, Exists, Execution, Result
  <2> QED BY <1>7, <2>1, <2>2, Outcomes
<1>12. ASSUME SettleAnswer(p) PROVE ProcOK'
  <2>1. PICK status \in JOB_STATES : status = proc[p].answer
    BY <1>2, <1>12 DEF Typed, SettleAnswer, At
  <2>2. /\ Release(t, "RETRYABLE") \in Seq(Write) /\ <<Set(t, "AWAITING_MANUAL")>> \in Seq(Write)
        /\ <<Set(t, "RUNNING")>> \in Seq(Write) /\ <<SetError(t, "RUNNING")>> \in Seq(Write)
        /\ Renew(t) \in Seq(Write) /\ <<SetJob(j, "RUNNING")>> \in Seq(Write)
    BY <1>3, JobTyped, LeasesTyped, StateTyped, Outcomes
  <2>3. /\ Release(t, "RETRYABLE") \o <<Set(t, "AWAITING_MANUAL")>> \in Seq(Write)
        /\ <<SetJob(j, "RUNNING")>> \o Renew(t) \o <<SetError(t, "RUNNING")>> \in Seq(Write)
    BY <2>2, JoinTyped
  <2>4. Success(t, j) \in Seq(Write) /\ Failure(t, task[t], j, status) \in Seq(Write)
    BY <1>3, SuccessTyped, FailureTyped
  <2> QED BY <1>6, <1>12, <2>1, <2>2, <2>3, <2>4 DEF SettleAnswer
<1> QED BY <1>8, <1>9, <1>10, <1>11, <1>12
LEMMA RunTyped ==
    ASSUME TypeInv, NEW p \in Proc, Run(p)
    PROVE  TypeInv'
BY PerformTyped, ListingTyped, PollTyped, PlacingTyped, InsertTyped, SubmissionTyped
   DEF Run, ReconcileStep, DispatchStep

-----------------------------------------------------------------------------
(* Commands and the surroundings                                             *)

LEMMA CommandTyped ==
    ASSUME TypeInv, NEW p \in Proc, NEW t \in Task,
           Retry(p, t) \/ CompleteManual(p, t) \/ BeginResolve(p, t) \/ BeginCancel(p, t)
    PROVE  TypeInv'
<1> USE DEF TypeInv
<1>1. TasksOK /\ JobsOK /\ ReservedOK /\ W!TypeOK /\ ExtTypeOK /\ Typed(proc[p])
  BY TablesTyped DEF ProcOK
<1>2. UNCHANGED <<task, job, reserved, claims, ext>> /\ Known(t) /\ proc[p].todo = <<>>
  BY DEF Retry, CompleteManual, BeginResolve, BeginCancel, ReadOnly, Command, At
<1> SUFFICES ProcOK'
  BY <1>1, <1>2, StillTyped, TablesTyped
<1>3. ASSUME NEW steps \in Seq(Write), Goto(p, "idle", [t |-> t, todo |-> steps]) PROVE ProcOK'
  <2>1. Typed(After(p, "idle", [t |-> t, todo |-> steps]))
    BY <1>1 DEF Typed, After, Field, Fields, Placed, Submission, Dispatching, Polling, Phases
  <2> QED BY <1>3, <2>1, GotoTyped
<1>4. CASE Retry(p, t)
  <2>1. <<[op |-> "reopen", id |-> t]>> \in Seq(Write)
    BY LeasesTyped, Outcomes
  <2> QED BY <1>3, <1>4, <2>1 DEF Retry
<1>5. CASE CompleteManual(p, t)
  <2>1. task[t].job \in JobId \cup {NoJob}
    BY <1>1, <1>2 DEF TasksOK, Known, TaskRow
  <2>2. /\ Success(t, task[t].job) \in Seq(Write)
        /\ Failure(t, task[t], task[t].job, "FAILED") \in Seq(Write)
    BY <2>1, SuccessTyped, FailureTyped, Outcomes
  <2> QED BY <1>3, <1>5, <2>2 DEF CompleteManual
<1>6. CASE BeginResolve(p, t)
  <2>1. Typed(After(p, "resolve", [t |-> t]))
    BY <1>1 DEF Typed, After, Field, Fields, Placed, Submission, Dispatching, Polling, Phases
  <2> QED BY <1>6, <2>1, GotoTyped DEF BeginResolve
<1>7. CASE BeginCancel(p, t)
  <2>1. Typed(After(p, "cancel", [t |-> t, row |-> task[t]]))
    BY <1>1 DEF Typed, After, Field, Fields, Placed, Submission, Dispatching, Polling, Phases
  <2> QED BY <1>7, <2>1, GotoTyped DEF BeginCancel
<1> QED BY <1>4, <1>5, <1>6, <1>7

LEMMA CommandEndTyped ==
    ASSUME TypeInv, NEW p \in Proc, ResolveDispatch(p) \/ CancelTask(p)
    PROVE  TypeInv'
<1> USE DEF TypeInv
<1> DEFINE t == proc[p].t
<1>1. TasksOK /\ JobsOK /\ ReservedOK /\ W!TypeOK /\ ExtTypeOK /\ Typed(proc[p])
  BY TablesTyped DEF ProcOK
<1>2. UNCHANGED task /\ UNCHANGED job /\ UNCHANGED claims /\ t \in Task
  BY <1>1 DEF ResolveDispatch, CancelTask, At, Typed, Phases
<1>3. ASSUME NEW steps \in Seq(Write), Decide(p, "idle", steps) PROVE ProcOK'
  BY <1>3, DecideTyped
<1>4. ASSUME ResolveDispatch(p) PROVE TypeInv'
  <2>1. ReservedOK' /\ UNCHANGED ext
    BY <1>1, <1>4 DEF ResolveDispatch, ReservedOK, Reservation
  <2>2. \/ Exit(p)
        \/ \E j \in JobId : Decide(p, "idle", <<SetJob(j, "FAILED")>> \o Release(t, "RETRYABLE") \o
                             <<[SetError(t, "RETRYABLE") EXCEPT !.job = NoJob]>>)
        \/ \E j \in JobId : Decide(p, "idle", <<Hold(t), SetSent(j, "SUBMITTED"), SetError(t, "RUNNING")>>)
    BY <1>1, <1>4 DEF ResolveDispatch, SubmittingJobs, JobsOf, JobsOK
  <2>3. CASE Exit(p)
    BY <1>1, <1>2, <2>1, <2>3, ExitTyped, StillTyped, TablesTyped
  <2>4. ASSUME NEW j \in JobId
        PROVE  /\ <<SetJob(j, "FAILED")>> \o Release(t, "RETRYABLE") \o
                      <<[SetError(t, "RETRYABLE") EXCEPT !.job = NoJob]>> \in Seq(Write)
               /\ <<Hold(t), SetSent(j, "SUBMITTED"), SetError(t, "RUNNING")>> \in Seq(Write)
    <3>1. /\ <<SetJob(j, "FAILED")>> \in Seq(Write) /\ Release(t, "RETRYABLE") \in Seq(Write)
          /\ <<[SetError(t, "RETRYABLE") EXCEPT !.job = NoJob]>> \in Seq(Write)
          /\ <<Hold(t)>> \in Seq(Write) /\ <<SetSent(j, "SUBMITTED")>> \in Seq(Write)
          /\ <<SetError(t, "RUNNING")>> \in Seq(Write)
      BY <1>2, JobTyped, LeasesTyped, StateTyped, Outcomes
    <3>2. <<Hold(t), SetSent(j, "SUBMITTED"), SetError(t, "RUNNING")>> \in Seq(Write)
      BY <3>1, ThreeTyped
    <3> QED BY <3>1, <3>2, JoinTyped
  <2>5. ProcOK'
    BY <1>3, <2>2, <2>4, ExitTyped
  <2> QED BY <1>1, <1>2, <2>1, <2>5, StillTyped, TablesTyped
<1>5. ASSUME CancelTask(p) PROVE TypeInv'
  <2> DEFINE j == proc[p].row.job
             steps == Release(t, "FAILED") \o <<SetDropJob(t, "CANCELLED")>>
  <2>1. UNCHANGED reserved
    BY <1>5 DEF CancelTask
  <2>2. j \in ActiveJobs(t) => j \in JobId
    BY <1>1 DEF ActiveJobs, JobsOf, JobsOK
  <2>3. ExtTypeOK'
    BY <1>1, <1>5, <2>2, OutcomeTyped, StillTyped DEF CancelTask
  <2>4. steps \in Seq(Write) /\ (j \in JobId => <<SetJob(j, "CANCELLED")>> \o steps \in Seq(Write))
    BY <1>2, JobTyped, LeasesTyped, StateTyped, JoinTyped, Outcomes
  <2>5. \/ Decide(p, "idle", steps)
        \/ j \in JobId /\ Decide(p, "idle", <<SetJob(j, "CANCELLED")>> \o steps)
    BY <1>5, <2>2 DEF CancelTask
  <2> HIDE DEF steps, j
  <2>6. ProcOK'
    BY <1>3, <2>4, <2>5
  <2> QED BY <1>1, <1>2, <2>1, <2>3, <2>6, StillTyped, TablesTyped
<1> QED BY <1>4, <1>5

LEMMA EnvironmentTyped ==
    ASSUME TypeInv, Environment
    PROVE  TypeInv'
<1> USE DEF TypeInv
<1>1. TasksOK /\ JobsOK /\ ReservedOK /\ W!TypeOK /\ ExtTypeOK
  BY TablesTyped
<1>2. ProcOK'
  <2>1. UNCHANGED proc
    BY DEF Environment, SubmitTask, ExecutionEnds, ExecutionVanishes, ExecutionForgotten,
           TwoMinutes, Outage
  <2>2. ASSUME NEW p \in Proc PROVE Typed(proc[p])'
    BY <2>1 DEF ProcOK, Typed
  <2> QED BY <2>1, <2>2 DEF ProcOK, Proc
<1>3. ASSUME NEW t \in Task, SubmitTask(t) PROVE TypeInv'
  <2>1. TasksOK'
    BY <1>1, <1>3, NewTaskTyped DEF SubmitTask
  <2> QED BY <1>1, <1>2, <1>3, <2>1, StillTyped, TablesTyped DEF SubmitTask
<1>4. ASSUME NEW j \in JobId,
             ExecutionEnds(j) \/ ExecutionVanishes(j) \/ ExecutionForgotten(j)
      PROVE  TypeInv'
  <2>1. ExtTypeOK'
    BY <1>1, <1>4, OutcomeTyped DEF ExecutionEnds, ExecutionVanishes, ExecutionForgotten
  <2> QED BY <1>1, <1>2, <1>4, <2>1, StillTyped, TablesTyped
          DEF ExecutionEnds, ExecutionVanishes, ExecutionForgotten
<1>5. CASE TwoMinutes
  <2>1. ASSUME NEW row \in TaskRow, NEW b \in BOOLEAN PROVE [row EXCEPT !.old = @ \/ b] \in TaskRow
    BY DEF TaskRow
  <2>2. ASSUME NEW row \in JobRow, NEW b \in BOOLEAN PROVE [row EXCEPT !.old = @ \/ b] \in JobRow
    BY DEF JobRow
  <2>3. TasksOK'
    <3>1. DOMAIN task' = DOMAIN task
      BY <1>5 DEF TwoMinutes
    <3>2. task' = [t \in DOMAIN task |->
          [task[t] EXCEPT !.old = @ \/ (task[t].state = "ROUTING" /\ Ages(t))]]
      BY <1>5 DEF TwoMinutes
    <3>3. ASSUME NEW t \in DOMAIN task
          PROVE  [task[t] EXCEPT !.old = @ \/ (task[t].state = "ROUTING" /\ Ages(t))] \in TaskRow
      <4>1. PICK b \in BOOLEAN : b = (task[t].state = "ROUTING" /\ Ages(t))
        OBVIOUS
      <4>2. [task[t] EXCEPT !.old = @ \/ b] \in TaskRow
        BY <1>1, <2>1 DEF TasksOK
      <4> QED BY <4>1, <4>2
    <3> QED BY <1>1, <3>1, <3>2, <3>3 DEF TasksOK
  <2>4. JobsOK'
    <3>1. job' = [j \in DOMAIN job |->
          [job[j] EXCEPT !.old = @ \/ (job[j].status = "SUBMITTING" /\ Ages(j[1]))]]
      BY <1>5 DEF TwoMinutes
    <3>2. ASSUME NEW j \in DOMAIN job
          PROVE  [job[j] EXCEPT !.old = @ \/ (job[j].status = "SUBMITTING" /\ Ages(j[1]))] \in JobRow
      <4>1. PICK b \in BOOLEAN : b = (job[j].status = "SUBMITTING" /\ Ages(j[1]))
        OBVIOUS
      <4>2. [job[j] EXCEPT !.old = @ \/ b] \in JobRow
        BY <1>1, <2>2 DEF JobsOK
      <4> QED BY <4>1, <4>2
    <3> QED BY <1>1, <3>1, <3>2 DEF JobsOK
  <2> QED BY <1>1, <1>2, <1>5, <2>3, <2>4, StillTyped, TablesTyped DEF TwoMinutes
<1>6. CASE Outage
  <2>1. ReservedOK'
    BY <1>1, <1>6 DEF Outage, ReservedOK, Reservation
  <2>2. W!TypeOK'
    <3>1. W!Tick
      BY <1>6 DEF Outage
    <3>2. PICK t : t \in DOMAIN claims
      BY <3>1 DEF W!Tick
    <3>3. t \in Task
      BY <1>1, <3>2 DEF W!TypeOK
    <3> QED BY <1>1, <3>1, <3>3, LeaseTyped
  <2> QED BY <1>1, <1>2, <1>6, <2>1, <2>2, StillTyped, TablesTyped DEF Outage
<1> QED BY <1>3, <1>4, <1>5, <1>6 DEF Environment

-----------------------------------------------------------------------------
(* The theorem                                                               *)

LEMMA InitTyped == Init => TypeInv
<1> SUFFICES ASSUME Init PROVE TypeInv
  OBVIOUS
<1>1. TypeOK
  BY DEF Init, TypeOK, W!Init, W!TypeOK, ExtTypeOK
<1>2. ProcOK
  BY IdleTyped DEF Init, ProcOK
<1> QED BY <1>1, <1>2 DEF TypeInv

LEMMA NextTyped == TypeInv /\ [Next]_vars => TypeInv'
<1> SUFFICES ASSUME TypeInv, [Next]_vars PROVE TypeInv'
  OBVIOUS
<1>1. TypeOK /\ ProcOK /\ TasksOK /\ JobsOK /\ ReservedOK /\ W!TypeOK /\ ExtTypeOK
  BY TablesTyped DEF TypeInv
<1>2. ASSUME NEW p \in Proc, CommandStep(p) PROVE TypeInv'
  BY <1>2, CommandTyped, CommandEndTyped DEF CommandStep
<1>3. ASSUME NEW p \in Proc, Crash(p) PROVE TypeInv'
  <2>1. ProcOK'
    BY <1>1, <1>3, ExitTyped DEF Crash
  <2> QED BY <1>1, <1>3, <2>1, StillTyped, TablesTyped DEF Crash, TypeInv
<1>4. CASE UNCHANGED vars
  <2>1. UNCHANGED proc /\ UNCHANGED <<task, job, reserved, claims, ext>>
    BY <1>4 DEF vars
  <2>2. ASSUME NEW p \in Proc PROVE Typed(proc[p])'
    BY <1>1, <2>1 DEF ProcOK, Typed
  <2> QED BY <1>1, <2>1, <2>2, StillTyped, TablesTyped DEF ProcOK, Proc, TypeInv
<1> QED BY <1>2, <1>3, <1>4, RunTyped, EnvironmentTyped DEF Next

\* The tables keep their types, whatever ticks, commands, crashes and late
\* writes there are: no write of a call, which may have been decided long ago,
\* brings a state that does not exist or a row that nobody has made.
THEOREM TypeCorrect == Spec => []TypeOK
<1>1. TypeInv => TypeOK
  BY DEF TypeInv
<1> QED BY <1>1, InitTyped, NextTyped, PTL DEF Spec
==================================================================================
