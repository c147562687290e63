---------------------------- MODULE OrchestratorProofs ----------------------------
(* Theorems about Orchestrator: what must have succeeded before a task is done *)
(* or starts, for any ticks, commands, tasks, workers and faults.              *)
EXTENDS Orchestrator, TLAPS

-----------------------------------------------------------------------------
(* The inductive invariant                                                   *)

\* Verifications are LOCAL_REQUIRED: no other adapter gets them.
LocalVerifications ==
    \A t \in Task : IsVerification(t) => \A w \in Fits[t] : Kind[w] = "local"

\* Nobody completes by hand what did not run.
NoManualCompletion == "complete" \notin Commands

\* What makes a task DONE.
Earned(t) ==
    /\ ChildOf[t] # NoTask => Succeeded(ChildOf[t])
    /\ NoManualCompletion => Succeeded(t)

\* What a verification is submitted after.
Opened(v) ==
    NoManualCompletion => \A u \in Task : ChildOf[u] = v => Succeeded(u)

\* What a task starts after.
Cleared(t) == NoManualCompletion => \A d \in DependsOn[t] : Earned(d)

Columns == {"state", "attempts", "max", "job", "unknown", "old", "of"}

\* Tasks that only a person can complete.
ByHand(t, state) == state = "AWAITING_MANUAL" /\ LocalVerifications => ~IsVerification(t)

Rows ==
    \A t \in DOMAIN task :
        /\ DOMAIN task[t] = Columns
        /\ task[t].state = "DONE" => Earned(t)
        /\ ByHand(t, task[t].state)
        /\ Opened(t)

Jobs ==
    /\ DOMAIN job \subseteq JobId
    /\ \A j \in DOMAIN job : Opened(j[1])

Placements ==
    \A t \in DOMAIN reserved : reserved[t] \in [worker : Fits[t], fresh : BOOLEAN]

\* A result SUCCEEDED is never written over.
Executions ==
    /\ ExtTypeOK
    /\ \A j \in DOMAIN ext :
          /\ ext[j].result = "SUCCEEDED" => ~ext[j].alive
          /\ Cleared(j[1])

\* Writes a call still owes: DONE is written only to what has earned it, and a
\* verification is submitted only for what has succeeded.
Good(e) ==
    /\ e.op = "task" => (e.to = "DONE" => Earned(e.id)) /\ ByHand(e.id, e.to)
    /\ e.op = "child" => Opened(e.id)

Owed(steps) == \E S : steps \in Seq(S) /\ \A e \in S : Good(e)

\* Places of a call: with a job, with a worker, after the dependencies.
Placed == {"claim", "insert", "submit", "spawn", "register", "answer", "settle"}
WithJob == {"submit", "spawn", "register", "answer", "settle", "inquire", "ask"}
Started == Placed \cup {"acquire", "route"}

Fields == {"pc", "t", "j", "row", "jrow", "place", "answer", "left", "todo"}

Call(r) ==
    /\ DOMAIN r = Fields
    /\ Owed(r.todo)
    /\ r.pc \in WithJob => r.j \in JobId /\ r.j[1] = r.t
    /\ r.pc \in WithJob \cup Started \cup {"depend"} => Opened(r.t)
    /\ r.pc \in Started \cup {"dispatch", "depend"} => \A x \in r.left : Opened(x)
    /\ r.pc \in Placed => r.place.worker \in Fits[r.t]
    /\ r.pc \in Started => Cleared(r.t)
    /\ r.pc \in {"poll", "inquire", "ask"} =>
          \A x \in r.left : x.id \in JobId /\ Opened(x.id[1])
    /\ r.pc = "answer" => Kind[r.place.worker] # "local"
    /\ r.pc = "settle" =>
          /\ r.answer = "SUCCEEDED" => Succeeded(r.t)
          /\ r.answer = "AWAITING_MANUAL" => Kind[r.place.worker] # "local"
    /\ r.pc = "spawn" => Exists(r.j) /\ ~ext[r.j].alive /\ ext[r.j].result # "SUCCEEDED"

Calls ==
    /\ DOMAIN proc = Proc
    /\ \A p \in Proc : Call(proc[p])

\* An execution is spawned by the one call that has created it.
OneSpawner ==
    \A p, q \in Proc :
        proc[p].pc = "spawn" /\ proc[q].pc = "spawn" /\ proc[p].j = proc[q].j => p = q

IInv == Rows /\ Jobs /\ Placements /\ Executions /\ Calls /\ OneSpawner

-----------------------------------------------------------------------------
(* Owed writes                                                               *)

LEMMA OwedNothing == Owed(<<>>)
<1> DEFINE S == {}
<1>1. <<>> \in Seq(S) /\ \A g \in S : Good(g)
  OBVIOUS
<1> HIDE DEF S
<1> QED BY <1>1 DEF Owed

LEMMA OwedOne ==
    ASSUME NEW e, Good(e)
    PROVE  Owed(<<e>>)
<1> DEFINE S == {e}
<1>1. <<e>> \in Seq(S) /\ \A g \in S : Good(g)
  OBVIOUS
<1> HIDE DEF S
<1> QED BY <1>1 DEF Owed

LEMMA OwedBoth ==
    ASSUME NEW r, NEW s, Owed(r), Owed(s)
    PROVE  Owed(r \o s)
<1>1. PICK R : r \in Seq(R) /\ \A e \in R : Good(e)
  BY DEF Owed
<1>2. PICK S : s \in Seq(S) /\ \A e \in S : Good(e)
  BY DEF Owed
<1>3. r \in Seq(R \cup S) /\ s \in Seq(R \cup S)
  BY <1>1, <1>2
<1>4. r \o s \in Seq(R \cup S)
  BY <1>3
<1>5. \A e \in R \cup S : Good(e)
  BY <1>1, <1>2
<1> QED BY <1>4, <1>5 DEF Owed

LEMMA OwedFirst ==
    ASSUME NEW s, Owed(s), s # <<>>
    PROVE  Good(Head(s)) /\ Owed(Tail(s))
<1>1. PICK S : s \in Seq(S) /\ \A e \in S : Good(e)
  BY DEF Owed
<1>2. Head(s) \in S /\ Tail(s) \in Seq(S)
  BY <1>1
<1> QED BY <1>1, <1>2 DEF Owed

\* Writes that neither complete a task nor submit one.
Mild(e) ==
    /\ e.op # "child"
    /\ e.op = "task" => e.to \notin {"DONE", "AWAITING_MANUAL"}

LEMMA OwedMild ==
    ASSUME NEW e, Mild(e)
    PROVE  Owed(<<e>>)
<1>1. Good(e)
  BY DEF Mild, Good, ByHand
<1> QED BY <1>1, OwedOne

LEMMA OwedTwo ==
    ASSUME NEW e, NEW f, Good(e), Good(f)
    PROVE  Owed(<<e, f>>)
<1> DEFINE S == {e, f}
<1>1. <<e, f>> \in Seq(S) /\ \A g \in S : Good(g)
  OBVIOUS
<1> HIDE DEF S
<1> QED BY <1>1 DEF Owed

LEMMA OwedThree ==
    ASSUME NEW e, NEW f, NEW g, Good(e), Good(f), Good(g)
    PROVE  Owed(<<e, f, g>>)
<1> DEFINE S == {e, f, g}
<1>1. <<e, f, g>> \in Seq(S) /\ \A x \in S : Good(x)
  OBVIOUS
<1> HIDE DEF S
<1> QED BY <1>1 DEF Owed

LEMMA OwedLeases ==
    ASSUME NEW t, NEW outcome
    PROVE  Owed(Release(t, outcome)) /\ Owed(Renew(t))
<1>1. /\ Good(Unreserve(t)) /\ Good([op |-> "unclaim", id |-> t, to |-> outcome])
      /\ Good([op |-> "renew", id |-> t]) /\ Good(Hold(t))
  BY DEF Good, Unreserve, Hold
<1> QED BY <1>1, OwedTwo DEF Release, Renew

\* Every write of a task's state but the two that matter.
LEMMA OwedState ==
    ASSUME NEW t, NEW state, state \notin {"DONE", "AWAITING_MANUAL"}
    PROVE  /\ Owed(<<Set(t, state)>>) /\ Owed(<<SetError(t, state)>>)
           /\ Owed(<<SetDropJob(t, state)>>)
           /\ Owed(<<[SetError(t, state) EXCEPT !.job = NoJob]>>)
<1>1. /\ Mild(Set(t, state)) /\ Mild(SetError(t, state)) /\ Mild(SetDropJob(t, state))
      /\ Mild([SetError(t, state) EXCEPT !.job = NoJob])
  BY DEF Mild, Set, SetError, SetDropJob
<1> QED BY <1>1, OwedMild

LEMMA OwedJob ==
    ASSUME NEW j, NEW status
    PROVE  Owed(<<SetJob(j, status)>>) /\ Owed(<<SetSent(j, status)>>)
<1>1. Mild(SetJob(j, status)) /\ Mild(SetSent(j, status))
  BY DEF Mild, SetJob, SetSent
<1> QED BY <1>1, OwedMild

\* What _finish_failure writes completes nothing.
LEMMA OwedFailure ==
    ASSUME NEW t, NEW row, NEW j, NEW status
    PROVE  Owed(Failure(t, row, j, status))
<1> DEFINE next == NextTry(row.attempts, row.max)
           last == IF next = "FAILED" /\ IsVerification(t)
                   THEN <<SetError(ParentOf(t), "FAILED")>> ELSE <<>>
<1>1. next \notin {"DONE", "AWAITING_MANUAL"}
  BY DEF NextTry
<1>2. Owed(last)
  BY OwedNothing, OwedState
<1>3. /\ Owed(<<SetJob(j, status)>>) /\ Owed(Release(t, "RETRYABLE"))
      /\ Owed(<<[SetError(t, next) EXCEPT !.job = NoJob]>>)
  BY <1>1, OwedJob, OwedLeases, OwedState
<1> HIDE DEF next, last
<1>4. Owed(<<SetJob(j, status)>> \o Release(t, "RETRYABLE") \o
           <<[SetError(t, next) EXCEPT !.job = NoJob]>> \o last)
  BY <1>2, <1>3, OwedBoth
<1> QED BY <1>4 DEF Failure, next, last

\* What _finish_success writes is earned once the job has succeeded, or, for a
\* completion by hand, if the task is no verification.
LEMMA OwedSuccess ==
    ASSUME NEW t \in Task, NEW j,
           \/ Succeeded(t) /\ Opened(t)
           \/ ~NoManualCompletion /\ ~IsVerification(t)
    PROVE  Owed(Success(t, j))
<1> DEFINE verify == [op |-> "child", id |-> ChildOf[t], of |-> j]
           parent == IF IsVerification(t) THEN <<SetDropJob(ParentOf(t), "DONE")>>
                     ELSE <<>>
<1>1. Owed(<<SetJob(j, "SUCCEEDED")>> \o Release(t, "DONE"))
  BY OwedJob, OwedLeases, OwedBoth
<1>2. CASE ChildOf[t] # NoTask /\ ~IsVerification(t)
  <2>1. Good(verify)
    <3>1. Opened(ChildOf[t])
      BY <1>2, VerificationAssumption DEF Opened
    <3> QED BY <3>1 DEF Good
  <2>2. Good(SetDropJob(t, "VERIFYING"))
    BY DEF Good, ByHand, SetDropJob, Set
  <2>3. Owed(<<verify, SetDropJob(t, "VERIFYING")>>)
    BY <2>1, <2>2, OwedTwo
  <2>4. Success(t, j) = <<SetJob(j, "SUCCEEDED")>> \o Release(t, "DONE") \o
                        <<verify, SetDropJob(t, "VERIFYING")>>
    BY <1>2 DEF Success
  <2> HIDE DEF verify
  <2> QED BY <1>1, <2>3, <2>4, OwedBoth
<1>3. CASE ~(ChildOf[t] # NoTask /\ ~IsVerification(t))
  <2>1. ChildOf[t] = NoTask
    BY <1>3, VerificationAssumption DEF IsVerification
  <2>2. Earned(t)
    BY <2>1 DEF Earned
  <2>3. Owed(<<SetDropJob(t, "DONE")>>)
    <3>1. Good(SetDropJob(t, "DONE"))
      BY <2>2 DEF Good, ByHand, SetDropJob, Set
    <3> QED BY <3>1, OwedOne
  <2>4. Owed(parent)
    <3>1. CASE IsVerification(t)
      <4>1. ParentOf(t) \in Task /\ ChildOf[ParentOf(t)] = t
        BY <3>1 DEF IsVerification, ParentOf
      <4>2. Succeeded(t) /\ (NoManualCompletion => Succeeded(ParentOf(t)))
        BY <3>1, <4>1 DEF Opened
      <4>3. Earned(ParentOf(t))
        BY <4>1, <4>2 DEF Earned
      <4>4. Good(SetDropJob(ParentOf(t), "DONE"))
        BY <4>3 DEF Good, ByHand, SetDropJob, Set
      <4> QED BY <3>1, <4>4, OwedOne
    <3>2. CASE ~IsVerification(t)
      BY <3>2, OwedNothing
    <3> QED BY <3>1, <3>2
  <2>5. Success(t, j) = <<SetJob(j, "SUCCEEDED")>> \o Release(t, "DONE") \o
                        (<<SetDropJob(t, "DONE")>> \o parent)
    BY <1>3 DEF Success
  <2> HIDE DEF parent
  <2> QED BY <1>1, <2>3, <2>4, <2>5, OwedBoth
<1> QED BY <1>2, <1>3

-----------------------------------------------------------------------------
(* Executions                                                                *)

\* Success is never taken back.
Grows ==
    \A j \in DOMAIN ext :
        /\ j \in DOMAIN ext'
        /\ ext[j].result = "SUCCEEDED" => ext'[j].result = "SUCCEEDED"

\* An execution that was not spawned, or has been lost, is not successful.
Barren(j) == Exists(j) /\ ~ext[j].alive /\ ext[j].result # "SUCCEEDED"

Dormant == \A j \in DOMAIN ext : Barren(j) => Barren(j)'

LEMMA GrowthKeeps ==
    ASSUME Grows
    PROVE  /\ \A t : Succeeded(t) => Succeeded(t)'
           /\ \A t : Earned(t) => Earned(t)'
           /\ \A t : Opened(t) => Opened(t)'
           /\ \A t : Cleared(t) => Cleared(t)'
           /\ \A e : Good(e) => Good(e)'
           /\ \A steps : Owed(steps) => Owed(steps)'
<1>1. ASSUME NEW t, Succeeded(t) PROVE Succeeded(t)'
  BY <1>1 DEF Grows, Succeeded, Exists
<1>2. ASSUME NEW t, Earned(t) PROVE Earned(t)'
  BY <1>1, <1>2 DEF Earned, NoManualCompletion
<1>3. ASSUME NEW t, Opened(t) PROVE Opened(t)'
  BY <1>1, <1>3 DEF Opened, NoManualCompletion
<1>4. ASSUME NEW t, Cleared(t) PROVE Cleared(t)'
  BY <1>2, <1>4 DEF Cleared, NoManualCompletion
<1>5. ASSUME NEW e, Good(e) PROVE Good(e)'
  BY <1>2, <1>3, <1>5 DEF Good, ByHand, LocalVerifications, IsVerification
<1>6. ASSUME NEW steps, Owed(steps) PROVE Owed(steps)'
  BY <1>5, <1>6 DEF Owed
<1> QED BY <1>1, <1>2, <1>3, <1>4, <1>5, <1>6

LEMMA SameExecutions ==
    ASSUME Executions, UNCHANGED ext
    PROVE  Executions' /\ Grows /\ Dormant
<1>1. Grows /\ Dormant
  BY DEF Grows, Dormant, Barren, Exists
<1> QED BY <1>1, GrowthKeeps DEF Executions, ExtTypeOK

\* One execution changes.
LEMMA ChangedExecution ==
    ASSUME Executions, NEW j \in DOMAIN ext, NEW x \in Execution,
           ext' = [ext EXCEPT ![j] = x],
           x.result = "SUCCEEDED" => ~x.alive,
           ext[j].result = "SUCCEEDED" => x.result = "SUCCEEDED",
           Barren(j) => ~x.alive /\ x.result # "SUCCEEDED"
    PROVE  Executions' /\ Grows /\ Dormant
<1>1. ExtTypeOK'
  BY DEF Executions, ExtTypeOK
<1>2. Grows /\ Dormant
  BY DEF Grows, Dormant, Barren, Exists
<1>3. \A k \in DOMAIN ext' :
        /\ k \in DOMAIN ext
        /\ ext'[k].result = "SUCCEEDED" => ~ext'[k].alive
  BY DEF Executions
<1> QED BY <1>1, <1>2, <1>3, GrowthKeeps DEF Executions

LEMMA ExecutionTypes ==
    ASSUME Executions, NEW j \in DOMAIN ext
    PROVE  ext[j] \in Execution
BY DEF Executions, ExtTypeOK

\* Answers, cancellations and ends.
LEMMA OutcomeKeeps ==
    ASSUME Executions, NEW j \in JobId,
           \/ \E a : Status(j, a)
           \/ Cancel(j) \/ Finish(j) \/ Vanish(j) \/ Register(j) \/ Forget(j)
    PROVE  Executions' /\ Grows /\ Dormant
<1>1. j \in DOMAIN ext
  BY DEF Status, Cancel, Finish, Vanish, Register, Forget, Exists, Alive
<1>2. ext[j] \in Execution
  BY <1>1, ExecutionTypes
<1>3. ASSUME NEW a, Status(j, a) PROVE Executions' /\ Grows /\ Dormant
  <2>1. CASE UNCHANGED ext
    BY <2>1, SameExecutions
  <2>2. CASE Unaccounted(j) /\ ext' = [ext EXCEPT ![j].result = "FAILED"]
    <3> DEFINE x == [ext[j] EXCEPT !.result = "FAILED"]
    <3>1. x \in Execution /\ x.result = "FAILED" /\ x.alive = ext[j].alive
      BY <1>2 DEF Execution, Result
    <3>2. ext' = [ext EXCEPT ![j] = x] /\ ext[j].result = "NONE"
      BY <2>2 DEF Unaccounted
    <3> HIDE DEF x
    <3> QED BY <1>1, <3>1, <3>2, ChangedExecution DEF Barren
  <2> QED BY <1>3, <2>1, <2>2 DEF Status
<1>4. ASSUME Cancel(j) PROVE Executions' /\ Grows /\ Dormant
  <2>1. CASE \E a : Status(j, a)
    BY <1>3, <2>1
  <2>2. CASE /\ ext[j].result = "NONE"
             /\ \E survives \in {FALSE, ext[j].alive /\ ~ext[j].known} :
                   ext' = [ext EXCEPT ![j].alive = survives, ![j].result = "CANCELLED"]
    <3>1. PICK survives \in {FALSE, ext[j].alive /\ ~ext[j].known} :
             ext' = [ext EXCEPT ![j].alive = survives, ![j].result = "CANCELLED"]
      BY <2>2
    <3> DEFINE x == [ext[j] EXCEPT !.alive = survives, !.result = "CANCELLED"]
    <3>2. survives \in BOOLEAN /\ (survives => ext[j].alive)
      BY <1>2 DEF Execution
    <3>3. x \in Execution /\ x.result = "CANCELLED" /\ x.alive = survives
      BY <1>2, <3>2 DEF Execution, Result
    <3>4. ext' = [ext EXCEPT ![j] = x]
      BY <3>1
    <3> HIDE DEF x
    <3> QED BY <1>1, <2>2, <3>2, <3>3, <3>4, ChangedExecution DEF Barren
  <2> QED BY <1>4, <2>1, <2>2 DEF Cancel
<1>5. ASSUME Finish(j) PROVE Executions' /\ Grows /\ Dormant
  <2>1. PICK r \in {"SUCCEEDED", "FAILED", "CANCELLED"} :
           ext' = [ext EXCEPT ![j].alive = FALSE, ![j].result = r]
    BY <1>5 DEF Finish
  <2> DEFINE x == [ext[j] EXCEPT !.alive = FALSE, !.result = r]
  <2>2. x \in Execution /\ ~x.alive
    BY <1>2 DEF Execution, Result
  <2>3. ext' = [ext EXCEPT ![j] = x] /\ ext[j].alive
    BY <1>5, <2>1 DEF Finish, Alive
  <2>4. ext[j].result # "SUCCEEDED"
    BY <1>1, <2>3 DEF Executions
  <2> HIDE DEF x
  <2> QED BY <1>1, <2>2, <2>3, <2>4, ChangedExecution DEF Barren
<1>6. ASSUME Vanish(j) PROVE Executions' /\ Grows /\ Dormant
  <2> DEFINE x == [ext[j] EXCEPT !.alive = FALSE]
  <2>1. x \in Execution /\ ~x.alive /\ x.result = ext[j].result
    BY <1>1, <1>2, ExecutionTypes DEF Execution
  <2>2. ext' = [ext EXCEPT ![j] = x] /\ ext[j].alive
    BY <1>6 DEF Vanish, Alive
  <2> HIDE DEF x
  <2> QED BY <1>1, <2>1, <2>2, ChangedExecution DEF Barren
<1>7. ASSUME Register(j) PROVE Executions' /\ Grows /\ Dormant
  <2> DEFINE x == [ext[j] EXCEPT !.known = TRUE]
  <2>1. /\ x \in Execution /\ x.alive = ext[j].alive /\ x.result = ext[j].result
        /\ ext[j].result = "SUCCEEDED" => ~ext[j].alive
    BY <1>1, <1>2, ExecutionTypes DEF Execution, Executions
  <2>2. ext' = [ext EXCEPT ![j] = x]
    BY <1>7 DEF Register
  <2> HIDE DEF x
  <2> QED BY <1>1, <2>1, <2>2, ChangedExecution DEF Barren
<1>8. ASSUME Forget(j) PROVE Executions' /\ Grows /\ Dormant
  <2> DEFINE x == [ext[j] EXCEPT !.known = FALSE]
  <2>1. /\ x \in Execution /\ x.alive = ext[j].alive /\ x.result = ext[j].result
        /\ ext[j].result = "SUCCEEDED" => ~ext[j].alive
    BY <1>1, <1>2, ExecutionTypes DEF Execution, Executions
  <2>2. ext' = [ext EXCEPT ![j] = x]
    BY <1>8 DEF Forget
  <2> HIDE DEF x
  <2> QED BY <1>1, <2>1, <2>2, ChangedExecution DEF Barren
<1> QED BY <1>3, <1>4, <1>5, <1>6, <1>7, <1>8

LEMMA CreateKeeps ==
    ASSUME Executions, NEW j \in JobId, Cleared(j[1]),
           NEW alive \in BOOLEAN, NEW known \in BOOLEAN, NEW result \in Result,
           result = "SUCCEEDED" => ~alive,
           Create(j, alive, known, result)
    PROVE  Executions' /\ Grows /\ Dormant
<1> DEFINE x == [alive |-> alive, known |-> known, result |-> result]
<1>1. x \in Execution /\ x.alive = alive /\ x.result = result
  BY DEF Execution
<1>2. /\ DOMAIN ext' = DOMAIN ext \cup {j} /\ j \notin DOMAIN ext
      /\ ext'[j] = x
      /\ \A k \in DOMAIN ext : ext'[k] = ext[k]
      /\ ext' = [k \in DOMAIN ext' |-> ext'[k]]
  BY DEF Create, Exists
<1> HIDE DEF x
<1>3. Grows /\ Dormant
  BY <1>2 DEF Grows, Dormant, Barren, Exists
<1>4. ExtTypeOK'
  BY <1>1, <1>2 DEF Executions, ExtTypeOK
<1>5. \A k \in DOMAIN ext' :
        /\ ext'[k].result = "SUCCEEDED" => ~ext'[k].alive
        /\ Cleared(k[1])
  BY <1>1, <1>2 DEF Executions
<1> QED BY <1>3, <1>4, <1>5, GrowthKeeps DEF Executions

-----------------------------------------------------------------------------
(* Calls                                                                     *)

\* p goes on with r; only executions that are not about to be spawned by another
\* call change under it.
Undisturbed(p) ==
    \A q \in Proc \ {p}, j \in JobId :
        proc[q].pc = "spawn" /\ proc[q].j = j => Barren(j)'

LEMMA CallGrows ==
    ASSUME Grows, NEW r, Call(r), r.pc = "spawn" => Barren(r.j)'
    PROVE  Call(r)'
<1>1. /\ \A t : Succeeded(t) => Succeeded(t)'
      /\ \A t : Opened(t) => Opened(t)'
      /\ \A t : Cleared(t) => Cleared(t)'
      /\ \A steps : Owed(steps) => Owed(steps)'
  BY GrowthKeeps
<1>2. r.pc = "spawn" => (Exists(r.j) /\ ~ext[r.j].alive /\ ext[r.j].result # "SUCCEEDED")'
  BY DEF Barren
<1> QED BY <1>1, <1>2 DEF Call

LEMMA DormantUndisturbed ==
    ASSUME Calls, Dormant, NEW p \in Proc
    PROVE  Undisturbed(p)
<1> SUFFICES ASSUME NEW q \in Proc, NEW j \in JobId,
                    proc[q].pc = "spawn" /\ proc[q].j = j
             PROVE  Barren(j)'
  BY DEF Undisturbed
<1>1. j \in DOMAIN ext /\ Barren(j)
  BY DEF Calls, Call, Barren, Exists
<1> QED BY <1>1 DEF Dormant

LEMMA StepKeeps ==
    ASSUME Calls, OneSpawner, Grows, NEW p \in Proc, Undisturbed(p), NEW r, Call(r),
           r.pc # "spawn", proc' = [proc EXCEPT ![p] = r]
    PROVE  Calls' /\ OneSpawner'
<1>1. Call(r)'
  BY CallGrows
<1>2. ASSUME NEW q \in Proc \ {p} PROVE Call(proc[q])' /\ proc'[q] = proc[q]
  <2>1. PICK s : s = proc[q] /\ s = proc'[q]
    BY DEF Calls
  <2>2. Call(s) /\ (s.pc = "spawn" => Barren(s.j)')
    <3>1. Call(s)
      BY <2>1 DEF Calls
    <3>2. s.pc = "spawn" => s.j \in JobId
      BY <3>1 DEF Call, WithJob
    <3> QED BY <2>1, <3>1, <3>2 DEF Undisturbed
  <2>3. Call(s)'
    BY <2>2, CallGrows
  <2> QED BY <2>1, <2>3
<1>3. DOMAIN proc' = Proc /\ proc'[p] = r
  BY DEF Calls
<1>4. Calls'
  <2> SUFFICES ASSUME NEW q \in Proc PROVE Call(proc[q])'
    BY <1>3 DEF Calls, Proc
  <2>1. CASE q = p
    BY <1>1, <1>3, <2>1
  <2>2. CASE q # p
    BY <1>2, <2>2
  <2> QED BY <2>1, <2>2
<1>5. OneSpawner'
  BY <1>2, <1>3 DEF OneSpawner, Proc
<1> QED BY <1>4, <1>5

\* The call after Goto(p, pc, r), field by field.
Field(p, r, f) == IF f \in DOMAIN r THEN r[f] ELSE proc[p][f]

After(p, pc, r) ==
    [pc |-> pc, t |-> Field(p, r, "t"), j |-> Field(p, r, "j"),
     row |-> Field(p, r, "row"), jrow |-> Field(p, r, "jrow"),
     place |-> Field(p, r, "place"), answer |-> Field(p, r, "answer"),
     left |-> Field(p, r, "left"), todo |-> Field(p, r, "todo")]

LEMMA GotoAfter ==
    ASSUME Calls, NEW p \in Proc, NEW pc, NEW r, Goto(p, pc, r)
    PROVE  proc' = [proc EXCEPT ![p] = After(p, pc, r)]
<1> DEFINE q == [f \in DOMAIN Idle |->
                    IF f = "pc" THEN pc
                    ELSE IF f \in DOMAIN r THEN r[f] ELSE proc[p][f]]
<1>1. q = After(p, pc, r)
  BY DEF Idle, After, Field
<1>2. proc' = [proc EXCEPT ![p] = q]
  BY DEF Goto, Calls
<1> QED BY <1>1, <1>2

LEMMA GotoKeeps ==
    ASSUME Calls, OneSpawner, Grows, NEW p \in Proc, Undisturbed(p), NEW pc, NEW r,
           Goto(p, pc, r), Call(After(p, pc, r)), pc # "spawn"
    PROVE  Calls' /\ OneSpawner'
<1>1. PICK q : q = After(p, pc, r)
  OBVIOUS
<1>2. proc' = [proc EXCEPT ![p] = q] /\ Call(q)
  BY <1>1, GotoAfter
<1>3. q.pc # "spawn"
  BY <1>1 DEF After
<1> QED BY <1>2, <1>3, StepKeeps

LEMMA DecideKeeps ==
    ASSUME Calls, OneSpawner, Grows, NEW p \in Proc, Undisturbed(p),
           NEW pc \in {"idle", "poll", "dispatch"}, NEW steps, Owed(steps),
           Decide(p, pc, steps),
           pc = "poll" => \A x \in proc[p].left : x.id \in JobId /\ Opened(x.id[1]),
           pc = "dispatch" => \A x \in proc[p].left : Opened(x)
    PROVE  Calls' /\ OneSpawner'
<1>1. PICK q : q = [Idle EXCEPT
        !.pc = pc, !.left = proc[p].left, !.todo = steps,
        !.t = IF steps = <<>> THEN NoTask ELSE proc[p].t]
  OBVIOUS
<1>2. proc' = [proc EXCEPT ![p] = q]
  BY <1>1 DEF Decide
<1>3. /\ DOMAIN q = Fields
      /\ q.pc = pc /\ q.todo = steps /\ q.left = proc[p].left
  BY <1>1 DEF Idle, Fields
<1>4. Call(q)
  BY <1>3 DEF Call, WithJob, Placed, Started
<1> QED BY <1>2, <1>3, <1>4, StepKeeps

LEMMA IdleCall == Call(Idle)
BY OwedNothing DEF Call, Idle, Fields, WithJob, Placed, Started

LEMMA ExitKeeps ==
    ASSUME Calls, OneSpawner, Grows, NEW p \in Proc, Undisturbed(p), Exit(p)
    PROVE  Calls' /\ OneSpawner'
<1>1. PICK q : q = Idle
  OBVIOUS
<1>2. Call(q) /\ q.pc # "spawn"
  BY <1>1, IdleCall DEF Idle
<1> QED BY <1>1, <1>2, StepKeeps DEF Exit

\* Steps that leave executions, or tables, alone.
LEMMA StillKeeps ==
    ASSUME Executions, Calls, UNCHANGED ext
    PROVE  Executions' /\ Grows /\ \A p \in Proc : Undisturbed(p)
BY SameExecutions, DormantUndisturbed

LEMMA TablesKeep ==
    ASSUME Rows, Jobs, Placements, Grows, UNCHANGED <<task, job, reserved>>
    PROVE  Rows' /\ Jobs' /\ Placements'
<1>1. /\ \A t : Earned(t) => Earned(t)'
      /\ \A t : Opened(t) => Opened(t)'
  BY GrowthKeeps
<1>2. Rows'
  BY <1>1 DEF Rows, ByHand, LocalVerifications, IsVerification
<1>3. Jobs'
  BY <1>1 DEF Jobs
<1>4. Placements'
  BY DEF Placements
<1> QED BY <1>2, <1>3, <1>4

\* A step of p that only decides.
LEMMA ReadOnlyKeeps ==
    ASSUME IInv, NEW p \in Proc, ReadOnly
    PROVE  /\ Rows' /\ Jobs' /\ Placements' /\ Executions'
           /\ Grows /\ Undisturbed(p)
<1>1. UNCHANGED ext /\ UNCHANGED <<task, job, reserved>>
  BY DEF ReadOnly
<1> QED BY <1>1, StillKeeps, TablesKeep DEF IInv

-----------------------------------------------------------------------------
(* The writes that are due                                                   *)

LEMMA PopKeeps ==
    ASSUME IInv, NEW p \in Proc, proc[p].todo # <<>>, Pop(p), UNCHANGED ext
    PROVE  Calls' /\ OneSpawner'
<1> USE DEF IInv
<1>1. PICK q : q = [proc[p] EXCEPT
                !.todo = Tail(proc[p].todo),
                !.t = IF Tail(proc[p].todo) = <<>> /\ proc[p].pc \in Phases
                      THEN NoTask ELSE proc[p].t]
  OBVIOUS
<1>2. proc' = [proc EXCEPT ![p] = q]
  BY <1>1 DEF Pop
<1>3. Call(proc[p]) /\ Owed(Tail(proc[p].todo))
  BY OwedFirst DEF Calls, Call
<1>4. /\ DOMAIN q = Fields
      /\ q.pc = proc[p].pc /\ q.j = proc[p].j /\ q.left = proc[p].left
      /\ q.place = proc[p].place /\ q.answer = proc[p].answer
      /\ q.todo = Tail(proc[p].todo)
      /\ proc[p].pc \notin Phases => q.t = proc[p].t
  BY <1>1, <1>3 DEF Call, Fields
<1>5. Call(q)
  BY <1>3, <1>4 DEF Call, WithJob, Placed, Started, Phases
<1>6. Executions' /\ Grows /\ Undisturbed(p)
  BY StillKeeps
<1>7. CASE q.pc # "spawn"
  BY <1>2, <1>5, <1>6, <1>7, StepKeeps
<1>8. CASE q.pc = "spawn"
  <2>1. DOMAIN proc' = Proc /\ proc'[p] = q /\ \A r \in Proc \ {p} : proc'[r] = proc[r]
    BY <1>2 DEF Calls
  <2>2. \A r \in Proc : proc'[r].pc = proc[r].pc /\ proc'[r].j = proc[r].j
    BY <1>4, <2>1
  <2>3. OneSpawner'
    BY <2>2 DEF OneSpawner, Proc
  <2>4. ASSUME NEW r \in Proc PROVE Call(proc[r])'
    <3>1. PICK s : s = proc'[r]
      OBVIOUS
    <3>2. Call(s)
      BY <1>5, <2>1, <3>1 DEF Calls
    <3>3. s.pc = "spawn" => Barren(s.j)'
      BY <3>2 DEF Call, Barren, Exists
    <3>4. Call(s)'
      BY <1>6, <3>2, <3>3, CallGrows
    <3> QED BY <3>1, <3>4
  <2> QED BY <2>1, <2>3, <2>4 DEF Calls, Proc
<1> QED BY <1>7, <1>8

\* The state column of one task is written.
LEMMA RowKeeps ==
    ASSUME Rows, Grows, NEW t, NEW state, NEW row,
           state = "DONE" => Earned(t), ByHand(t, state),
           row.state = state, DOMAIN row = Columns,
           task' = [task EXCEPT ![t] = row]
    PROVE  Rows'
<1>1. /\ \A u : Earned(u) => Earned(u)'
      /\ \A u : Opened(u) => Opened(u)'
      /\ \A u, st : ByHand(u, st) => ByHand(u, st)'
  BY GrowthKeeps DEF ByHand, LocalVerifications, IsVerification
<1>2. DOMAIN task' = DOMAIN task
  OBVIOUS
<1> SUFFICES ASSUME NEW u \in DOMAIN task
             PROVE  /\ DOMAIN task'[u] = Columns
                    /\ task'[u].state = "DONE" => Earned(u)'
                    /\ ByHand(u, task[u].state)'
                    /\ Opened(u)'
  BY <1>2 DEF Rows
<1>3. Opened(u)'
  BY <1>1 DEF Rows
<1>4. CASE u = t
  <2>1. task'[u] = row
    BY <1>4
  <2>2. ByHand(u, state)'
    BY <1>1, <1>4
  <2> QED BY <1>1, <1>3, <1>4, <2>1, <2>2 DEF ByHand
<1>5. CASE u # t
  <2>1. task'[u] = task[u]
    BY <1>5
  <2>2. PICK st : st = task[u].state
    OBVIOUS
  <2>3. ByHand(u, st)'
    BY <1>1, <2>2 DEF Rows
  <2> QED BY <1>1, <1>3, <2>1, <2>2, <2>3 DEF Rows, ByHand
<1> QED BY <1>4, <1>5

LEMMA PerformTaskKeeps ==
    ASSUME IInv, NEW p \in Proc, PerformTask(p)
    PROVE  IInv'
<1> USE DEF IInv
<1>1. PICK e : e = Step(p)
  OBVIOUS
<1>2. Good(e) /\ e.op = "task"
  BY <1>1, OwedFirst DEF PerformTask, Due, Step, Calls, Call
<1>3. UNCHANGED ext /\ UNCHANGED <<job, reserved>>
  BY DEF PerformTask
<1>4. Executions' /\ Grows
  BY <1>3, StillKeeps
<1>5. Calls' /\ OneSpawner'
  BY <1>3, PopKeeps DEF PerformTask, Due
<1>6. Jobs' /\ Placements'
  BY <1>3, <1>4, GrowthKeeps DEF Jobs, Placements
<1>7. CASE ~Known(e.id)
  <2>1. UNCHANGED <<task, job, reserved>>
    BY <1>1, <1>3, <1>7 DEF PerformTask
  <2> QED BY <1>4, <1>5, <2>1, TablesKeep
<1>8. CASE Known(e.id)
  <2> DEFINE row == [task[e.id] EXCEPT
                        !.state = e.to,
                        !.old = FALSE,
                        !.attempts = task[e.id].attempts + e.bump,
                        !.job = IF e.job = KeepJob THEN task[e.id].job ELSE e.job,
                        !.unknown = IF e.error = "keep" THEN task[e.id].unknown
                                    ELSE e.error = "unknown"]
  <2>1. /\ task' = [task EXCEPT ![e.id] = row]
        /\ row.state = e.to /\ DOMAIN row = Columns
    <3>1. DOMAIN task[e.id] = Columns
      BY <1>8 DEF Known, Rows
    <3>2. row.state = e.to /\ DOMAIN row = Columns
      BY <3>1 DEF Columns
    <3>3. task' = [task EXCEPT ![e.id] = row]
      BY <1>1, <1>8 DEF PerformTask
    <3> QED BY <3>2, <3>3
  <2> HIDE DEF row
  <2>2. (e.to = "DONE" => Earned(e.id)) /\ ByHand(e.id, e.to)
    BY <1>2 DEF Good
  <2>3. Rows'
    BY <1>4, <2>1, <2>2, RowKeeps
  <2> QED BY <1>4, <1>5, <1>6, <2>3
<1> QED BY <1>7, <1>8

LEMMA PerformJobKeeps ==
    ASSUME IInv, NEW p \in Proc, PerformJob(p)
    PROVE  IInv'
<1> USE DEF IInv
<1>1. UNCHANGED ext /\ UNCHANGED <<task, reserved>> /\ DOMAIN job' = DOMAIN job
  BY DEF PerformJob
<1>2. Executions' /\ Grows
  BY <1>1, StillKeeps
<1>3. Calls' /\ OneSpawner'
  BY <1>1, PopKeeps DEF PerformJob, Due
<1>4. Jobs' /\ Placements'
  BY <1>1, <1>2, GrowthKeeps DEF Jobs, Placements
<1>5. Rows'
  BY <1>1, <1>2, GrowthKeeps DEF Rows, ByHand, LocalVerifications, IsVerification
<1> QED BY <1>2, <1>3, <1>4, <1>5

LEMMA PerformLeaseKeeps ==
    ASSUME IInv, NEW p \in Proc,
           PerformUnreserve(p) \/ PerformUnclaim(p) \/ PerformRenew(p) \/ PerformHold(p)
    PROVE  IInv'
<1> USE DEF IInv
<1>1. UNCHANGED ext /\ UNCHANGED <<task, job>>
  BY DEF PerformUnreserve, PerformUnclaim, PerformRenew, PerformHold
<1>2. Executions' /\ Grows
  BY <1>1, StillKeeps
<1>3. proc[p].todo # <<>> /\ Pop(p)
  BY DEF PerformUnreserve, PerformUnclaim, PerformRenew, PerformHold, Due
<1>4. Calls' /\ OneSpawner'
  BY <1>1, <1>3, PopKeeps
<1>5. Jobs' /\ Rows'
  BY <1>1, <1>2, GrowthKeeps DEF Jobs, Rows, ByHand, LocalVerifications, IsVerification
<1>6. Placements'
  <2>1. CASE PerformUnreserve(p)
    BY <2>1 DEF PerformUnreserve, Without, Placements
  <2>2. CASE PerformUnclaim(p) \/ PerformHold(p)
    BY <2>2 DEF PerformUnclaim, PerformHold, Placements
  <2>3. CASE PerformRenew(p)
    BY <2>3 DEF PerformRenew, Placements
  <2> QED BY <2>1, <2>2, <2>3
<1> QED BY <1>2, <1>4, <1>5, <1>6

\* A verification is submitted.
LEMMA PerformChildKeeps ==
    ASSUME IInv, NEW p \in Proc, PerformChild(p)
    PROVE  IInv'
<1> USE DEF IInv
<1>1. PICK e : e = Step(p)
  OBVIOUS
<1>2. Opened(e.id)
  BY <1>1, OwedFirst DEF PerformChild, Due, Step, Calls, Call, Good
<1>3. UNCHANGED ext /\ UNCHANGED <<job, reserved>>
  BY DEF PerformChild
<1>4. Executions' /\ Grows /\ Undisturbed(p)
  BY <1>3, StillKeeps
<1>5. Calls' /\ OneSpawner'
  BY <1>3, <1>4, PopKeeps, ExitKeeps DEF PerformChild, Due
<1>6. Jobs' /\ Placements'
  BY <1>3, <1>4, GrowthKeeps DEF Jobs, Placements
<1>7. CASE UNCHANGED task
  BY <1>3, <1>4, <1>5, <1>7, TablesKeep
<1>8. CASE task' = With(task, e.id, NewTask(e.of))
  <2>1. /\ DOMAIN task' = DOMAIN task \cup {e.id}
        /\ task'[e.id] = NewTask(e.of)
        /\ \A u \in DOMAIN task : u # e.id => task'[u] = task[u]
    BY <1>8 DEF With
  <2>2. NewTask(e.of).state = "QUEUED" /\ DOMAIN NewTask(e.of) = Columns
    BY DEF NewTask, Columns
  <2>3. Rows'
    BY <1>2, <1>4, <2>1, <2>2, GrowthKeeps
       DEF Rows, ByHand, LocalVerifications, IsVerification
  <2> QED BY <1>4, <1>5, <1>6, <2>3
<1> QED BY <1>1, <1>7, <1>8 DEF PerformChild

LEMMA PerformReopenKeeps ==
    ASSUME IInv, NEW p \in Proc, PerformReopen(p)
    PROVE  IInv'
<1> USE DEF IInv
<1>1. PICK t : t = Step(p).id
  OBVIOUS
<1>2. UNCHANGED ext /\ UNCHANGED <<job, reserved>>
  BY DEF PerformReopen
<1>3. Executions' /\ Grows
  BY <1>2, StillKeeps
<1>4. Calls' /\ OneSpawner'
  BY <1>2, PopKeeps DEF PerformReopen, Due
<1>5. Jobs' /\ Placements'
  BY <1>2, <1>3, GrowthKeeps DEF Jobs, Placements
<1>6. CASE t \notin DOMAIN task
  <2>1. DOMAIN task' = DOMAIN task /\ \A u \in DOMAIN task : task'[u] = task[u]
    BY <1>1, <1>6 DEF PerformReopen
  <2>2. Rows'
    BY <1>3, <2>1, GrowthKeeps DEF Rows, ByHand, LocalVerifications, IsVerification
  <2> QED BY <1>3, <1>4, <1>5, <2>2
<1>7. CASE t \in DOMAIN task
  <2> DEFINE row == [task[t] EXCEPT
                        !.state = "QUEUED", !.job = NoJob, !.unknown = FALSE, !.old = FALSE,
                        !.max = IF task[t].max <= task[t].attempts
                                THEN task[t].attempts + 1 ELSE task[t].max]
  <2>1. /\ task' = [task EXCEPT ![t] = row]
        /\ row.state = "QUEUED" /\ DOMAIN row = Columns
    <3>1. DOMAIN task[t] = Columns
      BY <1>7 DEF Rows
    <3>2. row.state = "QUEUED" /\ DOMAIN row = Columns
      BY <3>1 DEF Columns
    <3>3. task' = [task EXCEPT ![t] = row]
      BY <1>1 DEF PerformReopen
    <3> QED BY <3>2, <3>3
  <2> HIDE DEF row
  <2>2. Rows'
    BY <1>3, <2>1, RowKeeps DEF ByHand
  <2> QED BY <1>3, <1>4, <1>5, <2>2
<1> QED BY <1>6, <1>7

LEMMA PerformKeeps ==
    ASSUME IInv, NEW p \in Proc, Perform(p)
    PROVE  IInv'
BY PerformTaskKeeps, PerformJobKeeps, PerformLeaseKeeps, PerformChildKeeps,
   PerformReopenKeeps DEF Perform

-----------------------------------------------------------------------------
(* Reconciliation                                                            *)

LEMMA RecoverKeeps ==
    ASSUME IInv, NEW p \in Proc, RecoverRouting(p)
    PROVE  IInv'
<1> USE DEF IInv
<1>1. UNCHANGED ext /\ UNCHANGED <<job, reserved>>
  BY DEF RecoverRouting
<1>2. Executions' /\ Grows /\ Undisturbed(p)
  BY <1>1, StillKeeps
<1>3. Jobs' /\ Placements'
  BY <1>1, <1>2, GrowthKeeps DEF Jobs, Placements
<1>4. PICK t \in proc[p].left :
        \/ /\ task' = [task EXCEPT ![t] = [@ EXCEPT
                 !.state = "RETRYABLE", !.old = FALSE, !.unknown = FALSE]]
           /\ Goto(p, "recover", [left |-> proc[p].left \ {t}, t |-> t,
                                  todo |-> Release(t, "RETRYABLE")])
        \/ Goto(p, "recover", [left |-> proc[p].left \ {t}]) /\ UNCHANGED task
  BY DEF RecoverRouting
<1>5. CASE /\ task' = [task EXCEPT ![t] = [@ EXCEPT
                 !.state = "RETRYABLE", !.old = FALSE, !.unknown = FALSE]]
           /\ Goto(p, "recover", [left |-> proc[p].left \ {t}, t |-> t,
                                  todo |-> Release(t, "RETRYABLE")])
  <2>1. Call(After(p, "recover", [left |-> proc[p].left \ {t}, t |-> t,
                                  todo |-> Release(t, "RETRYABLE")]))
    BY OwedLeases DEF Call, After, Field, Fields, WithJob, Placed, Started
  <2>2. Calls' /\ OneSpawner'
    BY <1>2, <1>5, <2>1, GotoKeeps
  <2>3. Rows'
    <3>1. CASE t \in DOMAIN task
      <4> DEFINE row == [task[t] EXCEPT
                            !.state = "RETRYABLE", !.old = FALSE, !.unknown = FALSE]
      <4>1. row.state = "RETRYABLE" /\ DOMAIN row = Columns
        BY <3>1 DEF Rows, Columns
      <4>2. task' = [task EXCEPT ![t] = row]
        BY <1>5
      <4> HIDE DEF row
      <4> QED BY <1>2, <4>1, <4>2, RowKeeps DEF ByHand
    <3>2. CASE t \notin DOMAIN task
      <4>1. DOMAIN task' = DOMAIN task /\ \A u \in DOMAIN task : task'[u] = task[u]
        BY <1>5, <3>2
      <4> QED BY <1>2, <4>1, GrowthKeeps DEF Rows, ByHand, LocalVerifications, IsVerification
    <3> QED BY <3>1, <3>2
  <2> QED BY <1>2, <1>3, <2>2, <2>3
<1>6. CASE Goto(p, "recover", [left |-> proc[p].left \ {t}]) /\ UNCHANGED task
  <2>1. Call(proc[p])
    BY DEF Calls
  <2>2. Call(After(p, "recover", [left |-> proc[p].left \ {t}]))
    BY <2>1 DEF Call, After, Field, Fields, WithJob, Placed, Started
  <2>3. Calls' /\ OneSpawner'
    BY <1>2, <1>6, <2>2, GotoKeeps
  <2>4. Rows'
    BY <1>1, <1>2, <1>6, TablesKeep
  <2> QED BY <1>2, <1>3, <2>3, <2>4
<1> QED BY <1>4, <1>5, <1>6

\* The lists a tick works through.
LEMMA ListingKeeps ==
    ASSUME IInv, NEW p \in Proc,
           StartTick(p) \/ ListJobs(p) \/ ListCandidates(p) \/ EndTick(p)
    PROVE  IInv'
<1> USE DEF IInv
<1>1. ReadOnly
  BY DEF StartTick, ListJobs, ListCandidates, EndTick
<1>2. /\ Rows' /\ Jobs' /\ Placements' /\ Executions'
      /\ Grows /\ Undisturbed(p)
  BY <1>1, ReadOnlyKeeps
<1>3. Call(proc[p])
  BY DEF Calls
<1>4. CASE StartTick(p)
  <2> DEFINE found == {t \in DOMAIN task : task[t].state = "ROUTING" /\ task[t].old}
  <2>1. Goto(p, "recover", [left |-> found])
    BY <1>4 DEF StartTick
  <2> HIDE DEF found
  <2>2. Call(After(p, "recover", [left |-> found]))
    BY <1>3 DEF Call, After, Field, Fields, WithJob, Placed, Started
  <2> QED BY <1>2, <2>1, <2>2, GotoKeeps
<1>5. CASE ListJobs(p)
  <2> DEFINE found == {[id |-> j, row |-> job[j]] :
                          j \in {i \in DOMAIN job : job[i].status \in ACTIVE_JOB_STATES}}
  <2>1. Goto(p, "poll", [left |-> found])
    BY <1>5 DEF ListJobs
  <2>2. \A x \in found : x.id \in JobId /\ Opened(x.id[1])
    BY DEF Jobs
  <2> HIDE DEF found
  <2>3. Call(After(p, "poll", [left |-> found]))
    BY <1>3, <2>2 DEF Call, After, Field, Fields, WithJob, Placed, Started
  <2> QED BY <1>2, <2>1, <2>3, GotoKeeps
<1>6. CASE ListCandidates(p)
  <2> DEFINE found == {t \in DOMAIN task : task[t].state \in SCHEDULABLE}
  <2>1. Goto(p, "dispatch", [left |-> found])
    BY <1>6 DEF ListCandidates
  <2>2. \A x \in found : Opened(x)
    BY DEF Rows
  <2> HIDE DEF found
  <2>3. Call(After(p, "dispatch", [left |-> found]))
    BY <1>3, <2>2 DEF Call, After, Field, Fields, WithJob, Placed, Started
  <2> QED BY <1>2, <2>1, <2>3, GotoKeeps
<1>7. CASE EndTick(p)
  BY <1>2, <1>7, ExitKeeps DEF EndTick
<1> QED BY <1>4, <1>5, <1>6, <1>7

LEMMA PollJobKeeps ==
    ASSUME IInv, NEW p \in Proc, PollJob(p)
    PROVE  IInv'
<1> USE DEF IInv
<1>1. /\ Rows' /\ Jobs' /\ Placements' /\ Executions'
      /\ Grows /\ Undisturbed(p)
  BY ReadOnlyKeeps DEF PollJob
<1>2. PICK r \in proc[p].left :
        \/ Goto(p, "poll", [left |-> proc[p].left \ {r}])
        \/ \E pc \in {"inquire", "ask"} : \E row :
              Goto(p, pc, [left |-> proc[p].left \ {r}, t |-> r.id[1], j |-> r.id,
                           row |-> row, jrow |-> r.row])
  BY DEF PollJob
<1>3. Call(proc[p]) /\ proc[p].pc = "poll"
  BY DEF Calls, PollJob, At
<1>4. \A x \in proc[p].left : x.id \in JobId /\ Opened(x.id[1])
  BY <1>3 DEF Call
<1>5. CASE Goto(p, "poll", [left |-> proc[p].left \ {r}])
  <2>1. Call(After(p, "poll", [left |-> proc[p].left \ {r}]))
    BY <1>3, <1>4 DEF Call, After, Field, Fields, WithJob, Placed, Started
  <2> QED BY <1>1, <1>5, <2>1, GotoKeeps
<1>6. ASSUME NEW pc \in {"inquire", "ask"}, NEW row,
             Goto(p, pc, [left |-> proc[p].left \ {r}, t |-> r.id[1], j |-> r.id,
                          row |-> row, jrow |-> r.row])
      PROVE  IInv'
  <2>1. Call(After(p, pc, [left |-> proc[p].left \ {r}, t |-> r.id[1], j |-> r.id,
                           row |-> row, jrow |-> r.row]))
    BY <1>3, <1>4 DEF Call, After, Field, Fields, WithJob, Placed, Started
  <2> QED BY <1>1, <1>6, <2>1, GotoKeeps
<1> QED BY <1>2, <1>5, <1>6

\* A poll that has an answer, or none.
LEMMA PollKeeps ==
    ASSUME IInv, NEW p \in Proc,
           \/ InquireDispatchKey(p) \/ OutcomeUnknown(p) \/ PollError(p)
           \/ PollMisreported(p) \/ PollRunning(p) \/ PollSucceeded(p)
           \/ CollectError(p) \/ PollFailed(p)
    PROVE  IInv'
<1> USE DEF IInv
<1> DEFINE t == proc[p].t
           j == proc[p].j
<1>1. Call(proc[p]) /\ proc[p].pc \in {"inquire", "ask"}
  BY DEF Calls, InquireDispatchKey, OutcomeUnknown, PollError, PollMisreported,
         PollRunning, PollSucceeded, CollectError, PollFailed, At
<1>2. /\ j \in JobId /\ j[1] = t /\ Opened(t) /\ t \in Task
      /\ \A x \in proc[p].left : x.id \in JobId /\ Opened(x.id[1])
  BY <1>1, LedgerAssumption DEF Call, WithJob
<1>3. UNCHANGED <<task, job, reserved>> /\ (UNCHANGED ext \/ \E a : Status(j, a))
  BY DEF InquireDispatchKey, OutcomeUnknown, PollError, PollMisreported,
         PollRunning, PollSucceeded, CollectError, PollFailed, ReadOnly, Answers
<1>4. Executions' /\ Grows /\ Undisturbed(p)
  <2>1. CASE UNCHANGED ext
    BY <2>1, StillKeeps
  <2>2. CASE \E a : Status(j, a)
    BY <1>2, <2>2, OutcomeKeeps, DormantUndisturbed
  <2> QED BY <1>3, <2>1, <2>2
<1>5. Rows' /\ Jobs' /\ Placements'
  BY <1>3, <1>4, TablesKeep
<1>6. ASSUME NEW steps, Owed(steps), Decide(p, "poll", steps) PROVE IInv'
  BY <1>2, <1>4, <1>5, <1>6, DecideKeeps
<1>7. ASSUME InquireDispatchKey(p) PROVE IInv'
  <2>1. PICK a : Goto(p, "ask", [todo |-> <<SetSent(j, a)>>])
    BY <1>7 DEF InquireDispatchKey
  <2>2. Owed(<<SetSent(j, a)>>)
    BY OwedJob
  <2>3. Call(After(p, "ask", [todo |-> <<SetSent(j, a)>>]))
    BY <1>1, <1>2, <2>2 DEF Call, After, Field, Fields, WithJob, Placed, Started
  <2> QED BY <1>4, <1>5, <2>1, <2>3, GotoKeeps
<1>8. ASSUME OutcomeUnknown(p) PROVE IInv'
  <2>1. Owed(Block(t))
    <3>1. Mild([Set(t, "BLOCKED") EXCEPT !.error = "unknown"])
      BY DEF Mild, Set
    <3> QED BY <3>1, OwedMild DEF Block
  <2> QED BY <1>6, <1>8, <2>1, OwedNothing DEF OutcomeUnknown
<1>9. ASSUME PollError(p) PROVE IInv'
  BY <1>6, <1>9, OwedLeases DEF PollError
<1>10. ASSUME PollMisreported(p) \/ PollFailed(p) PROVE IInv'
  BY <1>6, <1>10, OwedFailure DEF PollMisreported, PollFailed
<1>11. ASSUME PollSucceeded(p) PROVE IInv'
  <2>1. Status(j, "SUCCEEDED")
    BY <1>11 DEF PollSucceeded, Answers
  <2>2. Succeeded(t)
    BY <1>2, <2>1 DEF Status, Succeeded
  <2>3. Owed(Success(t, j))
    BY <1>2, <2>2, OwedSuccess
  <2> QED BY <1>6, <1>11, <2>3 DEF PollSucceeded
<1>12. ASSUME PollRunning(p) PROVE IInv'
  <2> DEFINE last == IF proc[p].row.state # "RUNNING" THEN <<Set(t, "RUNNING")>> ELSE <<>>
  <2>1. Owed(Renew(t) \o <<SetJob(j, "RUNNING")>>) /\ Owed(last)
    BY OwedLeases, OwedJob, OwedState, OwedNothing, OwedBoth
  <2>2. Decide(p, "poll", Renew(t) \o <<SetJob(j, "RUNNING")>> \o last)
    BY <1>12 DEF PollRunning
  <2> HIDE DEF last
  <2> QED BY <1>6, <2>1, <2>2, OwedBoth
<1>13. ASSUME CollectError(p) PROVE IInv'
  <2> DEFINE last == IF proc[p].row.state # "RUNNING" THEN <<SetError(t, "RUNNING")>>
                     ELSE <<>>
  <2>1. Owed(<<SetJob(j, "RUNNING")>> \o Renew(t)) /\ Owed(last)
    BY OwedLeases, OwedJob, OwedState, OwedNothing, OwedBoth
  <2>2. Decide(p, "poll", <<SetJob(j, "RUNNING")>> \o Renew(t) \o last)
    BY <1>13 DEF CollectError
  <2> HIDE DEF last
  <2> QED BY <1>6, <2>1, <2>2, OwedBoth
<1> QED BY <1>7, <1>8, <1>9, <1>10, <1>11, <1>12, <1>13

-----------------------------------------------------------------------------
(* Dispatch, up to the adapter                                               *)

LEMMA CandidateKeeps ==
    ASSUME IInv, NEW p \in Proc, BeginDispatch(p) \/ CheckDependencies(p)
    PROVE  IInv'
<1> USE DEF IInv
<1>1. /\ Rows' /\ Jobs' /\ Placements' /\ Executions'
      /\ Grows /\ Undisturbed(p)
  BY ReadOnlyKeeps DEF BeginDispatch, CheckDependencies
<1>2. Call(proc[p])
  BY DEF Calls
<1>3. ASSUME BeginDispatch(p) PROVE IInv'
  <2>1. PICK t \in proc[p].left :
          \/ Goto(p, "depend", [left |-> proc[p].left \ {t}, t |-> t, row |-> task[t]])
          \/ Goto(p, "dispatch", [left |-> proc[p].left \ {t}])
    BY <1>3 DEF BeginDispatch
  <2>2. \A x \in proc[p].left : Opened(x)
    BY <1>2, <1>3 DEF Call, BeginDispatch, At
  <2>3. /\ Call(After(p, "depend", [left |-> proc[p].left \ {t}, t |-> t, row |-> task[t]]))
        /\ Call(After(p, "dispatch", [left |-> proc[p].left \ {t}]))
    BY <1>2, <2>2 DEF Call, After, Field, Fields, WithJob, Placed, Started
  <2> QED BY <1>1, <2>1, <2>3, GotoKeeps
<1>4. ASSUME CheckDependencies(p) PROVE IInv'
  <2> DEFINE t == proc[p].t
  <2>1. Opened(t) /\ \A x \in proc[p].left : Opened(x)
    BY <1>2, <1>4 DEF Call, CheckDependencies, At
  <2>2. CASE (\A d \in DependsOn[t] : Ready(d)) /\ Goto(p, "acquire", [t |-> t])
    <3>1. Cleared(t)
      BY <2>2 DEF Cleared, Ready, StateIs, Known, Rows
    <3>2. Call(After(p, "acquire", [t |-> t]))
      BY <1>2, <2>1, <3>1 DEF Call, After, Field, Fields, WithJob, Placed, Started
    <3> QED BY <1>1, <2>2, <3>2, GotoKeeps
  <2>3. CASE Decide(p, "dispatch", <<SetError(t, "BLOCKED")>>) \/ Decide(p, "dispatch", <<>>)
    BY <1>1, <2>1, <2>3, OwedState, OwedNothing, DecideKeeps
  <2> QED BY <1>4, <2>2, <2>3 DEF CheckDependencies
<1> QED BY <1>3, <1>4

LEMMA AcquireKeeps ==
    ASSUME IInv, NEW p \in Proc, AcquireDispatchLease(p)
    PROVE  IInv'
<1> USE DEF IInv
<1> DEFINE t == proc[p].t
<1>1. UNCHANGED ext /\ UNCHANGED <<job, reserved>>
  BY DEF AcquireDispatchLease
<1>2. Executions' /\ Grows /\ Undisturbed(p)
  BY <1>1, StillKeeps
<1>3. Jobs' /\ Placements'
  BY <1>1, <1>2, GrowthKeeps DEF Jobs, Placements
<1>4. /\ Call(proc[p]) /\ Opened(t) /\ Cleared(t)
      /\ \A x \in proc[p].left : Opened(x)
  BY DEF Calls, Call, Started, AcquireDispatchLease, At
<1>5. ASSUME NEW old \in BOOLEAN, Goto(p, "route", [t |-> t]),
             task' = [task EXCEPT ![t] = [@ EXCEPT
                 !.state = "ROUTING", !.old = old, !.unknown = FALSE]]
      PROVE  IInv'
  <2>1. Call(After(p, "route", [t |-> t]))
    BY <1>4 DEF Call, After, Field, Fields, WithJob, Placed, Started
  <2>2. Calls' /\ OneSpawner'
    BY <1>2, <1>5, <2>1, GotoKeeps
  <2>3. PICK u : u = t
    OBVIOUS
  <2>4. Rows'
    <3>1. CASE u \in DOMAIN task
      <4> DEFINE row == [task[u] EXCEPT
                            !.state = "ROUTING", !.old = old, !.unknown = FALSE]
      <4>1. row.state = "ROUTING" /\ DOMAIN row = Columns
        BY <3>1 DEF Rows, Columns
      <4>2. task' = [task EXCEPT ![u] = row]
        BY <1>5, <2>3
      <4> HIDE DEF row
      <4> QED BY <1>2, <4>1, <4>2, RowKeeps DEF ByHand
    <3>2. CASE u \notin DOMAIN task
      <4>1. DOMAIN task' = DOMAIN task /\ \A v \in DOMAIN task : task'[v] = task[v]
        BY <1>5, <2>3, <3>2
      <4> QED BY <1>2, <4>1, GrowthKeeps DEF Rows, ByHand, LocalVerifications, IsVerification
    <3> QED BY <3>1, <3>2
  <2> QED BY <1>2, <1>3, <2>2, <2>4
<1>6. CASE Decide(p, "dispatch", <<>>) /\ UNCHANGED task
  <2>1. Calls' /\ OneSpawner'
    BY <1>2, <1>4, <1>6, OwedNothing, DecideKeeps
  <2> QED BY <1>1, <1>2, <1>6, <2>1, TablesKeep
<1> QED BY <1>5, <1>6 DEF AcquireDispatchLease, Stamp

\* A task is placed on a worker that it may use.
LEMMA RouteKeeps ==
    ASSUME IInv, NEW p \in Proc, RouteAndReserve(p)
    PROVE  IInv'
<1> USE DEF IInv
<1> DEFINE t == proc[p].t
           kept == [u \in Unexpired |-> reserved[u]]
<1>1. UNCHANGED ext /\ UNCHANGED <<task, job>>
  BY DEF RouteAndReserve
<1>2. Executions' /\ Grows /\ Undisturbed(p)
  BY <1>1, StillKeeps
<1>3. Rows' /\ Jobs'
  BY <1>1, <1>2, GrowthKeeps DEF Jobs, Rows, ByHand, LocalVerifications, IsVerification
<1>4. /\ Call(proc[p]) /\ Opened(t) /\ Cleared(t)
      /\ \A x \in proc[p].left : Opened(x)
  BY DEF Calls, Call, Started, RouteAndReserve, At
<1>5. \A u \in DOMAIN kept : kept[u] \in [worker : Fits[u], fresh : BOOLEAN]
  BY DEF Placements, Unexpired
<1>6. ASSUME NEW w \in Fits[t], NEW reused, Goto(p, "claim", [place |-> [worker |-> w, reused |-> reused]])
      PROVE  Calls' /\ OneSpawner'
  <2>1. Call(After(p, "claim", [place |-> [worker |-> w, reused |-> reused]]))
    BY <1>4 DEF Call, After, Field, Fields, WithJob, Placed, Started
  <2> QED BY <1>2, <1>6, <2>1, GotoKeeps
<1>7. CASE /\ t \in Unexpired
           /\ reserved' = kept
           /\ Goto(p, "claim", [place |-> [worker |-> reserved[t].worker, reused |-> TRUE]])
  <2>1. reserved[t].worker \in Fits[t]
    BY <1>7 DEF Unexpired, Placements
  <2>2. Calls' /\ OneSpawner'
    BY <1>6, <1>7, <2>1
  <2>3. Placements'
    BY <1>5, <1>7 DEF Placements
  <2> QED BY <1>2, <1>3, <2>2, <2>3
<1>8. ASSUME NEW w \in Fits[t],
             reserved' = With(kept, t, [worker |-> w, fresh |-> TRUE]),
             Goto(p, "claim", [place |-> [worker |-> w, reused |-> FALSE]])
      PROVE  IInv'
  <2>1. Calls' /\ OneSpawner'
    BY <1>6, <1>8
  <2>2. Placements'
    <3>1. PICK u : u = t
      OBVIOUS
    <3>2. w \in Fits[u] /\ reserved' = With(kept, u, [worker |-> w, fresh |-> TRUE])
      BY <1>8, <3>1
    <3> HIDE DEF kept, t
    <3>3. /\ DOMAIN reserved' = DOMAIN kept \cup {u}
          /\ reserved'[u] = [worker |-> w, fresh |-> TRUE]
          /\ \A v \in DOMAIN kept : v # u => reserved'[v] = kept[v]
      BY <3>2 DEF With
    <3> SUFFICES ASSUME NEW v \in DOMAIN reserved'
                 PROVE  reserved'[v] \in [worker : Fits[v], fresh : BOOLEAN]
      BY DEF Placements
    <3>4. CASE v = u
      <4>1. PICK x : x = [worker |-> w, fresh |-> TRUE]
        OBVIOUS
      <4>2. x \in [worker : Fits[v], fresh : BOOLEAN]
        BY <3>2, <3>4, <4>1
      <4>3. reserved'[v] = x
        BY <3>3, <3>4, <4>1
      <4> QED BY <4>2, <4>3
    <3>5. CASE v # u
      BY <1>5, <3>3, <3>5
    <3> QED BY <3>4, <3>5
  <2> QED BY <1>2, <1>3, <2>1, <2>2
<1>9. CASE reserved' = kept /\ Decide(p, "dispatch", <<SetError(t, "WAITING_CAPACITY")>>)
  <2>1. Calls' /\ OneSpawner'
    BY <1>2, <1>4, <1>9, OwedState, DecideKeeps
  <2>2. Placements'
    BY <1>5, <1>9 DEF Placements
  <2> QED BY <1>2, <1>3, <2>1, <2>2
<1> QED BY <1>7, <1>8, <1>9 DEF RouteAndReserve

LEMMA PlacedCall ==
    ASSUME Calls, NEW p \in Proc, proc[p].pc \in Placed
    PROVE  /\ Call(proc[p]) /\ Opened(proc[p].t) /\ Cleared(proc[p].t)
           /\ proc[p].place.worker \in Fits[proc[p].t]
           /\ \A x \in proc[p].left : Opened(x)
BY DEF Calls, Call, Started

\* A task that waits for a person is no verification.
LEMMA ByHandPlaced ==
    ASSUME NEW t \in Task, NEW w \in Fits[t], Kind[w] # "local"
    PROVE  ByHand(t, "AWAITING_MANUAL")
BY DEF ByHand, LocalVerifications

LEMMA ClaimKeeps ==
    ASSUME IInv, NEW p \in Proc,
           ClaimWorkspace(p) \/ WorkspaceFails(p) \/ ReservationReused(p)
    PROVE  IInv'
<1> USE DEF IInv
<1> DEFINE t == proc[p].t
<1>1. UNCHANGED ext /\ UNCHANGED <<task, job, reserved>>
  BY DEF ClaimWorkspace, WorkspaceFails, ReservationReused, ReadOnly
<1>2. Executions' /\ Grows /\ Undisturbed(p)
  BY <1>1, StillKeeps
<1>3. Rows' /\ Jobs' /\ Placements'
  BY <1>1, <1>2, TablesKeep
<1>4. proc[p].pc \in Placed
  BY DEF ClaimWorkspace, WorkspaceFails, ReservationReused, At, Placed
<1>5. /\ Call(proc[p]) /\ Opened(t) /\ Cleared(t) /\ proc[p].place.worker \in Fits[t]
      /\ \A x \in proc[p].left : Opened(x)
  BY <1>4, PlacedCall
<1>6. CASE ClaimWorkspace(p)
  <2>1. CASE Goto(p, "insert", [t |-> t])
    <3>1. Call(After(p, "insert", [t |-> t]))
      BY <1>5 DEF Call, After, Field, Fields, WithJob, Placed, Started
    <3> QED BY <1>2, <1>3, <2>1, <3>1, GotoKeeps
  <2>2. CASE Decide(p, "dispatch", <<Unreserve(t), SetError(t, "QUEUED")>>)
    <3>1. Good(Unreserve(t)) /\ Good(SetError(t, "QUEUED"))
      BY DEF Good, ByHand, Unreserve, SetError, Set
    <3>2. Owed(<<Unreserve(t), SetError(t, "QUEUED")>>)
      BY <3>1, OwedTwo
    <3> QED BY <1>2, <1>3, <1>5, <2>2, <3>2, DecideKeeps
  <2> QED BY <1>6, <2>1, <2>2 DEF ClaimWorkspace
<1>7. CASE WorkspaceFails(p)
  <2>1. Owed(Release(t, "BLOCKED") \o <<SetError(t, "BLOCKED")>>)
    BY OwedLeases, OwedState, OwedBoth
  <2> QED BY <1>2, <1>3, <1>5, <1>7, <2>1, DecideKeeps DEF WorkspaceFails
<1>8. CASE ReservationReused(p)
  BY <1>2, <1>3, <1>8, ExitKeeps DEF ReservationReused
<1> QED BY <1>6, <1>7, <1>8

LEMMA InsertKeeps ==
    ASSUME IInv, NEW p \in Proc, InsertManualJob(p) \/ InsertJob(p)
    PROVE  IInv'
<1> USE DEF IInv
<1> DEFINE t == proc[p].t
           j == FreshJob(t)
           w == proc[p].place.worker
<1>1. UNCHANGED ext /\ UNCHANGED <<task, reserved>>
  BY DEF InsertManualJob, InsertJob
<1>2. Executions' /\ Grows /\ Undisturbed(p)
  BY <1>1, StillKeeps
<1>3. Rows' /\ Placements'
  BY <1>1, <1>2, GrowthKeeps DEF Rows, Placements, ByHand, LocalVerifications, IsVerification
<1>4. proc[p].pc \in Placed /\ j \in JobId
  BY DEF InsertManualJob, InsertJob, At, Placed
<1>5. /\ Call(proc[p]) /\ Opened(t) /\ Cleared(t) /\ w \in Fits[t]
      /\ \A x \in proc[p].left : Opened(x)
  BY <1>4, PlacedCall
<1>6. j[1] = t /\ t \in Task
  BY <1>4, LedgerAssumption DEF FreshJob
<1>7. Jobs'
  <2>1. PICK k : k = j
    OBVIOUS
  <2>2. DOMAIN job' = DOMAIN job \cup {k}
    BY <2>1 DEF InsertManualJob, InsertJob, With
  <2>3. k \in JobId /\ Opened(k[1])
    BY <1>4, <1>5, <1>6, <2>1
  <2> QED BY <1>2, <2>2, <2>3, GrowthKeeps DEF Jobs
<1>8. CASE InsertManualJob(p)
  <2>1. Good(Unreserve(t)) /\ Good(Attempt(t, j, "AWAITING_MANUAL"))
    <3>1. ByHand(t, "AWAITING_MANUAL")
      BY <1>5, <1>6, <1>8, ByHandPlaced DEF InsertManualJob
    <3> QED BY <3>1 DEF Good, Unreserve, Attempt, Set, ByHand
  <2>2. Owed(<<Unreserve(t), Attempt(t, j, "AWAITING_MANUAL")>>)
    BY <2>1, OwedTwo
  <2>3. Decide(p, "dispatch", <<Unreserve(t), Attempt(t, j, "AWAITING_MANUAL")>>)
    BY <1>8 DEF InsertManualJob
  <2> QED BY <1>2, <1>3, <1>5, <1>7, <2>2, <2>3, DecideKeeps
<1>9. CASE InsertJob(p)
  <2>1. Mild(Attempt(t, j, "RESERVED"))
    BY DEF Mild, Attempt, Set
  <2>2. Owed(<<Attempt(t, j, "RESERVED")>>)
    BY <2>1, OwedMild
  <2>3. Goto(p, "submit", [j |-> j, todo |-> <<Attempt(t, j, "RESERVED")>>])
    BY <1>9 DEF InsertJob
  <2> HIDE DEF j
  <2>4. Call(After(p, "submit", [j |-> j, todo |-> <<Attempt(t, j, "RESERVED")>>]))
    BY <1>4, <1>5, <1>6, <2>2 DEF Call, After, Field, Fields, WithJob, Placed, Started
  <2> QED BY <1>2, <1>3, <1>7, <2>3, <2>4, GotoKeeps
<1> QED BY <1>8, <1>9

-----------------------------------------------------------------------------
(* Dispatch, through the adapter                                             *)

LEMMA SubmittingCall ==
    ASSUME IInv, NEW p \in Proc, proc[p].pc \in WithJob \cap Placed
    PROVE  /\ Call(proc[p]) /\ Opened(proc[p].t) /\ Cleared(proc[p].t)
           /\ proc[p].j \in JobId /\ proc[p].j[1] = proc[p].t /\ proc[p].t \in Task
           /\ proc[p].place.worker \in Fits[proc[p].t]
           /\ \A x \in proc[p].left : Opened(x)
<1>1. Call(proc[p])
  BY DEF IInv, Calls
<1> QED BY <1>1, LedgerAssumption DEF Call, Started

LEMMA SubmitFailsKeeps ==
    ASSUME IInv, NEW p \in Proc, SubmitFails(p)
    PROVE  IInv'
<1> USE DEF IInv
<1> DEFINE t == proc[p].t
           next == NextTry(proc[p].row.attempts + 1, proc[p].row.max)
<1>1. /\ Rows' /\ Jobs' /\ Placements' /\ Executions'
      /\ Grows /\ Undisturbed(p)
  BY ReadOnlyKeeps DEF SubmitFails
<1>2. \A x \in proc[p].left : Opened(x)
  BY SubmittingCall DEF SubmitFails, At, WithJob, Placed
<1>3. next \notin {"DONE", "AWAITING_MANUAL"}
  BY DEF NextTry
<1>4. Decide(p, "dispatch", <<SetJob(proc[p].j, "FAILED")>> \o Release(t, "RETRYABLE") \o
                            <<[SetError(t, next) EXCEPT !.job = NoJob]>>)
  BY DEF SubmitFails
<1> HIDE DEF next
<1>5. Owed(<<SetJob(proc[p].j, "FAILED")>> \o Release(t, "RETRYABLE") \o
           <<[SetError(t, next) EXCEPT !.job = NoJob]>>)
  BY <1>3, OwedJob, OwedLeases, OwedState, OwedBoth
<1> QED BY <1>1, <1>2, <1>4, <1>5, DecideKeeps

\* The tables that the way through the adapter leaves alone.
LEMMA AdapterTables ==
    ASSUME IInv, Grows, UNCHANGED <<task, job, reserved>>
    PROVE  Rows' /\ Jobs' /\ Placements'
BY TablesKeep DEF IInv

\* The one call that has created the directory of a job will spawn its runner.
LEMMA MakeJobDirectoryKeeps ==
    ASSUME IInv, NEW p \in Proc, MakeJobDirectory(p)
    PROVE  IInv'
<1> USE DEF IInv
<1>1. PICK j : j = proc[p].j
  OBVIOUS
<1>2. proc[p].pc \in WithJob \cap Placed
  BY DEF MakeJobDirectory, SubmitTo, At, WithJob, Placed
<1>3. /\ Call(proc[p]) /\ j \in JobId /\ Cleared(j[1]) /\ j[1] = proc[p].t
  BY <1>1, <1>2, SubmittingCall
<1>4. Create(j, FALSE, FALSE, "NONE") /\ UNCHANGED <<task, job, reserved>>
  BY <1>1 DEF MakeJobDirectory
<1>5. Executions' /\ Grows /\ Dormant
  BY <1>3, <1>4, CreateKeeps DEF Result
<1>6. j \notin DOMAIN ext /\ Barren(j)'
  BY <1>4 DEF Create, Barren, Exists
<1>7. Rows' /\ Jobs' /\ Placements'
  BY <1>4, <1>5, AdapterTables
<1>8. PICK q : q = After(p, "spawn", [t |-> proc[p].t])
  OBVIOUS
<1>9. proc' = [proc EXCEPT ![p] = q]
  BY <1>8, GotoAfter DEF MakeJobDirectory
<1>10. q.pc = "spawn" /\ q.j = j
  BY <1>1, <1>8 DEF After, Field
<1>11. Call(q)'
  <2>1. /\ DOMAIN q = Fields /\ Owed(q.todo) /\ q.j \in JobId /\ q.j[1] = q.t
        /\ Opened(q.t) /\ Cleared(q.t) /\ q.place.worker \in Fits[q.t]
        /\ \A x \in q.left : Opened(x)
    BY <1>2, <1>3, <1>8, SubmittingCall DEF After, Field, Fields, Call
  <2>2. /\ Owed(q.todo)' /\ Opened(q.t)' /\ Cleared(q.t)'
        /\ \A x \in q.left : Opened(x)'
    BY <1>5, <2>1, GrowthKeeps
  <2> QED BY <1>6, <1>10, <2>1, <2>2 DEF Call, Barren, Exists, Started
<1>12. \A r \in Proc \ {p} : proc'[r] = proc[r]
  BY <1>9 DEF Calls
<1>13. DOMAIN proc' = Proc /\ proc'[p] = q
  BY <1>9 DEF Calls
<1>14. ASSUME NEW r \in Proc \ {p} PROVE Call(proc[r])' /\ ~(proc[r].pc = "spawn" /\ proc[r].j = j)
  <2>1. PICK s : s = proc[r] /\ s = proc'[r]
    BY <1>12
  <2>2. Call(s)
    BY <2>1 DEF Calls
  <2>3. ~(s.pc = "spawn" /\ s.j = j)
    BY <1>6, <2>2 DEF Call, Exists
  <2>4. s.pc = "spawn" => Barren(s.j)'
    BY <1>5, <2>2 DEF Call, Dormant, Barren, Exists
  <2>5. Call(s)'
    BY <1>5, <2>2, <2>4, CallGrows
  <2> QED BY <2>1, <2>3, <2>5
<1>15. Calls'
  <2> SUFFICES ASSUME NEW r \in Proc PROVE Call(proc[r])'
    BY <1>13 DEF Calls, Proc
  <2>1. CASE r = p
    BY <1>11, <1>13, <2>1
  <2>2. CASE r # p
    BY <1>14, <2>2
  <2> QED BY <2>1, <2>2
<1>16. OneSpawner'
  BY <1>10, <1>12, <1>13, <1>14 DEF OneSpawner, Proc
<1> QED BY <1>5, <1>7, <1>15, <1>16

LEMMA SpawnRunnerKeeps ==
    ASSUME IInv, NEW p \in Proc, SpawnRunner(p)
    PROVE  IInv'
<1> USE DEF IInv
<1>1. PICK j : j = proc[p].j
  OBVIOUS
<1>2. proc[p].pc \in WithJob \cap Placed /\ proc[p].pc = "spawn"
  BY DEF SpawnRunner, At, WithJob, Placed
<1>3. Call(proc[p]) /\ j \in JobId
  BY <1>1, <1>2, SubmittingCall
<1>4. j \in DOMAIN ext /\ ext[j].result # "SUCCEEDED"
  BY <1>1, <1>2, <1>3 DEF Call, Exists
<1>5. ext' = [ext EXCEPT ![j].alive = TRUE] /\ UNCHANGED <<task, job, reserved>>
  BY <1>1 DEF SpawnRunner, Spawn
<1>6. Executions' /\ Grows
  <2> DEFINE x == [ext[j] EXCEPT !.alive = TRUE]
  <2>1. ext[j] \in Execution
    BY <1>4, ExecutionTypes
  <2>2. x \in Execution /\ x.result = ext[j].result
    BY <2>1 DEF Execution
  <2>3. ext' = [ext EXCEPT ![j] = x]
    BY <1>5
  <2> HIDE DEF x
  <2>4. /\ DOMAIN ext' = DOMAIN ext /\ ext'[j] = x
        /\ \A k \in DOMAIN ext : k # j => ext'[k] = ext[k]
    BY <1>4, <2>3
  <2>5. Grows
    BY <2>2, <2>4 DEF Grows
  <2>6. ExtTypeOK'
    BY <2>2, <2>3 DEF Executions, ExtTypeOK
  <2>7. \A k \in DOMAIN ext' :
           /\ ext'[k].result = "SUCCEEDED" => ~ext'[k].alive
           /\ Cleared(k[1])
    BY <1>4, <2>2, <2>4 DEF Executions
  <2> QED BY <2>5, <2>6, <2>7, GrowthKeeps DEF Executions
<1>7. Undisturbed(p)
  <2> SUFFICES ASSUME NEW q \in Proc \ {p}, NEW k \in JobId,
                      proc[q].pc = "spawn" /\ proc[q].j = k
               PROVE  Barren(k)'
    BY DEF Undisturbed
  <2>1. k # j
    BY <1>1, <1>2 DEF OneSpawner
  <2>2. k \in DOMAIN ext /\ Barren(k)
    BY DEF Calls, Call, Barren, Exists
  <2> QED BY <1>5, <2>1, <2>2 DEF Barren, Exists
<1>8. Call(After(p, "register", [t |-> proc[p].t]))
  BY <1>2, <1>3, SubmittingCall DEF Call, After, Field, Fields, WithJob, Placed, Started
<1>9. Calls' /\ OneSpawner'
  BY <1>6, <1>7, <1>8, GotoKeeps DEF SpawnRunner
<1> QED BY <1>5, <1>6, <1>9, AdapterTables

\* What the adapter returns.
LEMMA AdapterKeeps ==
    ASSUME IInv, NEW p \in Proc,
           RegisterRunner(p) \/ SubmitManual(p) \/ SubmitRemote(p) \/ RemoteAnswers(p)
    PROVE  IInv'
<1> USE DEF IInv
<1> DEFINE t == proc[p].t
           j == proc[p].j
           w == proc[p].place.worker
<1>1. proc[p].pc \in WithJob \cap Placed
  BY DEF RegisterRunner, SubmitManual, SubmitRemote, RemoteAnswers, SubmitTo, At, WithJob,
         Placed
<1>2. /\ Call(proc[p]) /\ Opened(t) /\ Cleared(t)
      /\ j \in JobId /\ j[1] = t /\ w \in Fits[t]
      /\ \A x \in proc[p].left : Opened(x)
  BY <1>1, SubmittingCall
<1>3. UNCHANGED <<task, job, reserved>>
  BY DEF RegisterRunner, SubmitManual, SubmitRemote, RemoteAnswers, ReadOnly
<1>4. Executions' /\ Grows /\ Undisturbed(p)
  <2>1. CASE UNCHANGED ext
    BY <2>1, StillKeeps
  <2>2. CASE Register(j)
    BY <1>2, <2>2, OutcomeKeeps, DormantUndisturbed
  <2>3. ASSUME NEW alive \in BOOLEAN, NEW r \in {"NONE", "SUCCEEDED", "FAILED"},
               r # "NONE" => ~alive, Create(j, alive, TRUE, r)
        PROVE  Executions' /\ Grows /\ Undisturbed(p)
    BY <1>2, <2>3, CreateKeeps, DormantUndisturbed DEF Result
  <2> QED BY <2>1, <2>2, <2>3
          DEF RegisterRunner, SubmitManual, SubmitRemote, RemoteAnswers, ReadOnly
<1>5. Rows' /\ Jobs' /\ Placements'
  BY <1>3, <1>4, AdapterTables
<1>6. ASSUME NEW status, Returned(p, status),
             status = "SUCCEEDED" => Succeeded(t),
             status = "AWAITING_MANUAL" => Kind[w] # "local"
      PROVE  IInv'
  <2>1. Owed(<<SetSent(j, status)>>)
    BY OwedJob
  <2>2. Goto(p, "settle", [answer |-> status, todo |-> <<SetSent(j, status)>>])
    BY <1>6 DEF Returned
  <2>3. Call(After(p, "settle", [answer |-> status, todo |-> <<SetSent(j, status)>>]))
    BY <1>2, <1>6, <2>1 DEF Call, After, Field, Fields, WithJob, Placed, Started
  <2> QED BY <1>4, <1>5, <2>2, <2>3, GotoKeeps
<1>7. CASE RegisterRunner(p)
  BY <1>6, <1>7 DEF RegisterRunner
<1>8. CASE SubmitManual(p)
  BY <1>6, <1>8 DEF SubmitManual, SubmitTo
<1>9. CASE SubmitRemote(p)
  <2>1. Goto(p, "answer", [t |-> t]) /\ Kind[w] # "local"
    BY <1>9 DEF SubmitRemote, SubmitTo
  <2>2. Call(After(p, "answer", [t |-> t]))
    BY <1>2, <2>1 DEF Call, After, Field, Fields, WithJob, Placed, Started
  <2> QED BY <1>4, <1>5, <2>1, <2>2, GotoKeeps
<1>10. CASE RemoteAnswers(p)
  <2>1. Kind[w] # "local"
    BY <1>2, <1>10 DEF Call, RemoteAnswers, At
  <2>2. CASE Returned(p, "AWAITING_MANUAL")
    BY <1>6, <2>1, <2>2
  <2>3. CASE Exists(j) /\ Returned(p, IF ext[j].result = "NONE" THEN "RUNNING"
                                     ELSE ext[j].result)
    <3>1. PICK status : status = IF ext[j].result = "NONE" THEN "RUNNING"
                                 ELSE ext[j].result
      OBVIOUS
    <3>2. status = "SUCCEEDED" => Succeeded(t)
      BY <1>2, <2>3, <3>1 DEF Succeeded
    <3>3. Returned(p, status)
      BY <2>3, <3>1
    <3> QED BY <1>6, <2>1, <3>2, <3>3
  <2> QED BY <1>10, <2>2, <2>3 DEF RemoteAnswers
<1> QED BY <1>7, <1>8, <1>9, <1>10

LEMMA SettleKeeps ==
    ASSUME IInv, NEW p \in Proc, SettleAnswer(p)
    PROVE  IInv'
<1> USE DEF IInv
<1> DEFINE t == proc[p].t
           j == proc[p].j
           w == proc[p].place.worker
<1>1. /\ Rows' /\ Jobs' /\ Placements' /\ Executions'
      /\ Grows /\ Undisturbed(p)
  BY ReadOnlyKeeps DEF SettleAnswer
<1>2. proc[p].pc \in WithJob \cap Placed /\ proc[p].pc = "settle"
  BY DEF SettleAnswer, At, WithJob, Placed
<1>3. /\ Call(proc[p]) /\ Opened(t) /\ t \in Task /\ w \in Fits[t]
      /\ \A x \in proc[p].left : Opened(x)
  BY <1>2, SubmittingCall
<1>4. /\ proc[p].answer = "SUCCEEDED" => Succeeded(t)
      /\ proc[p].answer = "AWAITING_MANUAL" => Kind[w] # "local"
  BY <1>2, <1>3 DEF Call
<1>5. ASSUME NEW steps, Owed(steps), Decide(p, "dispatch", steps) PROVE IInv'
  BY <1>1, <1>3, <1>5, DecideKeeps
<1>6. CASE /\ proc[p].answer = "AWAITING_MANUAL"
           /\ Decide(p, "dispatch", Release(t, "RETRYABLE") \o <<Set(t, "AWAITING_MANUAL")>>)
  <2>1. ByHand(t, "AWAITING_MANUAL")
    BY <1>3, <1>4, <1>6, ByHandPlaced
  <2>2. Good(Set(t, "AWAITING_MANUAL"))
    BY <2>1 DEF Good, Set, ByHand
  <2>3. Owed(Release(t, "RETRYABLE") \o <<Set(t, "AWAITING_MANUAL")>>)
    BY <2>2, OwedOne, OwedLeases, OwedBoth
  <2> QED BY <1>5, <1>6, <2>3
<1>7. CASE Decide(p, "dispatch", <<Set(t, "RUNNING")>>)
  BY <1>5, <1>7, OwedState
<1>8. CASE proc[p].answer = "SUCCEEDED" /\ Decide(p, "dispatch", Success(t, j))
  BY <1>3, <1>4, <1>5, <1>8, OwedSuccess
<1>9. CASE Decide(p, "dispatch", <<SetJob(j, "RUNNING")>> \o Renew(t) \o
                                 <<SetError(t, "RUNNING")>>)
  <2>1. Owed(<<SetJob(j, "RUNNING")>> \o Renew(t) \o <<SetError(t, "RUNNING")>>)
    BY OwedJob, OwedLeases, OwedState, OwedBoth
  <2> QED BY <1>5, <1>9, <2>1
<1>10. CASE Decide(p, "dispatch", Failure(t, task[t], j, proc[p].answer))
  BY <1>5, <1>10, OwedFailure
<1> QED BY <1>6, <1>7, <1>8, <1>9, <1>10 DEF SettleAnswer

LEMMA RunKeeps ==
    ASSUME IInv, NEW p \in Proc, Run(p)
    PROVE  IInv'
<1>1. CASE Perform(p)
  BY <1>1, PerformKeeps
<1>2. CASE ReconcileStep(p)
  BY <1>2, RecoverKeeps, ListingKeeps, PollJobKeeps, PollKeeps DEF ReconcileStep
<1>3. CASE DispatchStep(p)
  BY <1>3, ListingKeeps, CandidateKeeps, AcquireKeeps, RouteKeeps, ClaimKeeps,
     InsertKeeps, SubmitFailsKeeps, MakeJobDirectoryKeeps, SpawnRunnerKeeps, AdapterKeeps,
     SettleKeeps DEF DispatchStep
<1> QED BY <1>1, <1>2, <1>3 DEF Run

-----------------------------------------------------------------------------
(* Commands                                                                  *)

LEMMA ReopenCommandKeeps ==
    ASSUME IInv, NEW p \in Proc, NEW t \in Task,
           Retry(p, t) \/ BeginResolve(p, t) \/ BeginCancel(p, t)
    PROVE  IInv'
<1> USE DEF IInv
<1>1. /\ Rows' /\ Jobs' /\ Placements' /\ Executions'
      /\ Grows /\ Undisturbed(p)
  BY ReadOnlyKeeps DEF Retry, BeginResolve, BeginCancel
<1>2. Call(proc[p])
  BY DEF Calls
<1>3. ASSUME NEW pc \in {"idle", "resolve", "cancel"}, NEW r, Goto(p, pc, r),
             "todo" \in DOMAIN r => Owed(r.todo)
      PROVE  IInv'
  <2>1. Call(After(p, pc, r))
    BY <1>2, <1>3 DEF Call, After, Field, Fields, WithJob, Placed, Started
  <2> QED BY <1>1, <1>3, <2>1, GotoKeeps
<1>4. CASE Retry(p, t)
  <2>1. Mild([op |-> "reopen", id |-> t])
    BY DEF Mild
  <2>2. Owed(<<[op |-> "reopen", id |-> t]>>)
    BY <2>1, OwedMild
  <2> QED BY <1>3, <1>4, <2>2 DEF Retry
<1>5. CASE BeginResolve(p, t)
  BY <1>3, <1>5 DEF BeginResolve
<1>6. CASE BeginCancel(p, t)
  BY <1>3, <1>6 DEF BeginCancel
<1> QED BY <1>4, <1>5, <1>6

\* A person completes what has not run, which is no verification.
LEMMA CompleteManualKeeps ==
    ASSUME NoManualCompletion \/ LocalVerifications,
           IInv, NEW p \in Proc, NEW t \in Task, CompleteManual(p, t)
    PROVE  IInv'
<1> USE DEF IInv
<1>1. /\ Rows' /\ Jobs' /\ Placements' /\ Executions'
      /\ Grows /\ Undisturbed(p)
  BY ReadOnlyKeeps DEF CompleteManual
<1>2. ~NoManualCompletion /\ ~IsVerification(t)
  BY DEF CompleteManual, Command, Known, Rows, ByHand, NoManualCompletion
<1>3. Owed(Success(t, task[t].job)) /\ Owed(Failure(t, task[t], task[t].job, "FAILED"))
  BY <1>2, OwedSuccess, OwedFailure
<1>4. PICK steps : /\ steps \in {Success(t, task[t].job),
                                 Failure(t, task[t], task[t].job, "FAILED")}
                   /\ Goto(p, "idle", [t |-> t, todo |-> steps])
  BY DEF CompleteManual
<1>5. Owed(steps)
  BY <1>3, <1>4
<1>6. Call(proc[p])
  BY DEF Calls
<1>7. Call(After(p, "idle", [t |-> t, todo |-> steps]))
  BY <1>5, <1>6 DEF Call, After, Field, Fields, WithJob, Placed, Started
<1> QED BY <1>1, <1>4, <1>7, GotoKeeps

LEMMA ResolveKeeps ==
    ASSUME IInv, NEW p \in Proc, ResolveDispatch(p)
    PROVE  IInv'
<1> USE DEF IInv
<1> DEFINE t == proc[p].t
<1>1. UNCHANGED ext /\ UNCHANGED <<task, job>>
  BY DEF ResolveDispatch
<1>2. Executions' /\ Grows /\ Undisturbed(p)
  BY <1>1, StillKeeps
<1>3. Rows' /\ Jobs'
  BY <1>1, <1>2, GrowthKeeps DEF Jobs, Rows, ByHand, LocalVerifications, IsVerification
<1>4. Placements'
  BY DEF ResolveDispatch, Placements
<1>5. ASSUME NEW steps, Owed(steps), Decide(p, "idle", steps)
      PROVE  Calls' /\ OneSpawner'
  BY <1>2, <1>5, DecideKeeps
<1>6. CASE Exit(p)
  BY <1>2, <1>3, <1>4, <1>6, ExitKeeps
<1>7. ASSUME NEW j,
             Decide(p, "idle", <<SetJob(j, "FAILED")>> \o Release(t, "RETRYABLE") \o
                               <<[SetError(t, "RETRYABLE") EXCEPT !.job = NoJob]>>)
      PROVE  Calls' /\ OneSpawner'
  <2>1. Owed(<<SetJob(j, "FAILED")>> \o Release(t, "RETRYABLE") \o
             <<[SetError(t, "RETRYABLE") EXCEPT !.job = NoJob]>>)
    BY OwedJob, OwedLeases, OwedState, OwedBoth
  <2> QED BY <1>5, <1>7, <2>1
<1>8. ASSUME NEW j,
             Decide(p, "idle", <<Hold(t), SetSent(j, "SUBMITTED"), SetError(t, "RUNNING")>>)
      PROVE  Calls' /\ OneSpawner'
  <2>1. Good(Hold(t)) /\ Good(SetSent(j, "SUBMITTED")) /\ Good(SetError(t, "RUNNING"))
    BY DEF Good, ByHand, Hold, SetSent, SetJob, SetError, Set
  <2> QED BY <1>5, <1>8, <2>1, OwedThree
<1> QED BY <1>2, <1>3, <1>4, <1>6, <1>7, <1>8 DEF ResolveDispatch

LEMMA CancelTaskKeeps ==
    ASSUME IInv, NEW p \in Proc, CancelTask(p)
    PROVE  IInv'
<1> USE DEF IInv
<1> DEFINE t == proc[p].t
           j == proc[p].row.job
           active == j \in ActiveJobs(t)
           steps == Release(t, "FAILED") \o <<SetDropJob(t, "CANCELLED")>>
<1>1. UNCHANGED <<task, job, reserved>>
  BY DEF CancelTask
<1>2. Executions' /\ Grows /\ Undisturbed(p)
  <2>1. CASE UNCHANGED ext
    BY <2>1, StillKeeps
  <2>2. CASE active /\ Cancel(j)
    <3>1. j \in JobId
      BY <2>2 DEF ActiveJobs, JobsOf, Jobs
    <3> QED BY <2>2, <3>1, OutcomeKeeps, DormantUndisturbed
  <2> QED BY <2>1, <2>2 DEF CancelTask
<1>3. Rows' /\ Jobs' /\ Placements'
  BY <1>1, <1>2, TablesKeep
<1>4. Owed(steps) /\ Owed(<<SetJob(j, "CANCELLED")>> \o steps)
  BY OwedJob, OwedLeases, OwedState, OwedBoth
<1>5. PICK due : Owed(due) /\ Decide(p, "idle", due)
  BY <1>4 DEF CancelTask
<1> QED BY <1>2, <1>3, <1>5, DecideKeeps

LEMMA CommandKeeps ==
    ASSUME NoManualCompletion \/ LocalVerifications,
           IInv, NEW p \in Proc, CommandStep(p)
    PROVE  IInv'
BY ReopenCommandKeeps, CompleteManualKeeps, ResolveKeeps, CancelTaskKeeps DEF CommandStep

-----------------------------------------------------------------------------
(* The surroundings                                                          *)

\* No call makes a step.
LEMMA CallsKeep ==
    ASSUME Calls, OneSpawner, Grows, Dormant, UNCHANGED proc
    PROVE  Calls' /\ OneSpawner'
<1>1. ASSUME NEW q \in Proc PROVE Call(proc[q])'
  <2>1. PICK s : s = proc[q] /\ s = proc'[q]
    OBVIOUS
  <2>2. Call(s)
    BY <2>1 DEF Calls
  <2>3. s.pc = "spawn" => Barren(s.j)'
    BY <2>2 DEF Call, Dormant, Barren, Exists
  <2>4. Call(s)'
    BY <2>2, <2>3, CallGrows
  <2> QED BY <2>1, <2>4
<1> QED BY <1>1 DEF Calls, OneSpawner, Proc

LEMMA SubmitTaskKeeps ==
    ASSUME IInv, NEW t \in Task, SubmitTask(t)
    PROVE  IInv'
<1> USE DEF IInv
<1>1. UNCHANGED ext /\ UNCHANGED proc /\ UNCHANGED <<job, reserved>>
  BY DEF SubmitTask
<1>2. Executions' /\ Grows /\ Dormant
  BY <1>1, SameExecutions
<1>3. Calls' /\ OneSpawner'
  BY <1>1, <1>2, CallsKeep
<1>4. Jobs' /\ Placements'
  BY <1>1, <1>2, GrowthKeeps DEF Jobs, Placements
<1>5. Opened(t)
  BY DEF SubmitTask, IsVerification, Opened
<1>6. /\ DOMAIN task' = DOMAIN task \cup {t}
      /\ task'[t] = NewTask(NoJob)
      /\ \A u \in DOMAIN task : u # t => task'[u] = task[u]
  BY DEF SubmitTask, With
<1>7. NewTask(NoJob).state = "QUEUED" /\ DOMAIN NewTask(NoJob) = Columns
  BY DEF NewTask, Columns
<1>8. Rows'
  BY <1>2, <1>5, <1>6, <1>7, GrowthKeeps
     DEF Rows, ByHand, LocalVerifications, IsVerification
<1> QED BY <1>2, <1>3, <1>4, <1>8

LEMMA ExecutionStepKeeps ==
    ASSUME IInv, NEW j \in JobId,
           ExecutionEnds(j) \/ ExecutionVanishes(j) \/ ExecutionForgotten(j)
    PROVE  IInv'
<1> USE DEF IInv
<1>1. UNCHANGED proc /\ UNCHANGED <<task, job, reserved>>
  BY DEF ExecutionEnds, ExecutionVanishes, ExecutionForgotten
<1>2. Executions' /\ Grows /\ Dormant
  BY OutcomeKeeps DEF ExecutionEnds, ExecutionVanishes, ExecutionForgotten
<1>3. Calls' /\ OneSpawner'
  BY <1>1, <1>2, CallsKeep
<1> QED BY <1>1, <1>2, <1>3, TablesKeep

LEMMA TimeKeeps ==
    ASSUME IInv, TwoMinutes \/ Outage
    PROVE  IInv'
<1> USE DEF IInv
<1>1. UNCHANGED ext /\ UNCHANGED proc
  BY DEF TwoMinutes, Outage
<1>2. Executions' /\ Grows /\ Dormant
  BY <1>1, SameExecutions
<1>3. Calls' /\ OneSpawner'
  BY <1>1, <1>2, CallsKeep
<1>4. CASE TwoMinutes
  <2>1. /\ DOMAIN task' = DOMAIN task /\ DOMAIN job' = DOMAIN job
        /\ UNCHANGED reserved
    BY <1>4 DEF TwoMinutes
  <2>2. ASSUME NEW t \in DOMAIN task
        PROVE  DOMAIN task'[t] = DOMAIN task[t] /\ task'[t].state = task[t].state
    <3>1. PICK old : task'[t] = [task[t] EXCEPT !.old = old]
      BY <1>4 DEF TwoMinutes
    <3>2. DOMAIN task[t] = Columns
      BY DEF Rows
    <3> QED BY <3>1, <3>2 DEF Columns
  <2>3. Rows'
    BY <1>2, <2>1, <2>2, GrowthKeeps
       DEF Rows, ByHand, LocalVerifications, IsVerification
  <2>4. Jobs' /\ Placements'
    BY <1>2, <2>1, GrowthKeeps DEF Jobs, Placements
  <2> QED BY <1>2, <1>3, <2>3, <2>4
<1>5. CASE Outage
  <2>1. UNCHANGED <<task, job>>
    BY <1>5 DEF Outage
  <2>2. Rows' /\ Jobs'
    BY <1>2, <2>1, GrowthKeeps DEF Jobs, Rows, ByHand, LocalVerifications, IsVerification
  <2>3. Placements'
    BY <1>5 DEF Outage, Placements
  <2> QED BY <1>2, <1>3, <2>2, <2>3
<1> QED BY <1>4, <1>5

LEMMA CrashKeeps ==
    ASSUME IInv, NEW p \in Proc, Crash(p)
    PROVE  IInv'
<1> USE DEF IInv
<1>1. UNCHANGED ext /\ UNCHANGED <<task, job, reserved>> /\ Exit(p)
  BY DEF Crash
<1>2. Executions' /\ Grows /\ Undisturbed(p)
  BY <1>1, StillKeeps
<1> QED BY <1>1, <1>2, ExitKeeps, TablesKeep

-----------------------------------------------------------------------------
(* The theorems                                                              *)

LEMMA InitHolds == Init => IInv
<1> SUFFICES ASSUME Init PROVE IInv
  OBVIOUS
<1>1. Rows /\ Jobs /\ Placements /\ Executions
  BY DEF Init, Rows, Jobs, Placements, Executions, ExtTypeOK
<1>2. \A p \in Proc : proc[p] = Idle
  BY DEF Init
<1>3. Calls
  BY <1>2, IdleCall DEF Init, Calls
<1>4. OneSpawner
  BY <1>2 DEF OneSpawner, Idle
<1> QED BY <1>1, <1>3, <1>4 DEF IInv

LEMMA NextKeeps ==
    ASSUME NoManualCompletion \/ LocalVerifications, IInv, [Next]_vars
    PROVE  IInv'
<1>1. ASSUME NEW p \in Proc, Run(p) \/ CommandStep(p) \/ Crash(p) PROVE IInv'
  BY <1>1, RunKeeps, CommandKeeps, CrashKeeps
<1>2. CASE Environment
  BY <1>2, SubmitTaskKeeps, ExecutionStepKeeps, TimeKeeps DEF Environment
<1>3. CASE UNCHANGED vars
  <2>1. UNCHANGED ext /\ UNCHANGED proc /\ UNCHANGED <<task, job, reserved>>
    BY <1>3 DEF vars
  <2>2. Executions' /\ Grows /\ Dormant
    BY <2>1, SameExecutions DEF IInv
  <2> QED BY <2>1, <2>2, CallsKeep, TablesKeep DEF IInv
<1> QED BY <1>1, <1>2, <1>3 DEF Next

\* "Only when the local verification passes is the parent task DONE": whatever
\* ticks, commands, crashes, retries and late polls there are.  If people may
\* complete tasks by hand, verifications must be local, as submit_task makes
\* them.
THEOREM VerificationFirst ==
    ASSUME NoManualCompletion \/ LocalVerifications
    PROVE  Spec => []VerifiedBeforeDone
<1>1. Init => IInv
  BY InitHolds
<1>2. IInv /\ [Next]_vars => IInv'
  BY NextKeeps
<1>3. IInv => VerifiedBeforeDone
  BY DEF IInv, Rows, Earned, VerifiedBeforeDone
<1> QED BY <1>1, <1>2, <1>3, PTL DEF Spec

\* A task is started only after everything that it depends on has succeeded and
\* has been verified, unless people complete by hand what did not run.
THEOREM DependenciesFirst ==
    ASSUME NoManualCompletion
    PROVE  Spec => []DependenciesRanFirst
<1>1. Init => IInv
  BY InitHolds
<1>2. IInv /\ [Next]_vars => IInv'
  BY NextKeeps
<1>3. IInv => DependenciesRanFirst
  BY DEF IInv, Executions, Cleared, Earned, Exists, DependenciesRanFirst
<1> QED BY <1>1, <1>2, <1>3, PTL DEF Spec
=============================================================================
