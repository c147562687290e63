------------------------------ MODULE SessionsProofs ------------------------------
(* Theorems about Sessions, for any sessions, agents, ticks, tasks and faults. *)
EXTENDS Sessions, TLAPS, FiniteSetTheorems, Functions

-----------------------------------------------------------------------------
(* The inductive invariant                                                   *)

\* What a call may write to a task, and how it may let go of a task's claim.
Result == SCHEDULABLE \cup TERMINAL
Outcome == {"DONE", "FAILED", "RETRYABLE", "BLOCKED"}

Write ==
    [op : {"task"}, id : Task, to : Result]
    \cup [op : {"unclaim"}, id : Task, to : Outcome]
    \cup [op : {"unreserve", "renew", "hold"}, id : Task, to : {""}]

\* Places of a call that has one task in its hands.
Pulling == {"depend", "acquire", "route", "claim", "assign"}

Rows ==
    /\ DOMAIN task \subseteq Task
    /\ \A t \in DOMAIN task :
          DOMAIN task[t] = {"state", "attempts", "session", "old"}

\* No call has an assignment among the writes it still owes.
Owing(r) ==
    /\ DOMAIN r = {"pc", "t", "to", "left", "todo"}
    /\ r.todo \in Seq(Write)
    /\ r.pc \in Pulling \cup {"complete"} => r.t \in Task
    /\ r.pc = "complete" => r.to \in Outcome
    /\ r.pc \in Pulling \cup {"pull", "recover"} => r.left \subseteq Task
    /\ r.pc = "each" => r.left \subseteq Seq(Write) \ {<<>>}
    /\ r.pc = "expire" => \A x \in r.left : x.t \in Task /\ x.to \in Outcome

Calls ==
    /\ DOMAIN proc = Proc
    /\ \A p \in Proc : Owing(proc[p])

Bounded ==
    \A s \in Session : /\ IsFiniteSet(AssignedTo(s))
                       /\ Cardinality(AssignedTo(s)) <= MaxInflight[s]

IInv == Rows /\ Calls /\ Bounded

-----------------------------------------------------------------------------
(* Steps that assign nothing                                                 *)

\* Whatever is assigned after the step was assigned to the same session before.
Unassigning ==
    \A t \in DOMAIN task' :
        task'[t].state = "ASSIGNED" =>
            /\ t \in DOMAIN task
            /\ task[t].state = "ASSIGNED" /\ task[t].session = task'[t].session

\* Such a step gives no session a task more.
LEMMA UnassigningKeepsBound ==
    ASSUME Bounded, Unassigning
    PROVE  Bounded'
<1> SUFFICES ASSUME NEW s \in Session
             PROVE  /\ IsFiniteSet(AssignedTo(s)')
                    /\ Cardinality(AssignedTo(s)') <= MaxInflight[s]
  BY DEF Bounded
<1>1. AssignedTo(s)' \subseteq AssignedTo(s)
  BY DEF AssignedTo, Unassigning
<1>2. IsFiniteSet(AssignedTo(s)) /\ Cardinality(AssignedTo(s)) <= MaxInflight[s]
  BY DEF Bounded
<1>3. /\ IsFiniteSet(AssignedTo(s)')
      /\ Cardinality(AssignedTo(s)') <= Cardinality(AssignedTo(s))
  BY <1>1, <1>2, FS_Subset
<1>4. /\ Cardinality(AssignedTo(s)') \in Nat /\ Cardinality(AssignedTo(s)) \in Nat
      /\ MaxInflight[s] \in Nat
  BY <1>2, <1>3, FS_CardinalityType, SessionsAssumption
<1> QED BY <1>2, <1>3, <1>4

\* The writes a call may owe.
LEMMA WriteTypes ==
    ASSUME NEW t \in Task
    PROVE  /\ \A r \in Result : Set(t, r) \in Write
           /\ \A r \in Outcome : /\ Unclaim(t, r) \in Write
                                 /\ Release(t, r) \in Seq(Write) \ {<<>>}
           /\ Unreserve(t) \in Write
           /\ <<Renew(t), Hold(t)>> \in Seq(Write) \ {<<>>}
<1>1. /\ \A r \in Result : Set(t, r) \in Write
      /\ \A r \in Outcome : Unclaim(t, r) \in Write
      /\ Unreserve(t) \in Write /\ Renew(t) \in Write /\ Hold(t) \in Write
  BY DEF Write, Set, Unreserve, Unclaim, Renew, Hold
<1> QED BY <1>1 DEF Release

\* One call goes on, the others stay where they are.
LEMMA OneCall ==
    ASSUME Calls, NEW p \in Proc, NEW r, Owing(r), proc' = [proc EXCEPT ![p] = r]
    PROVE  Calls'
BY DEF Calls

\* The call after Goto(p, pc, r), field by field.
Field(p, r, f) == IF f \in DOMAIN r THEN r[f] ELSE proc[p][f]

After(p, pc, r) ==
    [pc |-> pc, t |-> Field(p, r, "t"), to |-> Field(p, r, "to"),
     left |-> Field(p, r, "left"), todo |-> Field(p, r, "todo")]

LEMMA GotoKeeps ==
    ASSUME Calls, NEW p \in Proc, NEW pc, NEW r, Goto(p, pc, r), Owing(After(p, pc, r))
    PROVE  Calls'
<1> DEFINE q == [f \in DOMAIN Idle |->
                    IF f = "pc" THEN pc
                    ELSE IF f \in DOMAIN r THEN r[f] ELSE proc[p][f]]
<1>1. q = After(p, pc, r)
  BY DEF Idle, After, Field
<1>2. proc' = [proc EXCEPT ![p] = q]
  BY DEF Goto, Calls
<1> QED BY <1>1, <1>2, OneCall

\* A decided task leaves writes of the allowed kind.
LEMMA DecideKeeps ==
    ASSUME Calls, NEW p \in Proc, NEW pc \in {"idle", "pull"}, NEW steps \in Seq(Write),
           Decide(p, pc, steps), pc = "pull" => proc[p].left \subseteq Task
    PROVE  Calls'
<1> DEFINE q == [Idle EXCEPT
        !.pc = pc, !.left = IF pc = "idle" THEN {} ELSE proc[p].left, !.todo = steps,
        !.t = IF steps = <<>> THEN NoTask ELSE proc[p].t]
<1>1. proc' = [proc EXCEPT ![p] = q]
  BY DEF Decide
<1>2. /\ DOMAIN q = {"pc", "t", "to", "left", "todo"}
      /\ q.pc = pc /\ q.todo = steps
      /\ q.left = IF pc = "idle" THEN {} ELSE proc[p].left
  BY DEF Idle
<1> HIDE DEF q
<1>3. Owing(q)
  BY <1>2 DEF Owing, Pulling
<1> QED BY <1>1, <1>3, OneCall

\* An idle call owes nothing.
LEMMA IdleOwing == Owing(Idle)
<1>1. <<>> \in Seq(Write)
  OBVIOUS
<1> QED BY <1>1 DEF Owing, Idle, Pulling

LEMMA ExitKeeps ==
    ASSUME Calls, NEW p \in Proc, Exit(p)
    PROVE  Calls'
BY IdleOwing, OneCall DEF Exit

\* A step that leaves the tasks alone.
LEMMA SameTasks ==
    ASSUME Rows, UNCHANGED task
    PROVE  Rows' /\ Unassigning
BY DEF Rows, Unassigning

-----------------------------------------------------------------------------
(* The writes that are due                                                   *)

LEMMA PopKeeps ==
    ASSUME Calls, NEW p \in Proc, proc[p].todo # <<>>, Pop(p)
    PROVE  Calls'
<1> DEFINE rest == Tail(proc[p].todo)
           q == [proc[p] EXCEPT
                    !.todo = rest,
                    !.t = IF rest = <<>> /\ proc[p].pc \in Loops THEN NoTask ELSE proc[p].t]
<1>1. Owing(proc[p])
  BY DEF Calls
<1>2. rest \in Seq(Write)
  BY <1>1 DEF Owing
<1>3. /\ DOMAIN q = {"pc", "t", "to", "left", "todo"}
      /\ q.pc = proc[p].pc /\ q.to = proc[p].to /\ q.left = proc[p].left
      /\ q.todo = rest
      /\ proc[p].pc \notin Loops => q.t = proc[p].t
  BY <1>1 DEF Owing
<1>4. proc' = [proc EXCEPT ![p] = q]
  BY DEF Pop
<1> HIDE DEF q, rest
<1>5. Owing(q)
  BY <1>1, <1>2, <1>3 DEF Owing, Pulling, Loops
<1> QED BY <1>4, <1>5, OneCall

\* _set_task_state is never called with ASSIGNED.
LEMMA PerformKeeps ==
    ASSUME Rows, Calls, NEW p \in Proc, Perform(p)
    PROVE  Rows' /\ Calls' /\ Unassigning
<1>1. proc[p].todo # <<>> /\ Pop(p)
  BY DEF Perform, PerformTask, PerformUnreserve, PerformUnclaim, PerformRenew,
         PerformHold, Due
<1>2. Calls'
  BY <1>1, PopKeeps
<1>3. Step(p) \in Write
  BY <1>1 DEF Calls, Owing, Step
<1>4. CASE PerformTask(p)
  <2>1. Step(p).to # "ASSIGNED"
    BY <1>3 DEF Write, Result, Outcome, SCHEDULABLE, TERMINAL
  <2>2. task' = [task EXCEPT ![Step(p).id].state = Step(p).to, ![Step(p).id].old = FALSE]
    BY <1>4 DEF PerformTask
  <2> QED BY <1>2, <2>1, <2>2 DEF Rows, Unassigning
<1>5. CASE ~PerformTask(p)
  <2>1. UNCHANGED task
    BY <1>5 DEF Perform, PerformUnreserve, PerformUnclaim, PerformRenew, PerformHold
  <2> QED BY <1>2, <2>1, SameTasks
<1> QED BY <1>4, <1>5

-----------------------------------------------------------------------------
(* Loops and commands                                                        *)

LEMMA EmptyOwed == <<>> \in Seq(Write)
OBVIOUS

LEMMA LoopKeeps ==
    ASSUME Rows, Calls, NEW p \in Proc, Each(p) \/ EndEach(p)
    PROVE  Rows' /\ Calls' /\ Unassigning
<1>1. UNCHANGED task
  BY DEF Each, EndEach, ReadOnly, tables
<1>2. Rows' /\ Unassigning
  BY <1>1, SameTasks
<1>3. ASSUME Each(p) PROVE Calls'
  <2>1. PICK steps \in proc[p].left :
           Goto(p, "each", [t |-> steps[1].id, todo |-> steps,
                            left |-> proc[p].left \ {steps}])
    BY <1>3 DEF Each
  <2>2. Owing(proc[p]) /\ proc[p].pc = "each"
    BY <1>3 DEF Calls, Each, At
  <2>3. steps \in Seq(Write) /\ proc[p].left \subseteq Seq(Write) \ {<<>>}
    BY <2>2 DEF Owing
  <2>4. Owing(After(p, "each", [t |-> steps[1].id, todo |-> steps,
                                left |-> proc[p].left \ {steps}]))
    BY <2>3 DEF Owing, After, Field, Pulling
  <2> QED BY <2>1, <2>4, GotoKeeps
<1>4. ASSUME EndEach(p) PROVE Calls'
  BY <1>4, ExitKeeps DEF EndEach
<1> QED BY <1>2, <1>3, <1>4

LEMMA CommandKeeps ==
    ASSUME Rows, Calls, NEW p \in Agent,
           RegisterSession(p) \/ Pulse(p) \/ BeginPull(p)
    PROVE  Rows' /\ Calls' /\ Unassigning
<1>1. UNCHANGED task
  BY DEF RegisterSession, Pulse, BeginPull, ReadOnly, tables
<1>2. Rows' /\ Unassigning
  BY <1>1, SameTasks
<1>3. p \in Proc
  BY DEF Proc
<1>4. ASSUME RegisterSession(p) PROVE Calls'
  BY <1>4 DEF RegisterSession, Calls
<1>5. ASSUME NEW pc \in {"pulsed", "count", "list"}, Goto(p, pc, Idle) PROVE Calls'
  <2>1. Owing(After(p, pc, Idle))
    BY EmptyOwed DEF Owing, After, Field, Idle, Pulling
  <2> QED BY <1>3, <1>5, <2>1, GotoKeeps
<1>6. ASSUME Pulse(p) PROVE Calls'
  BY <1>5, <1>6 DEF Pulse
<1>7. ASSUME BeginPull(p) PROVE Calls'
  BY <1>5, <1>7 DEF BeginPull
<1> QED BY <1>2, <1>4, <1>6, <1>7

LEMMA ListRenewalsKeeps ==
    ASSUME Rows, Calls, NEW p \in Proc, ListRenewals(p)
    PROVE  Rows' /\ Calls' /\ Unassigning
<1> DEFINE owed == {<<Renew(t), Hold(t)>> : t \in AssignedTo(AgentOf[p])}
<1>1. Rows' /\ Unassigning
  BY SameTasks DEF ListRenewals, ReadOnly, tables
<1>2. owed \subseteq Seq(Write) \ {<<>>}
  <2> SUFFICES ASSUME NEW t \in AssignedTo(AgentOf[p])
               PROVE  <<Renew(t), Hold(t)>> \in Seq(Write) \ {<<>>}
    OBVIOUS
  <2>1. t \in Task
    BY DEF AssignedTo, Rows
  <2> QED BY <2>1, WriteTypes
<1>3. proc[p].todo = <<>> /\ Goto(p, "each", [left |-> owed])
  BY DEF ListRenewals, At
<1> HIDE DEF owed
<1>4. Owing(After(p, "each", [left |-> owed]))
  BY <1>2, <1>3, EmptyOwed DEF Owing, After, Field, Pulling
<1> QED BY <1>1, <1>3, <1>4, GotoKeeps

LEMMA CloseSessionKeeps ==
    ASSUME Rows, Calls, NEW p \in Agent, CloseSession(p)
    PROVE  Rows' /\ Calls' /\ Unassigning
<1> DEFINE mine == AssignedTo(AgentOf[p])
           owed == {Release(t, "RETRYABLE") : t \in mine}
<1>1. p \in Proc
  BY DEF Proc
<1>2. task' = [t \in DOMAIN task |->
              IF t \in mine
              THEN [task[t] EXCEPT !.state = "RETRYABLE", !.session = NoSession, !.old = FALSE]
              ELSE task[t]]
  BY DEF CloseSession
<1>3. Rows' /\ Unassigning
  <2> HIDE DEF mine
  <2> QED BY <1>2 DEF Rows, Unassigning
<1>4. owed \subseteq Seq(Write) \ {<<>>}
  <2> SUFFICES ASSUME NEW t \in mine
               PROVE  Release(t, "RETRYABLE") \in Seq(Write) \ {<<>>}
    OBVIOUS
  <2>1. t \in Task /\ "RETRYABLE" \in Outcome
    BY DEF AssignedTo, Rows, Outcome
  <2> QED BY <2>1, WriteTypes
<1>5. proc[p].todo = <<>> /\ Goto(p, "each", [left |-> owed])
  BY DEF CloseSession, Command, At
<1> HIDE DEF owed
<1>6. Owing(After(p, "each", [left |-> owed]))
  BY <1>4, <1>5, EmptyOwed DEF Owing, After, Field, Pulling
<1> QED BY <1>1, <1>3, <1>5, <1>6, GotoKeeps

LEMMA CompleteKeeps ==
    ASSUME Rows, Calls, NEW p \in Proc, BeginComplete(p) \/ RecordCompletion(p)
    PROVE  Rows' /\ Calls' /\ Unassigning
<1>1. ASSUME BeginComplete(p) PROVE Rows' /\ Calls' /\ Unassigning
  <2>1. PICK t \in AssignedTo(AgentOf[p]) : \E to \in {"DONE", NextTry(t)} :
           Goto(p, "complete", [t |-> t, to |-> to])
    BY <1>1 DEF BeginComplete
  <2>2. PICK to \in {"DONE", NextTry(t)} : Goto(p, "complete", [t |-> t, to |-> to])
    BY <2>1
  <2>3. t \in Task /\ to \in Outcome
    BY DEF AssignedTo, Rows, NextTry, Outcome
  <2>4. proc[p].todo = <<>>
    BY <1>1 DEF BeginComplete, Command, At
  <2>5. Owing(After(p, "complete", [t |-> t, to |-> to]))
    BY <2>3, <2>4, EmptyOwed DEF Owing, After, Field, Pulling
  <2>6. UNCHANGED task
    BY <1>1 DEF BeginComplete, ReadOnly, tables
  <2> QED BY <2>2, <2>5, <2>6, GotoKeeps, SameTasks
<1>2. ASSUME RecordCompletion(p) PROVE Rows' /\ Calls' /\ Unassigning
  <2> DEFINE t == proc[p].t
             to == proc[p].to
  <2>1. t \in Task /\ to \in Outcome
    BY <1>2 DEF Calls, Owing, RecordCompletion, At
  <2>2. CASE t \in AssignedTo(AgentOf[p])
    <3>1. /\ task' = [task EXCEPT ![t] = [@ EXCEPT
                 !.state = to, !.session = NoSession, !.old = FALSE]]
          /\ Decide(p, "idle", <<Unclaim(t, to), Unreserve(t)>>)
      BY <1>2, <2>2 DEF RecordCompletion
    <3>2. to # "ASSIGNED"
      BY <2>1 DEF Outcome
    <3>3. <<Unclaim(t, to), Unreserve(t)>> \in Seq(Write)
      BY <2>1, WriteTypes
    <3>4. Calls'
      BY <3>1, <3>3, DecideKeeps
    <3> HIDE DEF t, to
    <3> QED BY <3>1, <3>2, <3>4 DEF Rows, Unassigning
  <2>3. CASE t \notin AssignedTo(AgentOf[p])
    BY <1>2, <2>3, ExitKeeps, SameTasks DEF RecordCompletion
  <2> QED BY <2>2, <2>3
<1> QED BY <1>1, <1>2

-----------------------------------------------------------------------------
(* session_pull                                                              *)

\* A pull that goes on with the same task.
LEMMA PullGoesOn ==
    ASSUME Calls, NEW p \in Proc, proc[p].pc \in Pulling, NEW pc \in Pulling,
           Goto(p, pc, [t |-> proc[p].t]), proc[p].todo = <<>>
    PROVE  Calls'
<1>1. Owing(proc[p])
  BY DEF Calls
<1>2. Owing(After(p, pc, [t |-> proc[p].t]))
  BY <1>1, EmptyOwed DEF Owing, After, Field, Pulling
<1> QED BY <1>2, GotoKeeps

LEMMA ListingKeeps ==
    ASSUME Rows, Calls, NEW p \in Proc,
           CountAssigned(p) \/ ListCandidates(p) \/ NextCandidate(p) \/ EndPull(p)
    PROVE  Rows' /\ Calls' /\ Unassigning
<1>1. UNCHANGED task
  BY DEF CountAssigned, ListCandidates, NextCandidate, EndPull, ReadOnly, tables
<1>2. Rows' /\ Unassigning
  BY <1>1, SameTasks
<1>3. Owing(proc[p]) /\ DOMAIN task \subseteq Task
  BY DEF Calls, Rows
<1>4. ASSUME CountAssigned(p) PROVE Calls'
  <2>1. CASE Goto(p, "list", Idle)
    <3>1. Owing(After(p, "list", Idle))
      BY EmptyOwed DEF Owing, After, Field, Idle, Pulling
    <3> QED BY <2>1, <3>1, GotoKeeps
  <2>2. CASE Exit(p)
    BY <2>2, ExitKeeps
  <2> QED BY <1>4, <2>1, <2>2 DEF CountAssigned
<1>5. ASSUME ListCandidates(p) PROVE Calls'
  <2> DEFINE found == {t \in DOMAIN task \cap Takes[AgentOf[p]] :
                                    task[t].state \in SCHEDULABLE}
  <2>1. Goto(p, "pull", [left |-> found]) /\ proc[p].todo = <<>>
    BY <1>5 DEF ListCandidates, At
  <2>2. found \subseteq Task
    BY <1>3
  <2> HIDE DEF found
  <2>3. Owing(After(p, "pull", [left |-> found]))
    BY <2>1, <2>2, EmptyOwed DEF Owing, After, Field, Pulling
  <2> QED BY <2>1, <2>3, GotoKeeps
<1>6. ASSUME NextCandidate(p) PROVE Calls'
  <2>1. PICK t \in proc[p].left :
           Goto(p, "depend", [t |-> t, left |-> proc[p].left \ {t}])
    BY <1>6 DEF NextCandidate
  <2>2. proc[p].left \subseteq Task /\ proc[p].todo = <<>>
    BY <1>3, <1>6 DEF Owing, NextCandidate, At
  <2>3. Owing(After(p, "depend", [t |-> t, left |-> proc[p].left \ {t}]))
    BY <2>2, EmptyOwed DEF Owing, After, Field, Pulling
  <2> QED BY <2>1, <2>3, GotoKeeps
<1>7. ASSUME EndPull(p) PROVE Calls'
  BY <1>7, ExitKeeps DEF EndPull
<1> QED BY <1>2, <1>4, <1>5, <1>6, <1>7

\* The steps of a pull from a candidate up to its assignment.
LEMMA PullKeeps ==
    ASSUME Rows, Calls, NEW p \in Proc,
           \/ CheckDependencies(p) \/ AcquireDispatchLease(p) \/ RouteAndReserve(p)
           \/ ClaimWorkspace(p) \/ WorkspaceFails(p) \/ LoseAssignment(p)
    PROVE  Rows' /\ Calls' /\ Unassigning
<1> DEFINE t == proc[p].t
<1>1. proc[p].pc \in Pulling /\ proc[p].todo = <<>>
  BY DEF CheckDependencies, AcquireDispatchLease, RouteAndReserve, ClaimWorkspace,
         WorkspaceFails, LoseAssignment, At, Pulling
<1>2. t \in Task /\ proc[p].left \subseteq Task
  BY <1>1 DEF Calls, Owing
<1>3. /\ "BLOCKED" \in Result /\ "QUEUED" \in Result /\ "WAITING_CAPACITY" \in Result
      /\ "RETRYABLE" \in Outcome /\ "BLOCKED" \in Outcome
  BY DEF Result, Outcome, SCHEDULABLE, TERMINAL
<1>4. /\ <<>> \in Seq(Write) /\ <<Set(t, "BLOCKED")>> \in Seq(Write)
      /\ <<Set(t, "WAITING_CAPACITY")>> \in Seq(Write)
      /\ <<Unreserve(t), Set(t, "QUEUED")>> \in Seq(Write)
      /\ Release(t, "RETRYABLE") \in Seq(Write)
      /\ Release(t, "BLOCKED") \o <<Set(t, "BLOCKED")>> \in Seq(Write)
  <2>1. /\ Set(t, "BLOCKED") \in Write /\ Set(t, "WAITING_CAPACITY") \in Write
        /\ Set(t, "QUEUED") \in Write /\ Unreserve(t) \in Write
        /\ Release(t, "RETRYABLE") \in Seq(Write) /\ Release(t, "BLOCKED") \in Seq(Write)
    BY <1>2, <1>3, WriteTypes
  <2> HIDE DEF t
  <2> QED BY <2>1
<1>5. ASSUME NEW pc \in Pulling, Goto(p, pc, [t |-> t]) PROVE Calls'
  BY <1>1, <1>5, PullGoesOn
<1>6. ASSUME NEW steps \in Seq(Write), Decide(p, "pull", steps) PROVE Calls'
  BY <1>2, <1>6, DecideKeeps
<1>7. /\ "acquire" \in Pulling /\ "route" \in Pulling /\ "claim" \in Pulling
      /\ "assign" \in Pulling
  BY DEF Pulling
<1>8. CASE CheckDependencies(p)
  <2>1. UNCHANGED task
    BY <1>8 DEF CheckDependencies, ReadOnly, tables
  <2>2. CASE Goto(p, "acquire", [t |-> t])
    BY <1>5, <1>7, <2>1, <2>2, SameTasks
  <2>3. CASE ~Goto(p, "acquire", [t |-> t])
    <3>1. \/ Decide(p, "pull", <<Set(t, "BLOCKED")>>)
          \/ Decide(p, "pull", <<>>)
      BY <1>8, <2>3 DEF CheckDependencies
    <3> QED BY <1>4, <1>6, <2>1, <3>1, SameTasks
  <2> QED BY <2>2, <2>3
<1>9. CASE AcquireDispatchLease(p)
  <2>1. CASE MayAcquire(t)
    <3>1. PICK old \in BOOLEAN :
             /\ task' = [task EXCEPT ![t].state = "ROUTING", ![t].old = old]
             /\ Goto(p, "route", [t |-> t])
      BY <1>9, <2>1 DEF AcquireDispatchLease, Stamp
    <3>2. Calls'
      BY <1>5, <1>7, <3>1
    <3> HIDE DEF t
    <3> QED BY <3>1, <3>2 DEF Rows, Unassigning
  <2>2. CASE ~MayAcquire(t)
    BY <1>4, <1>6, <1>9, <2>2, SameTasks DEF AcquireDispatchLease
  <2> QED BY <2>1, <2>2
<1>10. CASE RouteAndReserve(p)
  <2>1. UNCHANGED task
    BY <1>10 DEF RouteAndReserve
  <2>2. \/ Goto(p, "claim", [t |-> t])
        \/ Decide(p, "pull", <<Set(t, "WAITING_CAPACITY")>>)
    BY <1>10 DEF RouteAndReserve
  <2> QED BY <1>4, <1>5, <1>6, <1>7, <2>1, <2>2, SameTasks
<1>11. CASE ClaimWorkspace(p)
  <2>1. UNCHANGED task
    BY <1>11 DEF ClaimWorkspace
  <2>2. \/ Goto(p, "assign", [t |-> t])
        \/ Decide(p, "pull", <<Unreserve(t), Set(t, "QUEUED")>>)
    BY <1>11 DEF ClaimWorkspace
  <2> QED BY <1>4, <1>5, <1>6, <1>7, <2>1, <2>2, SameTasks
<1>12. CASE WorkspaceFails(p)
  <2>1. UNCHANGED task
    BY <1>12 DEF WorkspaceFails, ReadOnly, tables
  <2>2. Decide(p, "idle", Release(t, "BLOCKED") \o <<Set(t, "BLOCKED")>>)
    BY <1>12 DEF WorkspaceFails
  <2> QED BY <1>4, <2>1, <2>2, DecideKeeps, SameTasks
<1>13. CASE LoseAssignment(p)
  BY <1>4, <1>6, <1>13, SameTasks DEF LoseAssignment, ReadOnly, tables
<1> QED BY <1>8, <1>9, <1>10, <1>11, <1>12, <1>13

\* The one step that assigns counts again, in its own transaction.
LEMMA AssignKeeps ==
    ASSUME IInv, NEW p \in Proc, AssignTask(p)
    PROVE  IInv'
<1> DEFINE t == proc[p].t
<1>1. /\ task' = [task EXCEPT ![t] = [@ EXCEPT !.state = "ASSIGNED",
            !.session = AgentOf[p], !.attempts = task[t].attempts + 1, !.old = FALSE]]
      /\ HasRoomFor(AgentOf[p])
  BY DEF AssignTask, MayAssign
<1>2. Calls'
  BY ExitKeeps DEF IInv, AssignTask
<1>3. /\ DOMAIN task' = DOMAIN task
      /\ \A u \in DOMAIN task : u # t => task'[u] = task[u]
      /\ t \in DOMAIN task =>
            /\ DOMAIN task'[t] = DOMAIN task[t]
            /\ task'[t].session = AgentOf[p]
  BY <1>1 DEF IInv, Rows
<1> HIDE DEF t
<1>4. Rows'
  BY <1>3 DEF IInv, Rows
<1>5. ASSUME NEW s \in Session
      PROVE  /\ IsFiniteSet(AssignedTo(s)')
             /\ Cardinality(AssignedTo(s)') <= MaxInflight[s]
  <2>1. IsFiniteSet(AssignedTo(s)) /\ Cardinality(AssignedTo(s)) <= MaxInflight[s]
    BY DEF IInv, Bounded
  <2>2. Cardinality(AssignedTo(s)) \in Nat /\ MaxInflight[s] \in Nat
    BY <2>1, FS_CardinalityType, SessionsAssumption
  <2>3. CASE s # AgentOf[p]
    <3>1. AssignedTo(s)' \subseteq AssignedTo(s)
      BY <1>3, <2>3 DEF AssignedTo
    <3>2. /\ IsFiniteSet(AssignedTo(s)')
          /\ Cardinality(AssignedTo(s)') <= Cardinality(AssignedTo(s))
      BY <2>1, <3>1, FS_Subset
    <3> QED BY <2>1, <2>2, <3>2, FS_CardinalityType
  <2>4. CASE s = AgentOf[p]
    <3>1. AssignedTo(s)' \subseteq AssignedTo(s) \cup {t}
      BY <1>3 DEF AssignedTo
    <3>2. /\ IsFiniteSet(AssignedTo(s) \cup {t})
          /\ Cardinality(AssignedTo(s) \cup {t}) <= Cardinality(AssignedTo(s)) + 1
      BY <2>1, <2>2, FS_AddElement
    <3>3. /\ IsFiniteSet(AssignedTo(s)')
          /\ Cardinality(AssignedTo(s)') <= Cardinality(AssignedTo(s) \cup {t})
      BY <3>1, <3>2, FS_Subset
    <3>4. /\ Cardinality(AssignedTo(s)') \in Nat
          /\ Cardinality(AssignedTo(s) \cup {t}) \in Nat
      BY <3>2, <3>3, FS_CardinalityType
    <3>5. Cardinality(AssignedTo(s)) < MaxInflight[s]
      BY <1>1, <2>4 DEF HasRoomFor
    <3> QED BY <2>2, <3>2, <3>3, <3>4, <3>5
  <2> QED BY <2>3, <2>4
<1> QED BY <1>2, <1>4, <1>5 DEF IInv, Bounded

-----------------------------------------------------------------------------
(* The ticks                                                                 *)

LEMMA RecoverKeeps ==
    ASSUME Rows, Calls, NEW p \in Proc, RecoverRouting(p)
    PROVE  Rows' /\ Calls' /\ Unassigning
<1>1. PICK t \in proc[p].left :
        \/ /\ task' = [task EXCEPT ![t].state = "RETRYABLE", ![t].old = FALSE]
           /\ Goto(p, "recover", [left |-> proc[p].left \ {t}, t |-> t,
                                  todo |-> Release(t, "RETRYABLE")])
        \/ Goto(p, "recover", [left |-> proc[p].left \ {t}]) /\ UNCHANGED task
  BY DEF RecoverRouting
<1>2. proc[p].left \subseteq Task /\ proc[p].todo = <<>>
  BY DEF Calls, Owing, RecoverRouting, At
<1>3. Release(t, "RETRYABLE") \in Seq(Write)
  <2>1. t \in Task /\ "RETRYABLE" \in Outcome
    BY <1>2 DEF Outcome
  <2> QED BY <2>1, WriteTypes
<1>4. CASE /\ task' = [task EXCEPT ![t].state = "RETRYABLE", ![t].old = FALSE]
           /\ Goto(p, "recover", [left |-> proc[p].left \ {t}, t |-> t,
                                  todo |-> Release(t, "RETRYABLE")])
  <2>1. Owing(After(p, "recover", [left |-> proc[p].left \ {t}, t |-> t,
                                   todo |-> Release(t, "RETRYABLE")]))
    BY <1>2, <1>3 DEF Owing, After, Field, Pulling
  <2>2. Calls'
    BY <1>4, <2>1, GotoKeeps
  <2>3. Rows' /\ Unassigning
    BY <1>4 DEF Rows, Unassigning
  <2> QED BY <2>2, <2>3
<1>5. CASE Goto(p, "recover", [left |-> proc[p].left \ {t}]) /\ UNCHANGED task
  <2>1. Owing(After(p, "recover", [left |-> proc[p].left \ {t}]))
    BY <1>2, EmptyOwed DEF Owing, After, Field, Pulling
  <2> QED BY <1>5, <2>1, GotoKeeps, SameTasks
<1> QED BY <1>1, <1>4, <1>5

LEMMA ExpireKeeps ==
    ASSUME Rows, Calls, NEW p \in Proc, ExpireAssignment(p)
    PROVE  Rows' /\ Calls' /\ Unassigning
<1>1. PICK r \in proc[p].left :
        \/ /\ task' = [task EXCEPT ![r.t] = [@ EXCEPT
                 !.state = r.to, !.session = NoSession, !.old = FALSE]]
           /\ Goto(p, "expire", [left |-> proc[p].left \ {r}, t |-> r.t,
                                 todo |-> Release(r.t, r.to)])
        \/ Goto(p, "expire", [left |-> proc[p].left \ {r}]) /\ UNCHANGED task
  BY DEF ExpireAssignment
<1>2. /\ \A x \in proc[p].left : x.t \in Task /\ x.to \in Outcome
      /\ proc[p].todo = <<>>
  BY DEF Calls, Owing, ExpireAssignment, At
<1>3. Release(r.t, r.to) \in Seq(Write) /\ r.to # "ASSIGNED"
  <2>1. Release(r.t, r.to) \in Seq(Write)
    BY <1>2, WriteTypes
  <2>2. r.to # "ASSIGNED"
    BY <1>2 DEF Outcome
  <2> QED BY <2>1, <2>2
<1>4. CASE /\ task' = [task EXCEPT ![r.t] = [@ EXCEPT
                 !.state = r.to, !.session = NoSession, !.old = FALSE]]
           /\ Goto(p, "expire", [left |-> proc[p].left \ {r}, t |-> r.t,
                                 todo |-> Release(r.t, r.to)])
  <2>1. Owing(After(p, "expire", [left |-> proc[p].left \ {r}, t |-> r.t,
                                  todo |-> Release(r.t, r.to)]))
    BY <1>2, <1>3 DEF Owing, After, Field, Pulling
  <2>2. Calls'
    BY <1>4, <2>1, GotoKeeps
  <2>3. Rows' /\ Unassigning
    BY <1>3, <1>4 DEF Rows, Unassigning
  <2> QED BY <2>2, <2>3
<1>5. CASE Goto(p, "expire", [left |-> proc[p].left \ {r}]) /\ UNCHANGED task
  <2>1. Owing(After(p, "expire", [left |-> proc[p].left \ {r}]))
    BY <1>2, EmptyOwed DEF Owing, After, Field, Pulling
  <2> QED BY <1>5, <2>1, GotoKeeps, SameTasks
<1> QED BY <1>1, <1>4, <1>5

LEMMA TickKeeps ==
    ASSUME Rows, Calls, NEW p \in Proc, TickStep(p)
    PROVE  Rows' /\ Calls' /\ Unassigning
<1>1. DOMAIN task \subseteq Task
  BY DEF Rows
<1>2. CASE StartTick(p)
  <2> DEFINE found == {t \in DOMAIN task : StateIs(t, {"ROUTING"}) /\ task[t].old}
  <2>1. Goto(p, "recover", [left |-> found]) /\ proc[p].todo = <<>>
    BY <1>2 DEF StartTick, At
  <2>2. found \subseteq Task
    BY <1>1
  <2> HIDE DEF found
  <2>3. Owing(After(p, "recover", [left |-> found]))
    BY <2>1, <2>2, EmptyOwed DEF Owing, After, Field, Pulling
  <2> QED BY <1>2, <2>1, <2>3, GotoKeeps, SameTasks DEF StartTick, ReadOnly, tables
<1>3. CASE ListLostAssignments(p)
  <2> DEFINE lost == {u \in DOMAIN task : task[u].state = "ASSIGNED" /\ Lost(task[u].session)}
             found == {[t |-> t, s |-> task[t].session, to |-> NextTry(t)] : t \in lost}
  <2>1. Goto(p, "expire", [left |-> found]) /\ proc[p].todo = <<>>
    BY <1>3 DEF ListLostAssignments, At
  <2>2. \A x \in found : x.t \in Task /\ x.to \in Outcome
    <3> SUFFICES ASSUME NEW t \in lost PROVE t \in Task /\ NextTry(t) \in Outcome
      OBVIOUS
    <3> QED BY <1>1 DEF NextTry, Outcome
  <2> HIDE DEF found
  <2>3. Owing(After(p, "expire", [left |-> found]))
    BY <2>1, <2>2, EmptyOwed DEF Owing, After, Field, Pulling
  <2> QED BY <1>3, <2>1, <2>3, GotoKeeps, SameTasks DEF ListLostAssignments, ReadOnly, tables
<1>4. CASE EndTick(p)
  BY <1>4, ExitKeeps, SameTasks DEF EndTick, ReadOnly, tables
<1> QED BY <1>2, <1>3, <1>4, RecoverKeeps, ExpireKeeps DEF TickStep

-----------------------------------------------------------------------------
(* Everything else                                                           *)

LEMMA EnvironmentKeeps ==
    ASSUME Rows, Calls, Environment
    PROVE  Rows' /\ Calls' /\ Unassigning
<1>1. ASSUME NEW t \in Task, SubmitTask(t) PROVE Rows' /\ Calls' /\ Unassigning
  <2>1. /\ task' = With(task, t, [state |-> "QUEUED", attempts |-> 0,
                                  session |-> NoSession, old |-> FALSE])
        /\ UNCHANGED proc /\ t \notin DOMAIN task
    BY <1>1 DEF SubmitTask, Known
  <2>2. /\ DOMAIN task' = DOMAIN task \cup {t}
        /\ task'[t] = [state |-> "QUEUED", attempts |-> 0,
                       session |-> NoSession, old |-> FALSE]
        /\ \A u \in DOMAIN task : task'[u] = task[u]
    BY <2>1 DEF With
  <2>3. /\ task'[t].state # "ASSIGNED"
        /\ DOMAIN task'[t] = {"state", "attempts", "session", "old"}
    BY <2>2
  <2>4. Rows'
    BY <2>2, <2>3 DEF Rows
  <2>5. Unassigning
    BY <2>2, <2>3 DEF Unassigning
  <2> QED BY <2>1, <2>4, <2>5 DEF Calls
<1>2. ASSUME NEW s \in Session, DiscoverSession(s) \/ Lapse(s) \/ Outage
      PROVE  Rows' /\ Calls' /\ Unassigning
  <2>1. UNCHANGED <<task, proc>>
    BY <1>2 DEF DiscoverSession, Lapse, Outage
  <2> QED BY <2>1, SameTasks DEF Calls
<1>3. ASSUME NEW s \in Session, Die(s) PROVE Rows' /\ Calls' /\ Unassigning
  <2>1. /\ proc' = [p \in Proc |-> IF p \in Agent /\ AgentOf[p] = s THEN Idle ELSE proc[p]]
        /\ UNCHANGED task
    BY <1>3 DEF Die, tables
  <2>2. Calls'
    BY <2>1, IdleOwing DEF Calls
  <2> QED BY <2>1, <2>2, SameTasks
<1>4. ASSUME TwoMinutes PROVE Rows' /\ Calls' /\ Unassigning
  <2>1. /\ DOMAIN task' = DOMAIN task
        /\ \A t \in DOMAIN task : \E b : task'[t] = [task[t] EXCEPT !.old = b]
        /\ UNCHANGED proc
    BY <1>4 DEF TwoMinutes
  <2> QED BY <2>1 DEF Rows, Unassigning, Calls
<1>5. ASSUME Outage PROVE Rows' /\ Calls' /\ Unassigning
  <2>1. UNCHANGED <<task, proc>>
    BY <1>5 DEF Outage
  <2> QED BY <2>1, SameTasks DEF Calls
<1> QED BY <1>1, <1>2, <1>3, <1>4, <1>5 DEF Environment

LEMMA InitHolds == Init => IInv
<1> SUFFICES ASSUME Init PROVE IInv
  OBVIOUS
<1>1. DOMAIN task = {} /\ proc = [p \in Proc |-> Idle]
  BY DEF Init
<1>2. \A s \in Session : AssignedTo(s) = {}
  BY <1>1 DEF AssignedTo
<1>3. Bounded
  <2> SUFFICES ASSUME NEW s \in Session
               PROVE  /\ IsFiniteSet(AssignedTo(s))
                      /\ Cardinality(AssignedTo(s)) <= MaxInflight[s]
    BY DEF Bounded
  <2>1. IsFiniteSet({}) /\ Cardinality({}) = 0
    BY FS_EmptySet
  <2>2. MaxInflight[s] \in Nat
    BY SessionsAssumption
  <2>3. AssignedTo(s) = {}
    BY <1>2
  <2> QED BY <2>1, <2>2, <2>3
<1> QED BY <1>1, <1>3, IdleOwing DEF IInv, Rows, Calls

LEMMA NextKeeps == IInv /\ [Next]_vars => IInv'
<1> SUFFICES ASSUME IInv, [Next]_vars PROVE IInv'
  OBVIOUS
<1> USE DEF IInv
<1>1. ASSUME Rows' /\ Calls' /\ Unassigning PROVE IInv'
  BY <1>1, UnassigningKeepsBound
<1>2. ASSUME NEW p \in Proc, Perform(p) PROVE IInv'
  BY <1>1, <1>2, PerformKeeps
<1>3. ASSUME NEW p \in Proc, AgentStep(p) PROVE IInv'
  <2>1. CASE AssignTask(p)
    BY <2>1, AssignKeeps
  <2>2. CASE ~AssignTask(p)
    BY <1>1, <1>3, <2>2, ListingKeeps, PullKeeps, CompleteKeeps, ListRenewalsKeeps,
       LoopKeeps DEF AgentStep
  <2> QED BY <2>1, <2>2
<1>4. ASSUME NEW p \in Proc, TickStep(p) PROVE IInv'
  BY <1>1, <1>4, TickKeeps
<1>5. ASSUME NEW p \in Proc, AgentCommand(p) PROVE IInv'
  BY <1>1, <1>5, CommandKeeps, CloseSessionKeeps, CompleteKeeps DEF AgentCommand
<1>6. ASSUME NEW p \in Proc, Crash(p) PROVE IInv'
  BY <1>1, <1>6, ExitKeeps, SameTasks DEF Crash, tables
<1>7. ASSUME Environment PROVE IInv'
  BY <1>1, <1>7, EnvironmentKeeps
<1>8. ASSUME UNCHANGED vars PROVE IInv'
  BY <1>8 DEF vars, Rows, Calls, Bounded, AssignedTo
<1> QED BY <1>2, <1>3, <1>4, <1>5, <1>6, <1>7, <1>8 DEF Next, Run

-----------------------------------------------------------------------------
(* The theorem                                                               *)

\* However many calls of one session overlap, and whatever is closed, expired,
\* completed, stalled or killed meanwhile, no session ever has more tasks than
\* its max_inflight: session_pull counts again in the transaction that assigns.
THEOREM InflightLimit == Spec => []InflightBound
<1>1. IInv => InflightBound
  BY DEF IInv, Bounded, InflightBound
<1> QED BY InitHolds, NextKeeps, <1>1, PTL DEF Spec

-----------------------------------------------------------------------------
(* Who takes a step                                                          *)

\* The other processes stay where they are.
Alone(p) == \A q \in Proc \ {p} : proc'[q] = proc[q]

LEMMA GotoMoves ==
    ASSUME Calls, NEW p \in Proc, NEW pc, NEW r, Goto(p, pc, r)
    PROVE  /\ proc'[p] = After(p, pc, r) /\ proc'[p].pc = pc
           /\ Alone(p)
<1> DEFINE q == [f \in DOMAIN Idle |->
                    IF f = "pc" THEN pc
                    ELSE IF f \in DOMAIN r THEN r[f] ELSE proc[p][f]]
<1>1. q = After(p, pc, r)
  BY DEF Idle, After, Field
<1>2. proc' = [proc EXCEPT ![p] = q]
  BY DEF Goto, Calls
<1>3. After(p, pc, r).pc = pc
  BY DEF After
<1>4. proc'[p] = After(p, pc, r) /\ Alone(p)
  BY <1>1, <1>2 DEF Calls, Alone
<1> QED BY <1>3, <1>4

LEMMA DecideMoves ==
    ASSUME Calls, NEW p \in Proc, NEW pc, NEW steps, Decide(p, pc, steps)
    PROVE  /\ proc'[p].pc = pc /\ proc'[p].todo = steps
           /\ pc # "idle" => proc'[p].left = proc[p].left
           /\ steps # <<>> => proc'[p].t = proc[p].t
           /\ steps = <<>> => proc'[p].t = NoTask
           /\ Alone(p)
<1> DEFINE q == [Idle EXCEPT
        !.pc = pc, !.left = IF pc = "idle" THEN {} ELSE proc[p].left, !.todo = steps,
        !.t = IF steps = <<>> THEN NoTask ELSE proc[p].t]
<1>1. proc' = [proc EXCEPT ![p] = q]
  BY DEF Decide
<1>2. /\ q.pc = pc /\ q.todo = steps
      /\ q.left = IF pc = "idle" THEN {} ELSE proc[p].left
      /\ q.t = IF steps = <<>> THEN NoTask ELSE proc[p].t
  BY DEF Idle
<1> HIDE DEF q
<1>3. proc'[p] = q /\ Alone(p)
  BY <1>1 DEF Calls, Alone
<1> QED BY <1>2, <1>3

LEMMA PopMoves ==
    ASSUME Calls, NEW p \in Proc, Pop(p)
    PROVE  /\ proc'[p].pc = proc[p].pc /\ proc'[p].to = proc[p].to
           /\ proc'[p].left = proc[p].left
           /\ proc'[p].todo = Tail(proc[p].todo)
           /\ Tail(proc[p].todo) # <<>> => proc'[p].t = proc[p].t
           /\ proc[p].pc \in Loops /\ Tail(proc[p].todo) = <<>> => proc'[p].t = NoTask
           /\ Alone(p)
<1> DEFINE rest == Tail(proc[p].todo)
           q == [proc[p] EXCEPT
                    !.todo = rest,
                    !.t = IF rest = <<>> /\ proc[p].pc \in Loops THEN NoTask ELSE proc[p].t]
<1>1. proc' = [proc EXCEPT ![p] = q]
  BY DEF Pop
<1>2. Owing(proc[p])
  BY DEF Calls
<1>3. /\ q.pc = proc[p].pc /\ q.to = proc[p].to /\ q.left = proc[p].left /\ q.todo = rest
      /\ q.t = IF rest = <<>> /\ proc[p].pc \in Loops THEN NoTask ELSE proc[p].t
  BY <1>2 DEF Owing
<1> HIDE DEF q
<1>4. proc'[p] = q /\ Alone(p)
  BY <1>1 DEF Calls, Alone
<1> QED BY <1>3, <1>4

LEMMA ExitMoves ==
    ASSUME Calls, NEW p \in Proc, Exit(p)
    PROVE  /\ proc'[p] = Idle /\ proc'[p].pc = "idle" /\ proc'[p].t = NoTask
           /\ proc'[p].left = {} /\ proc'[p].todo = <<>>
           /\ Alone(p)
<1>1. proc'[p] = Idle /\ Alone(p)
  BY DEF Exit, Calls, Alone
<1>2. PICK q : q = Idle
  OBVIOUS
<1>3. q.pc = "idle" /\ q.t = NoTask /\ q.left = {} /\ q.todo = <<>>
  BY <1>2 DEF Idle
<1> QED BY <1>1, <1>2, <1>3

\* Only agents call what agents call.
AgentsCall == \A p \in Proc \ Agent : proc[p].pc \in {"idle", "recover", "expire"}

LEMMA AgentSteps ==
    ASSUME AgentsCall, NEW p \in Proc, AgentStep(p)
    PROVE  p \in Agent /\ AgentOf[p] \in Session
<1>1. proc[p].pc \notin {"idle", "recover", "expire"}
  BY DEF AgentStep, CountAssigned, ListCandidates, NextCandidate, EndPull, CheckDependencies,
         AcquireDispatchLease, RouteAndReserve, ClaimWorkspace, WorkspaceFails, AssignTask,
         LoseAssignment, RecordCompletion, ListRenewals, Each, EndEach, At
<1> QED BY <1>1, SessionsAssumption DEF AgentsCall

LEMMA AgentStepAlone ==
    ASSUME Calls, NEW p \in Proc, AgentStep(p)
    PROVE  Alone(p)
<1>1. CASE CountAssigned(p) \/ ListCandidates(p) \/ NextCandidate(p) \/ EndPull(p)
  BY <1>1, GotoMoves, ExitMoves DEF CountAssigned, ListCandidates, NextCandidate, EndPull
<1>2. CASE CheckDependencies(p) \/ AcquireDispatchLease(p)
  BY <1>2, GotoMoves, DecideMoves DEF CheckDependencies, AcquireDispatchLease
<1>3. CASE RouteAndReserve(p) \/ ClaimWorkspace(p)
  BY <1>3, GotoMoves, DecideMoves DEF RouteAndReserve, ClaimWorkspace
<1>4. CASE WorkspaceFails(p) \/ AssignTask(p) \/ LoseAssignment(p)
  BY <1>4, ExitMoves, DecideMoves DEF WorkspaceFails, AssignTask, LoseAssignment
<1>5. CASE RecordCompletion(p) \/ ListRenewals(p) \/ Each(p) \/ EndEach(p)
  BY <1>5, GotoMoves, ExitMoves, DecideMoves DEF RecordCompletion, ListRenewals, Each, EndEach
<1> QED BY <1>1, <1>2, <1>3, <1>4, <1>5 DEF AgentStep

LEMMA TickStepAlone ==
    ASSUME Calls, NEW p \in Proc, TickStep(p)
    PROVE  Alone(p) /\ proc'[p].pc \in {"idle", "recover", "expire"}
<1>1. CASE StartTick(p) \/ ListLostAssignments(p) \/ EndTick(p)
  BY <1>1, GotoMoves, ExitMoves DEF StartTick, ListLostAssignments, EndTick
<1>2. CASE RecoverRouting(p)
  BY <1>2, GotoMoves DEF RecoverRouting
<1>3. CASE ExpireAssignment(p)
  BY <1>3, GotoMoves DEF ExpireAssignment
<1> QED BY <1>1, <1>2, <1>3 DEF TickStep

LEMMA CommandAlone ==
    ASSUME Calls, NEW p \in Agent, AgentCommand(p)
    PROVE  Alone(p)
<1>1. p \in Proc
  BY DEF Proc
<1>2. CASE RegisterSession(p)
  BY <1>2 DEF RegisterSession, Alone
<1>3. CASE Pulse(p) \/ BeginPull(p)
  BY <1>1, <1>3, GotoMoves DEF Pulse, BeginPull
<1>4. CASE CloseSession(p) \/ BeginComplete(p)
  BY <1>1, <1>4, GotoMoves DEF CloseSession, BeginComplete
<1> QED BY <1>2, <1>3, <1>4 DEF AgentCommand

LEMMA CallersKept ==
    ASSUME Calls, AgentsCall, [Next]_vars
    PROVE  AgentsCall'
<1>1. ASSUME NEW p \in Proc, Alone(p), p \in Agent \/ proc'[p].pc \in {"idle", "recover", "expire"}
      PROVE  AgentsCall'
  BY <1>1 DEF AgentsCall, Alone
<1>2. ASSUME NEW p \in Proc, Perform(p) PROVE AgentsCall'
  <2>1. Pop(p)
    BY <1>2 DEF Perform, PerformTask, PerformUnreserve, PerformUnclaim, PerformRenew,
                PerformHold
  <2> QED BY <1>1, <2>1, PopMoves DEF AgentsCall
<1>3. ASSUME NEW p \in Proc, AgentStep(p) PROVE AgentsCall'
  BY <1>1, <1>3, AgentSteps, AgentStepAlone
<1>4. ASSUME NEW p \in Proc, TickStep(p) PROVE AgentsCall'
  BY <1>1, <1>4, TickStepAlone
<1>5. ASSUME NEW p \in Proc, AgentCommand(p) PROVE AgentsCall'
  BY <1>1, <1>5, CommandAlone DEF AgentCommand
<1>6. ASSUME NEW p \in Proc, Crash(p) PROVE AgentsCall'
  BY <1>1, <1>6, ExitMoves DEF Crash
<1>7. CASE Environment
  <2>1. ASSUME NEW s \in Session, Die(s) PROVE AgentsCall'
    BY <2>1 DEF Die, AgentsCall
  <2>2. CASE UNCHANGED proc
    BY <2>2 DEF AgentsCall
  <2> QED BY <1>7, <2>1, <2>2 DEF Environment, SubmitTask, DiscoverSession, Lapse, TwoMinutes, Outage
<1>8. CASE UNCHANGED vars
  BY <1>8 DEF vars, AgentsCall
<1> QED BY <1>2, <1>3, <1>4, <1>5, <1>6, <1>7, <1>8 DEF Next, Run

-----------------------------------------------------------------------------
(* The tables keep their types                                               *)

TasksTyped == DOMAIN task \subseteq Task /\ task \in [DOMAIN task -> TaskRow]
SessionsTyped == DOMAIN session \subseteq Session /\ session \in [DOMAIN session -> SessionRow]
ReservedTyped == DOMAIN reserved \subseteq Task /\ reserved \in [DOMAIN reserved -> Reservation]

LEMMA Tables ==
    /\ TypeOK <=> TasksTyped /\ SessionsTyped /\ ReservedTyped /\ W!TypeOK
    /\ TypeOK' <=> TasksTyped' /\ SessionsTyped' /\ ReservedTyped' /\ W!TypeOK'
BY DEF TypeOK, TasksTyped, SessionsTyped, ReservedTyped

LEMMA SameTables ==
    /\ TasksTyped /\ UNCHANGED task => TasksTyped'
    /\ SessionsTyped /\ UNCHANGED session => SessionsTyped'
    /\ ReservedTyped /\ UNCHANGED reserved => ReservedTyped'
    /\ W!TypeOK /\ UNCHANGED claims => W!TypeOK'
<1>1. TasksTyped /\ UNCHANGED task => TasksTyped'
  BY DEF TasksTyped
<1>2. SessionsTyped /\ UNCHANGED session => SessionsTyped'
  BY DEF SessionsTyped
<1>3. ReservedTyped /\ UNCHANGED reserved => ReservedTyped'
  BY DEF ReservedTyped
<1>4. W!TypeOK /\ UNCHANGED claims => W!TypeOK'
  BY DEF W!TypeOK
<1> QED BY <1>1, <1>2, <1>3, <1>4

LEMMA ClaimRowTyped ==
    ASSUME NEW row \in W!Row
    PROVE  /\ [row EXCEPT !.state = "RETRYABLE", !.left = 0] \in W!Row
           /\ [row EXCEPT !.ttl = 1, !.left = 1] \in W!Row
           /\ [row EXCEPT !.left = 1, !.ttl = 1, !.pid = NoProcess] \in W!Row
           /\ \A outcome \in Outcome : [row EXCEPT !.state = outcome, !.left = 0] \in W!Row
<1>1. "RETRYABLE" \in W!STATES /\ 0 \in Int /\ 1 \in Int /\ Outcome \subseteq W!STATES
  BY DEF W!STATES, Outcome, W!TERMINAL_STATES
<1>2. [row EXCEPT !.state = "RETRYABLE", !.left = 0] \in W!Row
  BY <1>1 DEF W!Row
<1>3. [row EXCEPT !.ttl = 1, !.left = 1] \in W!Row
  BY <1>1 DEF W!Row
<1>4. [row EXCEPT !.left = 1, !.ttl = 1, !.pid = NoProcess] \in W!Row
  BY <1>1 DEF W!Row
<1>5. ASSUME NEW outcome \in Outcome PROVE [row EXCEPT !.state = outcome, !.left = 0] \in W!Row
  BY <1>1 DEF W!Row
<1> QED BY <1>2, <1>3, <1>4, <1>5

LEMMA CleanedTyped ==
    ASSUME W!TypeOK
    PROVE  /\ DOMAIN W!Cleaned(0, {}) = DOMAIN claims
           /\ W!Cleaned(0, {}) \in [DOMAIN claims -> W!Row]
           /\ \A t \in DOMAIN claims :
                 /\ W!Cleaned(0, {})[t].owner = claims[t].owner
                 /\ W!Leased(W!Cleaned(0, {}), t) => W!Leased(claims, t)
<1>1. ASSUME NEW row \in W!Row
      PROVE  /\ W!CleanedRow(row, 0, {}) \in W!Row
             /\ W!CleanedRow(row, 0, {}).owner = row.owner
             /\ W!CleanedRow(row, 0, {}).state \in W!LEASE_STATES => row.state \in W!LEASE_STATES
  <2>1. CASE W!Stale(row, 0, {})
    <3>1. PICK new \in W!Row : new = [row EXCEPT !.state = "RETRYABLE", !.left = 0]
      BY ClaimRowTyped
    <3>2. new.owner = row.owner /\ new.state = "RETRYABLE"
      BY <3>1 DEF W!Row
    <3>3. W!CleanedRow(row, 0, {}) = new
      BY <2>1, <3>1 DEF W!CleanedRow
    <3> QED BY <3>2, <3>3 DEF W!LEASE_STATES
  <2>2. CASE ~W!Stale(row, 0, {})
    BY <2>2 DEF W!CleanedRow
  <2> QED BY <2>1, <2>2
<1>2. \A t \in DOMAIN claims : claims[t] \in W!Row
  BY DEF W!TypeOK
<1> QED BY <1>1, <1>2 DEF W!Cleaned, W!TypeOK, W!Leased

\* What a write to the claims that is due does to them.
LEMMA LeaseTyped ==
    ASSUME W!TypeOK, NEW t \in Task, NEW outcome \in Outcome,
           W!Release(t, outcome) \/ W!Heartbeat(t, 1, 0) \/ W!Cleanup(0, {})
    PROVE  /\ W!TypeOK'
           /\ DOMAIN claims' = DOMAIN claims
           /\ \A u \in DOMAIN claims :
                 /\ claims'[u].owner = claims[u].owner
                 /\ W!Leased(claims', u) => W!Leased(claims, u)
<1> DEFINE tbl == W!Cleaned(0, {})
<1>1. /\ DOMAIN tbl = DOMAIN claims /\ tbl \in [DOMAIN claims -> W!Row]
      /\ DOMAIN claims \subseteq Task
      /\ \A u \in DOMAIN claims : /\ tbl[u].owner = claims[u].owner
                                  /\ W!Leased(tbl, u) => W!Leased(claims, u)
  BY CleanedTyped DEF W!TypeOK
<1>2. CASE W!Release(t, outcome)
  <2>1. t \in DOMAIN claims /\ claims[t] \in W!Row
    BY <1>2 DEF W!Release, W!TypeOK
  <2>2. PICK new \in W!Row : new = [claims[t] EXCEPT !.state = outcome, !.left = 0]
    BY <2>1, ClaimRowTyped
  <2>3. new.owner = claims[t].owner /\ new.state = outcome
    BY <2>1, <2>2 DEF W!Row
  <2>4. claims' = [claims EXCEPT ![t] = new]
    BY <1>2, <2>2 DEF W!Release, W!TypeOK
  <2>5. outcome \notin W!LEASE_STATES
    BY DEF Outcome, W!LEASE_STATES
  <2> QED BY <2>1, <2>2, <2>3, <2>4, <2>5 DEF W!TypeOK, W!Leased
<1>3. CASE W!Heartbeat(t, 1, 0)
  <2>1. /\ t \in DOMAIN claims /\ claims' = [tbl EXCEPT ![t].ttl = 1, ![t].left = 1 - 0]
        /\ 1 - 0 = 1
    BY <1>1, <1>3 DEF W!Heartbeat
  <2> HIDE DEF tbl
  <2>2. PICK new \in W!Row : new = [tbl[t] EXCEPT !.ttl = 1, !.left = 1]
    BY <1>1, <2>1, ClaimRowTyped
  <2>3. new.owner = tbl[t].owner /\ new.state = tbl[t].state
    BY <1>1, <2>1, <2>2 DEF W!Row
  <2>4. claims' = [tbl EXCEPT ![t] = new]
    BY <1>1, <2>1, <2>2
  <2> QED BY <1>1, <2>1, <2>2, <2>3, <2>4 DEF W!TypeOK, W!Leased
<1>4. CASE W!Cleanup(0, {})
  BY <1>1, <1>4 DEF W!Cleanup, W!TypeOK, W!Leased
<1> QED BY <1>2, <1>3, <1>4

LEMMA ClaimTyped ==
    ASSUME W!TypeOK, NEW t \in Task, NEW s \in Session, NEW req, req = Request(t, s),
           \/ W!ClaimRefused(t, req, 0) \/ W!ClaimRenewed(t, req, 0)
           \/ W!ClaimQueued(t, req, 0) \/ W!ClaimGranted(t, req, 0)
    PROVE  /\ W!TypeOK'
           /\ \A u \in DOMAIN claims' \ {t} :
                 /\ u \in DOMAIN claims /\ claims'[u].owner = claims[u].owner
                 /\ W!Leased(claims', u) => W!Leased(claims, u)
           /\ W!ClaimRefused(t, req, 0) \/ W!ClaimQueued(t, req, 0) =>
                 (W!Leased(claims', t) => W!Leased(claims, t))
<1> DEFINE tbl == W!Cleaned(0, {})
<1>1. /\ DOMAIN tbl = DOMAIN claims /\ tbl \in [DOMAIN claims -> W!Row]
      /\ DOMAIN claims \subseteq Task
      /\ \A u \in DOMAIN claims : /\ tbl[u].owner = claims[u].owner
                                  /\ W!Leased(tbl, u) => W!Leased(claims, u)
  BY CleanedTyped DEF W!TypeOK
<1>2. /\ req.base = BaseOf[t] /\ req.scopes = ScopesOf[t] /\ req.owner = s
      /\ req.worker = WorkerOf[s] /\ req.pid = NoProcess /\ req.ttl = 1 /\ req.ttl - 0 = 1
  BY DEF Request
<1> HIDE DEF tbl
<1>3. CASE W!ClaimRefused(t, req, 0)
  <2>1. claims' = tbl
    BY <1>3 DEF W!ClaimRefused, tbl
  <2>2. W!TypeOK'
    BY <1>1, <2>1 DEF W!TypeOK
  <2>3. W!Leased(claims', t) => W!Leased(claims, t)
    BY <1>1, <2>1 DEF W!Leased
  <2> QED BY <1>1, <2>1, <2>2, <2>3
<1>4. CASE W!ClaimRenewed(t, req, 0)
  <2>1. /\ t \in DOMAIN claims
        /\ claims' = [tbl EXCEPT ![t].left = 1, ![t].ttl = 1, ![t].pid = NoProcess]
    BY <1>1, <1>2, <1>4 DEF W!ClaimRenewed, W!Leased, tbl
  <2>2. PICK new \in W!Row : new = [tbl[t] EXCEPT !.left = 1, !.ttl = 1, !.pid = NoProcess]
    BY <1>1, <2>1, ClaimRowTyped
  <2>3. claims' = [tbl EXCEPT ![t] = new]
    BY <1>1, <2>1, <2>2
  <2>4. W!TypeOK'
    BY <1>1, <2>2, <2>3 DEF W!TypeOK
  <2>5. ~W!ClaimRefused(t, req, 0) /\ ~W!ClaimQueued(t, req, 0)
    BY <1>4 DEF W!ClaimRenewed, W!ClaimQueued, W!ClaimRefused
  <2> QED BY <1>1, <2>3, <2>4, <2>5 DEF W!Leased
<1>5. ASSUME NEW state \in {"QUEUED", "CLAIMED"},
             claims' = W!Put(tbl, t, W!NewRow(req, state, 0))
      PROVE  /\ W!TypeOK'
             /\ \A u \in DOMAIN claims' \ {t} :
                   /\ u \in DOMAIN claims /\ claims'[u].owner = claims[u].owner
                   /\ W!Leased(claims', u) => W!Leased(claims, u)
             /\ claims'[t].state = state
  <2>1. PICK new : new = W!NewRow(req, state, 0)
    OBVIOUS
  <2>2. new = [base |-> BaseOf[t], scopes |-> ScopesOf[t], owner |-> s, worker |-> WorkerOf[s],
               pid |-> NoProcess, state |-> state, ttl |-> 1, left |-> 1]
    BY <1>2, <2>1 DEF W!NewRow
  <2>3. new \in W!Row /\ new.state = state
    BY <2>2, SessionsAssumption DEF W!Row, W!STATES, W!EXPIRING_STATES, W!LEASE_STATES
  <2>4. /\ DOMAIN claims' = DOMAIN claims \cup {t}
        /\ \A u \in DOMAIN claims' : claims'[u] = IF u = t THEN new ELSE tbl[u]
    BY <1>1, <1>5, <2>1 DEF W!Put
  <2>5. claims' \in [DOMAIN claims' -> W!Row]
    BY <1>1, <1>5, <2>1, <2>3, <2>4 DEF W!Put
  <2> QED BY <1>1, <2>3, <2>4, <2>5 DEF W!TypeOK, W!Leased
<1>6. CASE W!ClaimQueued(t, req, 0)
  <2>1. claims' = W!Put(tbl, t, W!NewRow(req, "QUEUED", 0))
    BY <1>6 DEF W!ClaimQueued, tbl
  <2>2. ~W!Leased(claims', t)
    BY <1>5, <2>1 DEF W!Leased, W!LEASE_STATES
  <2> QED BY <1>5, <2>1, <2>2
<1>7. CASE W!ClaimGranted(t, req, 0)
  <2>1. claims' = W!Put(tbl, t, W!NewRow(req, "CLAIMED", 0))
    BY <1>7 DEF W!ClaimGranted, tbl
  <2>2. CASE W!Refused(tbl, t, req) \/ W!Leased(tbl, t)
    BY <1>7, <2>2 DEF W!ClaimGranted, tbl
  <2>3. CASE W!Leased(claims, t)
    BY <1>5, <2>1, <2>3
  <2>4. CASE ~W!ClaimRefused(t, req, 0) /\ ~W!ClaimQueued(t, req, 0)
    BY <1>5, <2>1, <2>4
  <2> QED BY <1>7, <2>2, <2>3, <2>4 DEF W!ClaimGranted, W!ClaimQueued, W!ClaimRefused, tbl
<1> QED BY <1>3, <1>4, <1>6, <1>7

\* The rows that calls write.
LEMMA TaskRowTyped ==
    ASSUME NEW row \in TaskRow
    PROVE  /\ \A state \in Result \cup {"ROUTING"} : \A old \in BOOLEAN :
                 [row EXCEPT !.state = state, !.old = old] \in TaskRow
           /\ \A state \in Result :
                 [row EXCEPT !.state = state, !.session = NoSession, !.old = FALSE] \in TaskRow
           /\ \A s \in Session :
                 [row EXCEPT !.state = "ASSIGNED", !.session = s,
                             !.attempts = row.attempts + 1, !.old = FALSE] \in TaskRow
           /\ \A old \in BOOLEAN : [row EXCEPT !.old = old] \in TaskRow
<1>1. ASSUME NEW state \in Result \cup {"ROUTING"}, NEW old \in BOOLEAN
      PROVE  [row EXCEPT !.state = state, !.old = old] \in TaskRow
  BY DEF TaskRow, Result
<1>2. ASSUME NEW state \in Result
      PROVE  [row EXCEPT !.state = state, !.session = NoSession, !.old = FALSE] \in TaskRow
  BY DEF TaskRow, Result
<1>3. ASSUME NEW s \in Session
      PROVE  [row EXCEPT !.state = "ASSIGNED", !.session = s,
                         !.attempts = row.attempts + 1, !.old = FALSE] \in TaskRow
  <2>1. PICK n \in Nat : n = row.attempts + 1
    BY DEF TaskRow
  <2>2. [row EXCEPT !.state = "ASSIGNED", !.session = s, !.attempts = n, !.old = FALSE] \in TaskRow
    BY DEF TaskRow
  <2> QED BY <2>1, <2>2
<1>4. ASSUME NEW old \in BOOLEAN PROVE [row EXCEPT !.old = old] \in TaskRow
  BY DEF TaskRow
<1> QED BY <1>1, <1>2, <1>3, <1>4

LEMMA SessionRowTyped ==
    ASSUME NEW row \in SessionRow
    PROVE  /\ \A fresh \in BOOLEAN : [row EXCEPT !.fresh = fresh] \in SessionRow
           /\ [row EXCEPT !.state = "OPEN"] \in SessionRow
           /\ \A state \in {"OPEN", "DISABLED"} :
                 [row EXCEPT !.state = state, !.fresh = TRUE] \in SessionRow
           /\ [row EXCEPT !.state = "CLOSED", !.accepts = FALSE, !.fresh = FALSE] \in SessionRow
           /\ \A hand \in BOOLEAN :
                 [row EXCEPT !.fresh = TRUE, !.accepts = row.accepts /\ hand] \in SessionRow
<1>1. ASSUME NEW fresh \in BOOLEAN PROVE [row EXCEPT !.fresh = fresh] \in SessionRow
  BY DEF SessionRow
<1>2. [row EXCEPT !.state = "OPEN"] \in SessionRow
  BY DEF SessionRow
<1>3. ASSUME NEW state \in {"OPEN", "DISABLED"}
      PROVE  [row EXCEPT !.state = state, !.fresh = TRUE] \in SessionRow
  BY DEF SessionRow
<1>4. [row EXCEPT !.state = "CLOSED", !.accepts = FALSE, !.fresh = FALSE] \in SessionRow
  BY DEF SessionRow
<1>5. ASSUME NEW hand \in BOOLEAN
      PROVE  [row EXCEPT !.fresh = TRUE, !.accepts = row.accepts /\ hand] \in SessionRow
  <2>1. PICK b : b = (row.accepts /\ hand)
    OBVIOUS
  <2>2. b \in BOOLEAN
    BY <2>1
  <2>3. [row EXCEPT !.fresh = TRUE, !.accepts = b] \in SessionRow
    BY <2>2 DEF SessionRow
  <2> QED BY <2>1, <2>3
<1> QED BY <1>1, <1>2, <1>3, <1>4, <1>5

\* One row of a table is written.
LEMMA OneTask ==
    ASSUME TasksTyped, NEW t, NEW row, t \in DOMAIN task => row \in TaskRow,
           task' = [task EXCEPT ![t] = row]
    PROVE  TasksTyped'
BY DEF TasksTyped

LEMMA OneSession ==
    ASSUME SessionsTyped, NEW s, NEW row, s \in DOMAIN session => row \in SessionRow,
           session' = [session EXCEPT ![s] = row]
    PROVE  SessionsTyped'
BY DEF SessionsTyped

\* A task's row after a write of state: EXCEPT written field by field or at once.
LEMMA StateWritten ==
    ASSUME TasksTyped, NEW t, NEW state \in Result \cup {"ROUTING"}, NEW old \in BOOLEAN,
           task' = [task EXCEPT ![t].state = state, ![t].old = old]
    PROVE  TasksTyped'
<1>1. CASE t \in DOMAIN task
  <2>1. task[t] \in TaskRow
    BY <1>1 DEF TasksTyped
  <2>2. PICK row \in TaskRow : row = [task[t] EXCEPT !.state = state, !.old = old]
    BY <2>1, TaskRowTyped
  <2>3. task' = [task EXCEPT ![t] = row]
    BY <1>1, <2>2
  <2> QED BY <2>3, OneTask
<1>2. CASE t \notin DOMAIN task
  <2>1. DOMAIN task' = DOMAIN task /\ \A u \in DOMAIN task : task'[u] = task[u]
    BY <1>2
  <2> QED BY <2>1 DEF TasksTyped
<1> QED BY <1>1, <1>2

LEMMA SessionOpened ==
    ASSUME SessionsTyped, NEW s, NEW state \in {"OPEN", "DISABLED"},
           \/ session' = [session EXCEPT ![s].state = state, ![s].fresh = TRUE]
           \/ session' = [session EXCEPT ![s].fresh = TRUE, ![s].state = state]
    PROVE  SessionsTyped'
<1>1. CASE s \in DOMAIN session
  <2>1. session[s] \in SessionRow
    BY <1>1 DEF SessionsTyped
  <2>2. PICK row \in SessionRow : row = [session[s] EXCEPT !.state = state, !.fresh = TRUE]
    BY <2>1, SessionRowTyped
  <2>3. row = [session[s] EXCEPT !.fresh = TRUE, !.state = state]
    BY <2>1, <2>2 DEF SessionRow
  <2>4. CASE session' = [session EXCEPT ![s].state = state, ![s].fresh = TRUE]
    <3>1. session' = [session EXCEPT ![s] = row]
      BY <1>1, <2>2, <2>4
    <3> QED BY <3>1, OneSession
  <2>5. CASE session' = [session EXCEPT ![s].fresh = TRUE, ![s].state = state]
    <3>1. session' = [session EXCEPT ![s] = row]
      BY <1>1, <2>3, <2>5
    <3> QED BY <3>1, OneSession
  <2> QED BY <2>4, <2>5
<1>2. CASE s \notin DOMAIN session
  <2>1. DOMAIN session' = DOMAIN session /\ \A u \in DOMAIN session : session'[u] = session[u]
    BY <1>2
  <2> QED BY <2>1 DEF SessionsTyped
<1> QED BY <1>1, <1>2

\* The writes that are due.
LEMMA PerformTyped ==
    ASSUME Calls, TypeOK, NEW p \in Proc, Perform(p)
    PROVE  TypeOK'
<1>1. TasksTyped /\ SessionsTyped /\ ReservedTyped /\ W!TypeOK
  BY Tables
<1>2. Step(p) \in Write
  BY DEF Perform, PerformTask, PerformUnreserve, PerformUnclaim, PerformRenew,
         PerformHold, Due, Calls, Owing, Step
<1>3. PICK t, to : t = Step(p).id /\ to = Step(p).to
  OBVIOUS
<1>4. t \in Task /\ (Step(p).op = "task" => to \in Result)
      /\ (Step(p).op = "unclaim" => to \in Outcome)
  BY <1>2, <1>3 DEF Write
<1>5. CASE PerformTask(p)
  <2>1. /\ task' = [task EXCEPT ![t].state = to, ![t].old = FALSE]
        /\ UNCHANGED <<session, reserved, claims>> /\ to \in Result \cup {"ROUTING"}
    BY <1>3, <1>4, <1>5 DEF PerformTask, Due, Step
  <2>2. TasksTyped'
    BY <1>1, <2>1, StateWritten
  <2> QED BY <1>1, <2>1, <2>2, SameTables, Tables
<1>6. CASE PerformUnreserve(p) \/ PerformRenew(p)
  <2>1. /\ UNCHANGED <<task, session, claims>>
        /\ \/ reserved' = Without(reserved, t)
           \/ reserved' = reserved
           \/ t \in DOMAIN reserved /\ reserved' = [reserved EXCEPT ![t].fresh = TRUE]
    BY <1>3, <1>6 DEF PerformUnreserve, PerformRenew
  <2>2. ReservedTyped'
    <3>1. CASE reserved' = Without(reserved, t)
      BY <1>1, <3>1 DEF ReservedTyped, Without
    <3>2. CASE reserved' = reserved
      BY <1>1, <3>2 DEF ReservedTyped
    <3>3. CASE t \in DOMAIN reserved /\ reserved' = [reserved EXCEPT ![t].fresh = TRUE]
      <4>1. PICK row : row = [reserved[t] EXCEPT !.fresh = TRUE]
        OBVIOUS
      <4>2. row \in Reservation
        BY <1>1, <3>3, <4>1 DEF ReservedTyped, Reservation
      <4>3. reserved' = [reserved EXCEPT ![t] = row]
        BY <3>3, <4>1
      <4> QED BY <1>1, <4>2, <4>3 DEF ReservedTyped
    <3> QED BY <2>1, <3>1, <3>2, <3>3
  <2> QED BY <1>1, <2>1, <2>2, SameTables, Tables
<1>7. CASE PerformUnclaim(p) \/ PerformHold(p)
  <2>1. UNCHANGED <<task, session, reserved>>
    BY <1>7 DEF PerformUnclaim, PerformHold
  <2>2. W!TypeOK'
    <3>1. CASE PerformUnclaim(p)
      BY <1>1, <1>3, <1>4, <3>1, LeaseTyped, SameTables DEF PerformUnclaim, Due, Step
    <3>2. CASE PerformHold(p)
      <4>1. "DONE" \in Outcome
        BY DEF Outcome
      <4> QED BY <1>1, <1>3, <1>4, <3>2, <4>1, LeaseTyped DEF PerformHold
    <3> QED BY <1>7, <3>1, <3>2
  <2> QED BY <1>1, <2>1, <2>2, SameTables, Tables
<1> QED BY <1>5, <1>6, <1>7 DEF Perform

\* Commands, and what happens to a session from outside.
LEMMA SessionTyped ==
    ASSUME TypeOK, NEW s \in Session,
           \/ DiscoverSession(s) \/ Lapse(s)
           \/ \E p \in Agent : AgentOf[p] = s /\ (RegisterSession(p) \/ Pulse(p))
    PROVE  TypeOK'
<1>1. TasksTyped /\ SessionsTyped /\ ReservedTyped /\ W!TypeOK
  BY Tables
<1>2. UNCHANGED <<task, reserved, claims>>
  BY DEF DiscoverSession, Lapse, RegisterSession, Pulse
<1> SUFFICES SessionsTyped'
  BY <1>1, <1>2, SameTables, Tables
<1>3. ASSUME NEW row \in SessionRow, session' = With(session, s, row) PROVE SessionsTyped'
  BY <1>1, <1>3 DEF SessionsTyped, With
<1>4. ASSUME NEW row \in SessionRow, Registered(s), session' = [session EXCEPT ![s] = row]
      PROVE  SessionsTyped'
  BY <1>1, <1>4, OneSession
<1>5. Registered(s) => session[s] \in SessionRow
  BY <1>1 DEF Registered, SessionsTyped
<1>6. CASE DiscoverSession(s)
  <2>1. CASE Registered(s)
    <3>1. session[s].hand \in BOOLEAN
      BY <1>5, <2>1 DEF SessionRow
    <3>2. PICK row \in SessionRow :
             row = [session[s] EXCEPT !.fresh = TRUE, !.accepts = session[s].accepts /\ session[s].hand]
      BY <1>5, <2>1, <3>1, SessionRowTyped
    <3>3. row = [session[s] EXCEPT !.fresh = TRUE, !.accepts = @ /\ session[s].hand]
      BY <1>5, <2>1, <3>2 DEF SessionRow
    <3>4. session' = With(session, s, row)
      BY <1>6, <2>1, <3>3 DEF DiscoverSession
    <3> QED BY <1>3, <3>4
  <2>2. CASE ~Registered(s)
    <3>1. [state |-> "OPEN", accepts |-> FALSE, hand |-> FALSE, fresh |-> TRUE] \in SessionRow
      BY DEF SessionRow
    <3> QED BY <1>3, <1>6, <2>2, <3>1 DEF DiscoverSession
  <2> QED BY <2>1, <2>2
<1>7. CASE Lapse(s)
  BY <1>4, <1>5, <1>7, SessionRowTyped DEF Lapse
<1>8. ASSUME NEW p \in Agent, AgentOf[p] = s, RegisterSession(p) PROVE SessionsTyped'
  <2>1. [state |-> "OPEN", accepts |-> TRUE, hand |-> TRUE, fresh |-> TRUE] \in SessionRow
    BY DEF SessionRow
  <2> QED BY <1>3, <1>8, <2>1 DEF RegisterSession
<1>9. ASSUME NEW p \in Agent, AgentOf[p] = s, Pulse(p) PROVE SessionsTyped'
  <2>1. Registered(s)
    BY <1>9 DEF Pulse
  <2>2. CASE session' = [session EXCEPT ![s].fresh = TRUE]
    <3>1. PICK row \in SessionRow : row = [session[s] EXCEPT !.fresh = TRUE]
      BY <1>5, <2>1, SessionRowTyped
    <3>2. session' = [session EXCEPT ![s] = row]
      BY <2>2, <3>1
    <3> QED BY <1>4, <2>1, <3>2
  <2>3. CASE session' = [session EXCEPT ![s].fresh = TRUE, ![s].state = "DISABLED"]
    BY <1>1, <2>3, SessionOpened
  <2> QED BY <1>9, <2>2, <2>3 DEF Pulse
<1> QED BY <1>6, <1>7, <1>8, <1>9

LEMMA CloseTyped ==
    ASSUME TypeOK, NEW p \in Agent, CloseSession(p)
    PROVE  TypeOK'
<1> DEFINE s == AgentOf[p]
           mine == AssignedTo(s)
<1>1. TasksTyped /\ SessionsTyped /\ ReservedTyped /\ W!TypeOK
  BY Tables
<1>2. /\ task' = [t \in DOMAIN task |->
              IF t \in mine
              THEN [task[t] EXCEPT !.state = "RETRYABLE", !.session = NoSession, !.old = FALSE]
              ELSE task[t]]
      /\ session' = [session EXCEPT ![s] = [@ EXCEPT
              !.state = "CLOSED", !.accepts = FALSE, !.fresh = FALSE]]
      /\ s \in DOMAIN session
      /\ UNCHANGED <<reserved, claims>>
  BY DEF CloseSession, Registered
<1>3. TasksTyped'
  <2>1. "RETRYABLE" \in Result
    BY DEF Result, SCHEDULABLE
  <2>2. ASSUME NEW t \in DOMAIN task
        PROVE  [task[t] EXCEPT !.state = "RETRYABLE", !.session = NoSession, !.old = FALSE] \in TaskRow
    <3>1. task[t] \in TaskRow
      BY <1>1 DEF TasksTyped
    <3> QED BY <2>1, <3>1, TaskRowTyped
  <2> HIDE DEF mine
  <2> QED BY <1>1, <1>2, <2>2 DEF TasksTyped
<1>4. SessionsTyped'
  <2>1. session[s] \in SessionRow
    BY <1>1, <1>2 DEF SessionsTyped
  <2>2. PICK row \in SessionRow :
           row = [session[s] EXCEPT !.state = "CLOSED", !.accepts = FALSE, !.fresh = FALSE]
    BY <2>1, SessionRowTyped
  <2>3. session' = [session EXCEPT ![s] = row]
    BY <1>2, <2>2
  <2> HIDE DEF s
  <2> QED BY <1>1, <2>3, OneSession
<1> QED BY <1>1, <1>2, <1>3, <1>4, SameTables, Tables

LEMMA Untouched ==
    ASSUME TypeOK, UNCHANGED tables
    PROVE  TypeOK'
BY SameTables, Tables DEF tables

\* The steps of a pull that write.
LEMMA PullTyped ==
    ASSUME TypeOK, AgentsCall, Calls, NEW p \in Proc,
           \/ AcquireDispatchLease(p) \/ RouteAndReserve(p) \/ ClaimWorkspace(p)
           \/ AssignTask(p)
    PROVE  TypeOK'
<1>1. TasksTyped /\ SessionsTyped /\ ReservedTyped /\ W!TypeOK
  BY Tables
<1>2. AgentStep(p)
  BY DEF AgentStep
<1>3. PICK s \in Session : s = AgentOf[p]
  BY <1>2, AgentSteps
<1>4. PICK t \in Task : t = proc[p].t
  BY DEF AcquireDispatchLease, RouteAndReserve, ClaimWorkspace, AssignTask, At, Calls, Owing,
         Pulling
<1>5. CASE AcquireDispatchLease(p)
  <2>1. /\ \/ \E old \in BOOLEAN :
                 task' = [task EXCEPT ![t].state = "ROUTING", ![t].old = old]
           \/ UNCHANGED task
        /\ UNCHANGED <<session, reserved, claims>>
    BY <1>4, <1>5 DEF AcquireDispatchLease, Stamp
  <2>2. TasksTyped'
    BY <1>1, <2>1, StateWritten, SameTables
  <2> QED BY <1>1, <2>1, <2>2, SameTables, Tables
<1>6. CASE RouteAndReserve(p)
  <2>1. PICK kept : kept = [u \in Unexpired |-> reserved[u]]
    OBVIOUS
  <2>2. /\ \/ reserved' = kept
           \/ reserved' = With(kept, t, [worker |-> WorkerOf[s], fresh |-> TRUE])
        /\ UNCHANGED <<task, session, claims>>
    BY <1>3, <1>4, <1>6, <2>1 DEF RouteAndReserve
  <2>3. DOMAIN kept \subseteq Task /\ kept \in [DOMAIN kept -> Reservation]
    BY <1>1, <2>1 DEF ReservedTyped, Unexpired
  <2>4. PICK row \in Reservation : row = [worker |-> WorkerOf[s], fresh |-> TRUE]
    BY SessionsAssumption DEF Reservation
  <2>5. ReservedTyped'
    BY <2>2, <2>3, <2>4 DEF ReservedTyped, With
  <2> QED BY <1>1, <2>2, <2>5, SameTables, Tables
<1>7. CASE ClaimWorkspace(p)
  <2>1. PICK req : req = Request(t, s)
    OBVIOUS
  <2>2. /\ \/ UNCHANGED claims
           \/ W!ClaimRefused(t, req, 0) \/ W!ClaimRenewed(t, req, 0)
           \/ W!ClaimQueued(t, req, 0) \/ W!ClaimGranted(t, req, 0)
        /\ UNCHANGED <<task, session, reserved>>
    BY <1>3, <1>4, <1>7, <2>1 DEF ClaimWorkspace, Granted
  <2>3. W!TypeOK'
    BY <1>1, <2>1, <2>2, ClaimTyped, SameTables
  <2> QED BY <1>1, <2>2, <2>3, SameTables, Tables
<1>8. CASE AssignTask(p)
  <2>1. /\ task' = [task EXCEPT ![t] = [task[t] EXCEPT !.state = "ASSIGNED",
              !.session = s, !.attempts = task[t].attempts + 1, !.old = FALSE]]
        /\ session' = [session EXCEPT ![s].state = "OPEN", ![s].fresh = TRUE]
        /\ UNCHANGED <<reserved, claims>>
    BY <1>3, <1>4, <1>8 DEF AssignTask
  <2>2. TasksTyped'
    <3>1. PICK row : row = [task[t] EXCEPT !.state = "ASSIGNED",
              !.session = s, !.attempts = task[t].attempts + 1, !.old = FALSE]
      OBVIOUS
    <3>2. t \in DOMAIN task => task[t] \in TaskRow
      BY <1>1 DEF TasksTyped
    <3>3. t \in DOMAIN task => row \in TaskRow
      BY <3>1, <3>2, TaskRowTyped
    <3>4. task' = [task EXCEPT ![t] = row]
      BY <2>1, <3>1
    <3> QED BY <1>1, <3>3, <3>4, OneTask
  <2>3. SessionsTyped'
    BY <1>1, <2>1, SessionOpened
  <2> QED BY <1>1, <2>1, <2>2, <2>3, SameTables, Tables
<1> QED BY <1>5, <1>6, <1>7, <1>8

\* The steps that take a task away from its session, or out of ROUTING.
LEMMA EndingTyped ==
    ASSUME TypeOK, Calls, NEW p \in Proc,
           RecordCompletion(p) \/ RecoverRouting(p) \/ ExpireAssignment(p)
    PROVE  TypeOK'
<1>1. TasksTyped /\ SessionsTyped /\ ReservedTyped /\ W!TypeOK
  BY Tables
<1>2. ASSUME NEW t, NEW to \in Outcome,
             task' = [task EXCEPT ![t] = [task[t] EXCEPT
                         !.state = to, !.session = NoSession, !.old = FALSE]]
      PROVE  TasksTyped'
  <2>1. PICK row : row = [task[t] EXCEPT !.state = to, !.session = NoSession, !.old = FALSE]
    OBVIOUS
  <2>2. to \in Result
    BY <1>2 DEF Outcome, Result, SCHEDULABLE, TERMINAL
  <2>3. t \in DOMAIN task => task[t] \in TaskRow
    BY <1>1 DEF TasksTyped
  <2>4. t \in DOMAIN task => row \in TaskRow
    BY <2>1, <2>2, <2>3, TaskRowTyped
  <2>5. task' = [task EXCEPT ![t] = row]
    BY <1>2, <2>1
  <2> QED BY <1>1, <2>4, <2>5, OneTask
<1>3. CASE RecordCompletion(p)
  <2>1. PICK t, to, s : t = proc[p].t /\ to = proc[p].to /\ s = AgentOf[p]
    OBVIOUS
  <2>2. to \in Outcome
    BY <1>3, <2>1 DEF RecordCompletion, At, Calls, Owing
  <2>3. /\ \/ /\ task' = [task EXCEPT ![t] = [task[t] EXCEPT
                    !.state = to, !.session = NoSession, !.old = FALSE]]
              /\ session' = [session EXCEPT ![s].state = "OPEN", ![s].fresh = TRUE]
           \/ UNCHANGED <<task, session>>
        /\ UNCHANGED <<reserved, claims>>
    BY <1>3, <2>1 DEF RecordCompletion
  <2>4. TasksTyped'
    BY <1>1, <1>2, <2>2, <2>3, SameTables
  <2>5. SessionsTyped'
    BY <1>1, <2>3, SessionOpened, SameTables
  <2> QED BY <1>1, <2>3, <2>4, <2>5, SameTables, Tables
<1>4. CASE RecoverRouting(p)
  <2>1. PICK t \in proc[p].left :
           \/ task' = [task EXCEPT ![t].state = "RETRYABLE", ![t].old = FALSE]
           \/ UNCHANGED task
    BY <1>4 DEF RecoverRouting
  <2>2. "RETRYABLE" \in Result
    BY DEF Result, SCHEDULABLE
  <2>3. TasksTyped'
    BY <1>1, <2>1, <2>2, StateWritten, SameTables
  <2> QED BY <1>1, <1>4, <2>3, SameTables, Tables DEF RecoverRouting
<1>5. CASE ExpireAssignment(p)
  <2>1. PICK r \in proc[p].left :
           \/ /\ task' = [task EXCEPT ![r.t] = [task[r.t] EXCEPT
                    !.state = r.to, !.session = NoSession, !.old = FALSE]]
              /\ session' = IF session[r.s].fresh THEN session
                            ELSE [session EXCEPT ![r.s].state = "OPEN"]
           \/ UNCHANGED <<task, session>>
    BY <1>5 DEF ExpireAssignment
  <2>2. r.to \in Outcome
    BY <1>5, <2>1 DEF ExpireAssignment, At, Calls, Owing
  <2>3. TasksTyped'
    BY <1>1, <1>2, <2>1, <2>2, SameTables
  <2>4. SessionsTyped'
    <3>1. CASE UNCHANGED session
      BY <1>1, <3>1, SameTables
    <3>2. CASE session' = [session EXCEPT ![r.s].state = "OPEN"]
      <4>1. PICK row : row = [session[r.s] EXCEPT !.state = "OPEN"]
        OBVIOUS
      <4>2. r.s \in DOMAIN session => session[r.s] \in SessionRow
        BY <1>1 DEF SessionsTyped
      <4>3. r.s \in DOMAIN session => row \in SessionRow
        BY <4>1, <4>2, SessionRowTyped
      <4>4. session' = [session EXCEPT ![r.s] = row]
        BY <3>2, <4>1
      <4> QED BY <1>1, <4>3, <4>4, OneSession
    <3> QED BY <2>1, <3>1, <3>2
  <2>5. UNCHANGED <<reserved, claims>>
    BY <1>5 DEF ExpireAssignment
  <2> QED BY <1>1, <2>3, <2>4, <2>5, SameTables, Tables
<1> QED BY <1>3, <1>4, <1>5

LEMMA EnvironmentTyped ==
    ASSUME TypeOK, Environment
    PROVE  TypeOK'
<1>1. TasksTyped /\ SessionsTyped /\ ReservedTyped /\ W!TypeOK
  BY Tables
<1>2. ASSUME NEW t \in Task, SubmitTask(t) PROVE TypeOK'
  <2>1. PICK row : row = [state |-> "QUEUED", attempts |-> 0, session |-> NoSession, old |-> FALSE]
    OBVIOUS
  <2>2. row \in TaskRow
    BY <2>1 DEF TaskRow, SCHEDULABLE
  <2>3. task' = With(task, t, row) /\ UNCHANGED <<session, reserved, claims>>
    BY <1>2, <2>1 DEF SubmitTask
  <2>4. TasksTyped'
    BY <1>1, <2>2, <2>3 DEF TasksTyped, With
  <2> QED BY <1>1, <2>3, <2>4, SameTables, Tables
<1>3. ASSUME NEW s \in Session, Die(s) PROVE TypeOK'
  BY <1>3, Untouched DEF Die
<1>4. CASE TwoMinutes
  <2>1. /\ task' = [t \in DOMAIN task |->
              [task[t] EXCEPT !.old = @ \/ (task[t].state = "ROUTING" /\ Ages(t))]]
        /\ UNCHANGED <<session, reserved, claims>>
    BY <1>4 DEF TwoMinutes
  <2>2. ASSUME NEW t \in DOMAIN task PROVE task'[t] \in TaskRow
    <3>1. task[t] \in TaskRow
      BY <1>1 DEF TasksTyped
    <3>2. PICK b : b = (task[t].old \/ (task[t].state = "ROUTING" /\ Ages(t)))
      OBVIOUS
    <3>3. b \in BOOLEAN
      <4>1. task[t].old \in BOOLEAN
        BY <3>1 DEF TaskRow
      <4> QED BY <3>2, <4>1
    <3>4. task'[t] = [task[t] EXCEPT !.old = b]
      BY <2>1, <3>2
    <3> QED BY <3>1, <3>3, <3>4, TaskRowTyped
  <2>3. /\ DOMAIN task' = DOMAIN task
        /\ task' = [t \in DOMAIN task' |-> task'[t]]
    BY <2>1
  <2>4. TasksTyped'
    BY <1>1, <2>2, <2>3 DEF TasksTyped
  <2> QED BY <1>1, <2>1, <2>4, SameTables, Tables
<1>5. CASE Outage
  <2>1. SessionsTyped'
    <3>1. session' = [s \in DOMAIN session |-> [session[s] EXCEPT !.fresh = FALSE]]
      BY <1>5 DEF Outage
    <3>2. ASSUME NEW s \in DOMAIN session PROVE [session[s] EXCEPT !.fresh = FALSE] \in SessionRow
      <4>1. session[s] \in SessionRow
        BY <1>1 DEF SessionsTyped
      <4> QED BY <4>1, SessionRowTyped
    <3> QED BY <1>1, <3>1, <3>2 DEF SessionsTyped
  <2>2. ReservedTyped'
    <3>1. reserved' = [t \in DOMAIN reserved |-> [reserved[t] EXCEPT !.fresh = FALSE]]
      BY <1>5 DEF Outage
    <3>2. ASSUME NEW t \in DOMAIN reserved PROVE [reserved[t] EXCEPT !.fresh = FALSE] \in Reservation
      <4>1. reserved[t] \in Reservation
        BY <1>1 DEF ReservedTyped
      <4> QED BY <4>1 DEF Reservation
    <3> QED BY <1>1, <3>1, <3>2 DEF ReservedTyped
  <2>3. W!TypeOK'
    <3>1. claims' = [t \in DOMAIN claims |->
              IF claims[t].state \in W!EXPIRING_STATES THEN [claims[t] EXCEPT !.left = 0]
              ELSE claims[t]]
      BY <1>5 DEF Outage
    <3>2. /\ DOMAIN claims \subseteq Task
          /\ \A t \in DOMAIN claims : claims[t] \in W!Row
      BY <1>1 DEF W!TypeOK
    <3>3. ASSUME NEW t \in DOMAIN claims PROVE claims'[t] \in W!Row
      <4>1. [claims[t] EXCEPT !.left = 0] \in W!Row
        BY <3>2 DEF W!Row
      <4> QED BY <3>1, <3>2, <4>1
    <3>4. DOMAIN claims' = DOMAIN claims /\ claims' = [t \in DOMAIN claims' |-> claims'[t]]
      BY <3>1
    <3> QED BY <1>1, <3>2, <3>3, <3>4 DEF W!TypeOK
  <2> QED BY <1>1, <1>5, <2>1, <2>2, <2>3, SameTables, Tables DEF Outage
<1> QED BY <1>2, <1>3, <1>4, <1>5, SessionTyped DEF Environment

TypeInv == IInv /\ AgentsCall /\ TypeOK

LEMMA InitTyped == Init => TypeInv
<1> SUFFICES ASSUME Init PROVE TypeInv
  OBVIOUS
<1>1. IInv
  BY InitHolds
<1>2. AgentsCall
  <2>1. PICK q : q = Idle
    OBVIOUS
  <2>2. q.pc = "idle"
    BY <2>1 DEF Idle
  <2>3. \A p \in Proc : proc[p] = q
    BY <2>1 DEF Init
  <2> QED BY <2>2, <2>3 DEF AgentsCall
<1>3. TasksTyped
  BY DEF Init, TasksTyped
<1>4. SessionsTyped
  BY DEF Init, SessionsTyped
<1>5. ReservedTyped
  BY DEF Init, ReservedTyped
<1>6. W!TypeOK
  BY DEF Init, W!Init, W!TypeOK
<1> QED BY <1>1, <1>2, <1>3, <1>4, <1>5, <1>6, Tables DEF TypeInv

LEMMA NextTyped == TypeInv /\ [Next]_vars => TypeInv'
<1> SUFFICES ASSUME TypeInv, [Next]_vars PROVE TypeInv'
  OBVIOUS
<1>1. IInv /\ Rows /\ Calls /\ AgentsCall /\ TypeOK
  BY DEF TypeInv, IInv
<1>2. IInv' /\ AgentsCall'
  BY <1>1, NextKeeps, CallersKept
<1> SUFFICES TypeOK'
  BY <1>2 DEF TypeInv
<1>3. ASSUME NEW p \in Proc, AgentStep(p) PROVE TypeOK'
  <2>1. CASE \/ AcquireDispatchLease(p) \/ RouteAndReserve(p) \/ ClaimWorkspace(p)
             \/ AssignTask(p)
    BY <1>1, <2>1, PullTyped
  <2>2. CASE RecordCompletion(p)
    BY <1>1, <2>2, EndingTyped
  <2>3. CASE \/ CountAssigned(p) \/ ListCandidates(p) \/ NextCandidate(p) \/ EndPull(p)
             \/ CheckDependencies(p) \/ WorkspaceFails(p) \/ LoseAssignment(p)
             \/ ListRenewals(p) \/ Each(p) \/ EndEach(p)
    BY <1>1, <2>3, Untouched
       DEF CountAssigned, ListCandidates, NextCandidate, EndPull, CheckDependencies,
           WorkspaceFails, LoseAssignment, ListRenewals, Each, EndEach, ReadOnly
  <2> QED BY <1>3, <2>1, <2>2, <2>3 DEF AgentStep
<1>4. ASSUME NEW p \in Proc, TickStep(p) PROVE TypeOK'
  <2>1. CASE RecoverRouting(p) \/ ExpireAssignment(p)
    BY <1>1, <2>1, EndingTyped
  <2>2. CASE StartTick(p) \/ ListLostAssignments(p) \/ EndTick(p)
    BY <1>1, <2>2, Untouched DEF StartTick, ListLostAssignments, EndTick, ReadOnly
  <2> QED BY <1>4, <2>1, <2>2 DEF TickStep
<1>5. ASSUME NEW p \in Proc, AgentCommand(p) PROVE TypeOK'
  <2>1. p \in Agent /\ AgentOf[p] \in Session
    BY <1>5, SessionsAssumption DEF AgentCommand
  <2>2. CASE RegisterSession(p) \/ Pulse(p)
    BY <1>1, <2>1, <2>2, SessionTyped
  <2>3. CASE CloseSession(p)
    BY <1>1, <2>1, <2>3, CloseTyped
  <2>4. CASE BeginPull(p) \/ BeginComplete(p)
    BY <1>1, <2>4, Untouched DEF BeginPull, BeginComplete, ReadOnly
  <2> QED BY <1>5, <2>2, <2>3, <2>4 DEF AgentCommand
<1>6. ASSUME NEW p \in Proc, Crash(p) PROVE TypeOK'
  BY <1>1, <1>6, Untouched DEF Crash
<1>7. CASE UNCHANGED vars
  BY <1>1, <1>7, Untouched DEF vars, tables
<1> QED BY <1>1, <1>3, <1>4, <1>5, <1>6, <1>7, PerformTyped, EnvironmentTyped DEF Next, Run

\* Type correctness: whatever fails, and however calls overlap, every row of
\* the four tables has a state the code knows, a task is given to a session that
\* exists, a reservation is of a worker, and a claim is released with an outcome
\* that WorkspaceClaims.release accepts.
THEOREM TypeCorrect == Spec => []TypeOK
<1>1. TypeInv => TypeOK
  BY DEF TypeInv
<1> QED BY InitTyped, NextTyped, <1>1, PTL DEF Spec

-----------------------------------------------------------------------------
(* What is over stays over                                                   *)

\* No call or tick lasts two minutes, and no task is submitted before one that
\* it depends on.
Orderly == "stall" \notin Faults /\ "early" \notin Faults

\* The writes of one round of a loop: of one task, and none to its state.
Loose(steps) == \A e \in Range(steps) : e.op # "task" /\ e.id = steps[1].id

Clear(t) == \A d \in DependsOn[t] : StateIs(d, {"DONE"})

Doomed(t) == \E d \in DependsOn[t] : StateIs(d, {"FAILED", "BLOCKED"})

\* The call has found t waiting for a task that has failed ...
Blocking(r) == r.pc = "pull" /\ \E e \in Range(r.todo) : e.op = "task" /\ e.to = "BLOCKED"

\* ... or has t in ROUTING, and nobody else has.
Holder(r) ==
    \/ r.pc \in {"route", "claim", "assign"}
    \/ \E e \in Range(r.todo) : e.op = "task" /\ ~(r.pc = "pull" /\ e.to = "BLOCKED")

\* What is owed is owed for the task at hand, the write of its state comes last.
Todo(steps, t) ==
    /\ \A e \in Range(steps) : e.id = t
    /\ \A i \in 1..(Len(steps) - 1) : steps[i].op # "task"

Shape(r) ==
    /\ r.pc \notin Loops => r.todo = <<>>
    /\ Todo(r.todo, r.t)
    /\ r.pc \in {"each", "recover", "expire"} => \A e \in Range(r.todo) : e.op # "task"
    /\ r.pc = "each" => \A steps \in r.left : Loose(steps)

Sound(r) ==
    /\ r.pc \in Pulling \cup {"pull", "recover"} => r.left \subseteq DOMAIN task
    /\ r.pc \in Pulling => Known(r.t)
    /\ r.pc = "acquire" => Clear(r.t)
    /\ Blocking(r) => Doomed(r.t)
    /\ Holder(r) => StateIs(r.t, {"ROUTING"}) /\ ~task[r.t].old

OneHolder ==
    \A p, q \in Proc :
        Holder(proc[p]) /\ Holder(proc[q]) /\ proc[p].t = proc[q].t => p = q

Begun == {"ROUTING", "ASSIGNED", "DONE", "FAILED"}

InOrder ==
    \A t \in DOMAIN task :
        /\ DependsOn[t] \subseteq DOMAIN task
        /\ task[t].state \in Begun => Clear(t)

PullInv ==
    /\ \A p \in Proc : Shape(proc[p]) /\ Sound(proc[p])
    /\ OneHolder
    /\ InOrder

\* The step loses no task, and none that is over.
Final ==
    /\ DOMAIN task \subseteq DOMAIN task'
    /\ \A t \in DOMAIN task : task[t].state \in TERMINAL => task'[t].state = task[t].state

LEMMA FinalKeeps ==
    ASSUME Final
    PROVE  /\ \A t : Known(t) => Known(t)'
           /\ \A t : Clear(t) => Clear(t)'
           /\ \A t : Doomed(t) => Doomed(t)'
<1>1. \A t : StateIs(t, {"DONE"}) => StateIs(t, {"DONE"})'
  BY DEF Final, StateIs, Known, TERMINAL
<1>2. \A t : StateIs(t, {"FAILED", "BLOCKED"}) => StateIs(t, {"FAILED", "BLOCKED"})'
  BY DEF Final, StateIs, Known, TERMINAL
<1> QED BY <1>1, <1>2 DEF Final, Known, Clear, Doomed

\* A task that waits in vain has not begun.
LEMMA DoomedNotBegun ==
    ASSUME InOrder, NEW t \in DOMAIN task, Doomed(t)
    PROVE  task[t].state \notin Begun
BY DEF InOrder, Doomed, Clear, StateIs

\* p takes the step: what it has to show for the others.
LEMMA PullStep ==
    ASSUME PullInv, NEW p \in Proc, Alone(p), Final, Shape(proc[p])', Sound(proc[p])', InOrder',
           Holder(proc[p])' => \/ Holder(proc[p]) /\ proc'[p].t = proc[p].t
                               \/ ~StateIs(proc'[p].t, {"ROUTING"}),
           \A t \in DOMAIN task :
              task[t].state = "ROUTING" /\ ~task[t].old =>
                  \/ task'[t].state = "ROUTING" /\ ~task'[t].old
                  \/ Holder(proc[p]) /\ proc[p].t = t
    PROVE  PullInv' /\ Final
<1>1. ASSUME NEW q \in Proc \ {p} PROVE Shape(proc[q])' /\ Sound(proc[q])'
  <2>1. proc'[q] = proc[q] /\ Shape(proc[q]) /\ Sound(proc[q])
    BY DEF Alone, PullInv
  <2>2. Holder(proc[q]) => StateIs(proc[q].t, {"ROUTING"})' /\ ~task'[proc[q].t].old
    BY <2>1 DEF PullInv, OneHolder, Sound, StateIs, Known, Final
  <2>3. PICK r : r = proc[q]
    OBVIOUS
  <2>4. /\ r.pc \in Pulling \cup {"pull", "recover"} => r.left \subseteq DOMAIN task'
        /\ r.pc \in Pulling => Known(r.t)'
        /\ r.pc = "acquire" => Clear(r.t)'
        /\ Blocking(r) => Doomed(r.t)'
    BY <2>1, <2>3, FinalKeeps DEF Sound, Final
  <2>5. Shape(proc[q])' /\ (Blocking(proc[q]) <=> Blocking(proc[q])')
        /\ (Holder(proc[q]) <=> Holder(proc[q])')
    BY <2>1 DEF Shape, Todo, Loose, Blocking, Holder
  <2> QED BY <2>1, <2>2, <2>3, <2>4, <2>5 DEF Sound
<1>2. OneHolder'
  <2> SUFFICES ASSUME NEW a \in Proc, NEW b \in Proc,
                      Holder(proc[a])', Holder(proc[b])', proc'[a].t = proc'[b].t
               PROVE  a = b
    BY DEF OneHolder
  <2>1. \A q \in Proc \ {p} : Holder(proc[q])' =>
            Holder(proc[q]) /\ proc'[q].t = proc[q].t /\ StateIs(proc[q].t, {"ROUTING"})
    BY DEF Alone, Holder, PullInv, Sound
  <2>2. CASE a # p /\ b # p
    BY <2>1, <2>2 DEF PullInv, OneHolder
  <2>3. ASSUME NEW q \in Proc \ {p}, Holder(proc[q])', Holder(proc[p])', proc'[q].t = proc'[p].t
        PROVE  FALSE
    BY <2>1, <2>3 DEF PullInv, OneHolder
  <2> QED BY <2>2, <2>3
<1> QED BY <1>1, <1>2 DEF PullInv

\* A step that leaves the tasks alone.
LEMMA PullRead ==
    ASSUME PullInv, NEW p \in Proc, Alone(p), UNCHANGED task,
           Shape(proc[p])', Sound(proc[p])',
           Holder(proc[p])' => Holder(proc[p]) /\ proc'[p].t = proc[p].t
    PROVE  PullInv' /\ Final
<1>1. Final
  BY DEF Final
<1>2. InOrder'
  BY DEF PullInv, InOrder, Clear, StateIs, Known
<1> QED BY <1>1, <1>2, PullStep

\* A call that has nothing at hand and nothing to write.
LEMMA AtRest ==
    ASSUME NEW p \in Proc, proc'[p].todo = <<>>, proc'[p].pc \notin Pulling \cup {"pull", "each", "recover"}
    PROVE  Shape(proc[p])' /\ Sound(proc[p])' /\ ~Holder(proc[p])'
<1>1. Range(<<>>) = {} /\ Len(<<>>) = 0
  BY DEF Range
<1>2. Range(proc'[p].todo) = {} /\ Len(proc'[p].todo) = 0
  BY <1>1
<1> QED BY <1>2 DEF Shape, Sound, Todo, Holder, Blocking, Pulling

\* What the calls owe, write by write.
LEMMA OneOwed ==
    ASSUME NEW t, NEW state
    PROVE  /\ Range(<<Set(t, state)>>) = {Set(t, state)}
           /\ Todo(<<Set(t, state)>>, t)
<1>1. PICK w : w = Set(t, state)
  OBVIOUS
<1>2. w.id = t
  BY <1>1 DEF Set
<1>3. Range(<<w>>) = {w} /\ Len(<<w>>) = 1
  BY DEF Range
<1> QED BY <1>1, <1>2, <1>3 DEF Todo

LEMMA TwoOwed ==
    ASSUME NEW v, NEW w, NEW t, v.id = t, w.id = t, v.op # "task"
    PROVE  Range(<<v, w>>) = {v, w} /\ Todo(<<v, w>>, t)
<1>1. Range(<<v, w>>) = {v, w} /\ Len(<<v, w>>) = 2
  BY DEF Range
<1>2. <<v, w>>[1] = v
  OBVIOUS
<1> QED BY <1>1, <1>2 DEF Todo

LEMMA ThreeOwed ==
    ASSUME NEW v, NEW w, NEW x, NEW t, v.id = t, w.id = t, x.id = t,
           v.op # "task", w.op # "task"
    PROVE  /\ Range(<<v, w>> \o <<x>>) = {v, w, x}
           /\ Todo(<<v, w>> \o <<x>>, t)
<1>1. PICK S : S = {v, w, x}
  OBVIOUS
<1>2. <<v, w>> \in Seq(S) /\ <<x>> \in Seq(S)
  BY <1>1
<1>3. PICK a \in Seq(S), b \in Seq(S) : a = <<v, w>> /\ b = <<x>>
  BY <1>2
<1>4. Len(a) = 2 /\ Len(b) = 1 /\ a[1] = v /\ a[2] = w /\ b[1] = x
  BY <1>3
<1>5. PICK m \in Nat, n \in Nat : m = Len(a) /\ n = Len(b)
  OBVIOUS
<1>6. PICK s : s = a \o b
  OBVIOUS
<1>7. /\ DOMAIN s = 1..(m + n) /\ Len(s) = m + n
      /\ \A i \in 1..m : s[i] = a[i]
      /\ \A i \in (m + 1)..(m + n) : s[i] = b[i - m]
  BY <1>5, <1>6
<1>8. m = 2 /\ n = 1
  BY <1>4, <1>5
<1>9. DOMAIN s = 1..3 /\ Len(s) = 3 /\ s[1] = v /\ s[2] = w /\ s[3] = x
  BY <1>4, <1>7, <1>8
<1>10. Range(s) = {v, w, x}
  BY <1>9 DEF Range
<1>11. Todo(s, t)
  BY <1>9, <1>10 DEF Todo
<1> QED BY <1>3, <1>6, <1>10, <1>11

LEMMA Owed ==
    ASSUME NEW t, NEW outcome
    PROVE  /\ Range(Release(t, outcome)) = {Unreserve(t), Unclaim(t, outcome)}
           /\ Todo(Release(t, outcome), t) /\ Loose(Release(t, outcome))
           /\ Range(<<Renew(t), Hold(t)>>) = {Renew(t), Hold(t)}
           /\ Loose(<<Renew(t), Hold(t)>>)
           /\ Range(<<Unclaim(t, outcome), Unreserve(t)>>) = {Unreserve(t), Unclaim(t, outcome)}
           /\ Todo(<<Unclaim(t, outcome), Unreserve(t)>>, t)
<1>1. PICK u, c, r, h : u = Unreserve(t) /\ c = Unclaim(t, outcome) /\ r = Renew(t) /\ h = Hold(t)
  OBVIOUS
<1>2. /\ u.id = t /\ u.op = "unreserve" /\ c.id = t /\ c.op = "unclaim"
      /\ r.id = t /\ r.op = "renew" /\ h.id = t /\ h.op = "hold"
  BY <1>1 DEF Unreserve, Unclaim, Renew, Hold
<1>3. /\ Range(<<u, c>>) = {u, c} /\ Todo(<<u, c>>, t)
      /\ Range(<<r, h>>) = {r, h}
      /\ Range(<<c, u>>) = {c, u} /\ Todo(<<c, u>>, t)
  BY <1>2, TwoOwed
<1>4. <<u, c>>[1] = u /\ <<r, h>>[1] = r
  OBVIOUS
<1>5. Loose(<<u, c>>) /\ Loose(<<r, h>>)
  BY <1>2, <1>3, <1>4 DEF Loose
<1> QED BY <1>1, <1>3, <1>5 DEF Release

\* A write is done: the rest is owed for the same task.
LEMMA TailOwed ==
    ASSUME NEW steps \in Seq(Write), steps # <<>>, NEW t, Todo(steps, t)
    PROVE  /\ Head(steps) \in Range(steps)
           /\ Head(steps).id = t
           /\ Range(Tail(steps)) \subseteq Range(steps)
           /\ Range(steps) = {Head(steps)} \cup Range(Tail(steps))
           /\ Todo(Tail(steps), t)
           /\ Head(steps).op = "task" => Tail(steps) = <<>>
<1>1. /\ Len(steps) \in Nat /\ Len(steps) >= 1 /\ Head(steps) = steps[1]
      /\ DOMAIN steps = 1..Len(steps)
      /\ DOMAIN Tail(steps) = 1..(Len(steps) - 1) /\ Len(Tail(steps)) = Len(steps) - 1
      /\ \A i \in 1..(Len(steps) - 1) : Tail(steps)[i] = steps[i + 1]
  OBVIOUS
<1>2. Head(steps) \in Range(steps)
  BY <1>1 DEF Range
<1>3. Range(Tail(steps)) \subseteq Range(steps)
  BY <1>1 DEF Range
<1>4. Range(steps) \subseteq {Head(steps)} \cup Range(Tail(steps))
  <2> SUFFICES ASSUME NEW i \in 1..Len(steps), i # 1 PROVE steps[i] \in Range(Tail(steps))
    BY <1>1 DEF Range
  <2>1. i - 1 \in 1..(Len(steps) - 1) /\ (i - 1) + 1 = i
    BY <1>1
  <2> QED BY <1>1, <2>1 DEF Range
<1>5. Todo(Tail(steps), t)
  <2>1. \A e \in Range(Tail(steps)) : e.id = t
    BY <1>3 DEF Todo
  <2>2. \A i \in 1..(Len(Tail(steps)) - 1) : Tail(steps)[i].op # "task"
    BY <1>1 DEF Todo
  <2> QED BY <2>1, <2>2 DEF Todo
<1>6. Head(steps).op = "task" => Tail(steps) = <<>>
  <2>1. ASSUME Len(steps) - 1 >= 1 PROVE Head(steps).op # "task"
    BY <1>1, <2>1 DEF Todo
  <2>2. Len(steps) = 1 => Tail(steps) = <<>>
    BY <1>1
  <2> QED BY <1>1, <2>1, <2>2
<1> QED BY <1>2, <1>3, <1>4, <1>5, <1>6 DEF Todo

\* Nothing that has begun without its dependencies.
LEMMA StillInOrder ==
    ASSUME InOrder, Final, DOMAIN task' = DOMAIN task,
           \A t \in DOMAIN task : task'[t].state \in Begun => task[t].state \in Begun \/ Clear(t)
    PROVE  InOrder'
BY FinalKeeps DEF InOrder

\* The writes that are due.
LEMMA PerformPull ==
    ASSUME Rows, Calls, PullInv, NEW p \in Proc, Perform(p)
    PROVE  PullInv' /\ Final
<1>1. proc[p].todo # <<>> /\ Pop(p)
  BY DEF Perform, PerformTask, PerformUnreserve, PerformUnclaim, PerformRenew,
         PerformHold, Due
<1>20. PICK todo \in Seq(Write) : todo = proc[p].todo
  BY DEF Calls, Owing
<1>21. PICK t : t = proc[p].t
  OBVIOUS
<1>2. todo = proc[p].todo /\ t = proc[p].t
  BY <1>20, <1>21
<1>3. /\ proc[p].pc \in Loops /\ Todo(todo, t)
      /\ proc[p].pc \in {"each", "recover", "expire"} => \A e \in Range(todo) : e.op # "task"
      /\ proc[p].pc = "each" => \A steps \in proc[p].left : Loose(steps)
  BY <1>1, <1>2 DEF PullInv, Shape
<1>4. PICK rest : rest = Tail(todo)
  OBVIOUS
<1>5. PICK w : w = Head(todo)
  OBVIOUS
<1>6. /\ w \in Range(todo) /\ w.id = t /\ Range(rest) \subseteq Range(todo)
      /\ Todo(rest, t) /\ (w.op = "task" => rest = <<>>)
  BY <1>1, <1>2, <1>3, <1>4, <1>5, TailOwed
<1>7. /\ proc'[p].pc = proc[p].pc /\ proc'[p].left = proc[p].left /\ proc'[p].todo = rest
      /\ rest # <<>> => proc'[p].t = t
      /\ Alone(p)
  BY <1>1, <1>2, <1>4, PopMoves
<1>8. Range(<<>>) = {} /\ Todo(<<>>, proc'[p].t)
  <2>1. Range(<<>>) = {} /\ Len(<<>>) = 0
    BY DEF Range
  <2> QED BY <2>1 DEF Todo
<1>9. Shape(proc[p])'
  <2>1. Todo(rest, proc'[p].t)
    BY <1>6, <1>7, <1>8
  <2> QED BY <1>3, <1>6, <1>7, <2>1 DEF Shape, Todo, Loose
<1>10. /\ Holder(proc[p])' => Holder(proc[p]) /\ proc'[p].t = t /\ rest # <<>>
       /\ Blocking(proc[p])' => Blocking(proc[p]) /\ proc'[p].t = t
  BY <1>2, <1>3, <1>6, <1>7, <1>8 DEF Holder, Blocking, Loops
<1>11. Sound(proc[p])
  BY DEF PullInv
<1>12. CASE UNCHANGED task
  <2>1. Sound(proc[p])'
    BY <1>2, <1>3, <1>7, <1>10, <1>11, <1>12
       DEF Sound, StateIs, Known, Doomed, Pulling, Loops
  <2> QED BY <1>2, <1>7, <1>9, <1>10, <1>12, <2>1, PullRead
<1>13. CASE PerformTask(p)
  <2>1. /\ task' = [task EXCEPT ![t].state = w.to, ![t].old = FALSE]
        /\ w.op = "task" /\ rest = <<>>
    BY <1>2, <1>5, <1>6, <1>13 DEF PerformTask, Due, Step
  <2>2. ~Holder(proc[p])' /\ ~Blocking(proc[p])'
    BY <1>7, <1>8, <1>10, <2>1 DEF Blocking
  <2>3. /\ DOMAIN task' = DOMAIN task
        /\ \A u \in DOMAIN task \ {t} : task'[u] = task[u]
        /\ t \in DOMAIN task => task'[t].state = w.to
    BY <2>1 DEF Rows
  <2>4. Sound(proc[p])'
    BY <1>3, <1>7, <1>11, <2>2, <2>3 DEF Sound, Pulling, Loops
  <2>5. \/ Holder(proc[p]) /\ StateIs(t, {"ROUTING"})
        \/ w.to = "BLOCKED" /\ Doomed(t)
    BY <1>2, <1>6, <1>11, <2>1 DEF Holder, Blocking, Sound
  <2>6. ASSUME t \in DOMAIN task
        PROVE  \/ Holder(proc[p]) /\ task[t].state = "ROUTING"
               \/ w.to = "BLOCKED" /\ task[t].state \notin Begun
    BY <2>5, <2>6, DoomedNotBegun DEF StateIs, PullInv
  <2>7. Final
    BY <2>3, <2>6 DEF Final, TERMINAL, Begun
  <2>8. InOrder'
    <3>1. \A u \in DOMAIN task : task'[u].state \in Begun => task[u].state \in Begun
      BY <2>3, <2>6 DEF Begun
    <3> QED BY <2>3, <2>7, <3>1, StillInOrder DEF PullInv
  <2>9. \A u \in DOMAIN task :
           task[u].state = "ROUTING" /\ ~task[u].old =>
               \/ task'[u].state = "ROUTING" /\ ~task'[u].old
               \/ Holder(proc[p]) /\ proc[p].t = u
    BY <1>2, <2>3, <2>6 DEF Begun
  <2> QED BY <1>7, <1>9, <2>2, <2>4, <2>7, <2>8, <2>9, PullStep
<1> QED BY <1>12, <1>13 DEF Perform, PerformUnreserve, PerformUnclaim, PerformRenew, PerformHold

\* Where a call is after a Goto, for the forms in which calls go on.
LEMMA GotoIdle ==
    ASSUME Calls, NEW p \in Proc, NEW pc, Goto(p, pc, Idle)
    PROVE  /\ proc'[p].pc = pc
           /\ proc'[p].t = NoTask /\ proc'[p].left = {} /\ proc'[p].todo = <<>>
           /\ Alone(p)
<1>1. PICK r : r = Idle
  OBVIOUS
<1>2. /\ DOMAIN r = {"pc", "t", "to", "left", "todo"}
      /\ r.t = NoTask /\ r.left = {} /\ r.todo = <<>>
  BY <1>1 DEF Idle
<1>3. proc'[p] = After(p, pc, r) /\ Alone(p)
  BY <1>1, GotoMoves
<1> QED BY <1>2, <1>3 DEF After, Field

LEMMA GotoTask ==
    ASSUME Calls, NEW p \in Proc, NEW pc, NEW t,
           Goto(p, pc, [t |-> t])
    PROVE  /\ proc'[p].pc = pc
           /\ proc'[p].t = t
           /\ proc'[p].left = proc[p].left
           /\ proc'[p].todo = proc[p].todo
           /\ Alone(p)
<1>1. PICK r : r = [t |-> t]
  OBVIOUS
<1>2. proc'[p] = After(p, pc, r) /\ Alone(p)
  BY <1>1, GotoMoves
<1> QED BY <1>1, <1>2 DEF After, Field

LEMMA GotoLeft ==
    ASSUME Calls, NEW p \in Proc, NEW pc, NEW left,
           Goto(p, pc, [left |-> left])
    PROVE  /\ proc'[p].pc = pc
           /\ proc'[p].t = proc[p].t
           /\ proc'[p].left = left
           /\ proc'[p].todo = proc[p].todo
           /\ Alone(p)
<1>1. PICK r : r = [left |-> left]
  OBVIOUS
<1>2. proc'[p] = After(p, pc, r) /\ Alone(p)
  BY <1>1, GotoMoves
<1> QED BY <1>1, <1>2 DEF After, Field

LEMMA GotoCandidate ==
    ASSUME Calls, NEW p \in Proc, NEW pc, NEW t, NEW left,
           Goto(p, pc, [t |-> t, left |-> left])
    PROVE  /\ proc'[p].pc = pc
           /\ proc'[p].t = t
           /\ proc'[p].left = left
           /\ proc'[p].todo = proc[p].todo
           /\ Alone(p)
<1>1. PICK r : r = [t |-> t, left |-> left]
  OBVIOUS
<1>2. proc'[p] = After(p, pc, r) /\ Alone(p)
  BY <1>1, GotoMoves
<1> QED BY <1>1, <1>2 DEF After, Field

LEMMA GotoOutcome ==
    ASSUME Calls, NEW p \in Proc, NEW pc, NEW t, NEW to,
           Goto(p, pc, [t |-> t, to |-> to])
    PROVE  /\ proc'[p].pc = pc
           /\ proc'[p].t = t
           /\ proc'[p].to = to
           /\ proc'[p].left = proc[p].left
           /\ proc'[p].todo = proc[p].todo
           /\ Alone(p)
<1>1. PICK r : r = [t |-> t, to |-> to]
  OBVIOUS
<1>2. proc'[p] = After(p, pc, r) /\ Alone(p)
  BY <1>1, GotoMoves
<1> QED BY <1>1, <1>2 DEF After, Field

LEMMA GotoRound ==
    ASSUME Calls, NEW p \in Proc, NEW pc, NEW t, NEW todo, NEW left,
           Goto(p, pc, [t |-> t, todo |-> todo, left |-> left])
    PROVE  /\ proc'[p].pc = pc
           /\ proc'[p].t = t
           /\ proc'[p].left = left
           /\ proc'[p].todo = todo
           /\ Alone(p)
<1>1. PICK r : r = [t |-> t, todo |-> todo, left |-> left]
  OBVIOUS
<1>2. proc'[p] = After(p, pc, r) /\ Alone(p)
  BY <1>1, GotoMoves
<1> QED BY <1>1, <1>2 DEF After, Field

\* Steps after which the call has nothing at hand.
LEMMA RestingPull ==
    ASSUME PullInv, NEW p \in Proc, Alone(p), UNCHANGED task, proc'[p].todo = <<>>,
           proc'[p].pc \notin Pulling \cup {"pull", "each", "recover"}
    PROVE  PullInv' /\ Final
BY AtRest, PullRead

\* The call goes on in a loop, with nothing to write yet.
LEMMA LoopPull ==
    ASSUME PullInv, NEW p \in Proc, Alone(p), UNCHANGED task, proc'[p].todo = <<>>,
           \/ proc'[p].pc \in {"pull", "recover"} /\ proc'[p].left \subseteq DOMAIN task
           \/ proc'[p].pc = "each" /\ \A steps \in proc'[p].left : Loose(steps)
    PROVE  PullInv' /\ Final
<1>1. Range(<<>>) = {} /\ Len(<<>>) = 0
  BY DEF Range
<1>2. Shape(proc[p])' /\ Sound(proc[p])' /\ ~Holder(proc[p])'
  BY <1>1 DEF Shape, Todo, Loose, Sound, Holder, Blocking, Pulling, Loops
<1> QED BY <1>2, PullRead

\* The call goes on with a candidate.
LEMMA CandidatePull ==
    ASSUME PullInv, NEW p \in Proc, Alone(p), UNCHANGED task, proc'[p].todo = <<>>,
           proc'[p].pc \in Pulling, proc'[p].left \subseteq DOMAIN task, Known(proc'[p].t),
           proc'[p].pc = "acquire" => Clear(proc'[p].t),
           proc'[p].pc \in {"route", "claim", "assign"} =>
               Holder(proc[p]) /\ proc'[p].t = proc[p].t
    PROVE  PullInv' /\ Final
<1>1. Range(<<>>) = {} /\ Len(<<>>) = 0
  BY DEF Range
<1>2. Range(proc'[p].todo) = {} /\ Len(proc'[p].todo) = 0
  BY <1>1
<1>3. Holder(proc[p])' => Holder(proc[p]) /\ proc'[p].t = proc[p].t
  BY <1>2 DEF Holder
<1>4. Shape(proc[p])'
  BY <1>2 DEF Shape, Todo, Pulling, Loops
<1>5. PICK t : t = proc'[p].t
  OBVIOUS
<1>6. Known(t)' /\ (proc'[p].pc = "acquire" => Clear(t)')
  BY <1>5 DEF Known, Clear, StateIs
<1>7. Sound(proc[p])'
  BY <1>2, <1>3, <1>5, <1>6 DEF Sound, PullInv, Blocking, Pulling, StateIs, Known
<1> QED BY <1>3, <1>4, <1>7, PullRead

\* The call has decided what to write for the task it holds.
LEMMA DecidedPull ==
    ASSUME PullInv, NEW p \in Proc, Alone(p), UNCHANGED task, NEW t, NEW steps,
           Todo(steps, t), proc'[p].todo = steps, proc'[p].t = t, proc[p].t = t,
           proc'[p].pc \in {"idle", "pull"},
           proc'[p].pc = "pull" => proc'[p].left \subseteq DOMAIN task,
           \/ /\ Holder(proc[p])
              /\ \A e \in Range(steps) :
                    e.op = "task" => ~(proc'[p].pc = "pull" /\ e.to = "BLOCKED")
           \/ /\ proc'[p].pc = "pull" /\ Doomed(t)
              /\ \A e \in Range(steps) : e.op = "task" => e.to = "BLOCKED"
    PROVE  PullInv' /\ Final
<1>1. Shape(proc[p])'
  BY DEF Shape, Todo, Loops
<1>2. /\ Holder(proc[p])' => Holder(proc[p])
      /\ Blocking(proc[p])' => Doomed(t)
  BY DEF Holder, Blocking
<1>3. Doomed(t) => Doomed(t)'
  BY DEF Doomed, StateIs, Known
<1>4. Sound(proc[p])'
  BY <1>2, <1>3 DEF Sound, PullInv, Pulling, StateIs, Known
<1> QED BY <1>1, <1>2, <1>4, PullRead

\* The call starts on a round of a loop, or has taken a task away.
LEMMA RoundPull ==
    ASSUME PullInv, NEW p \in Proc, Alone(p), NEW t, NEW steps,
           Final, InOrder',
           Todo(steps, t), \A e \in Range(steps) : e.op # "task",
           proc'[p].todo = steps, proc'[p].t = t,
           proc'[p].pc \in {"idle", "each", "recover", "expire"},
           proc'[p].pc = "each" => \A s \in proc'[p].left : Loose(s),
           proc'[p].pc = "recover" => proc'[p].left \subseteq DOMAIN task,
           \A u \in DOMAIN task :
              task[u].state = "ROUTING" /\ ~task[u].old => task'[u].state = "ROUTING" /\ ~task'[u].old
    PROVE  PullInv' /\ Final
<1>1. Shape(proc[p])'
  BY DEF Shape, Todo, Loose, Loops
<1>2. ~Holder(proc[p])' /\ ~Blocking(proc[p])'
  BY DEF Holder, Blocking
<1>3. Sound(proc[p])'
  BY <1>2 DEF Sound, Pulling, Final
<1> QED BY <1>1, <1>2, <1>3, PullStep

\* The tasks change under the calls.
LEMMA OutsidePull ==
    ASSUME PullInv, UNCHANGED proc, Final, InOrder',
           \A t \in DOMAIN task :
              task[t].state = "ROUTING" /\ ~task[t].old =>
                  \/ task'[t].state = "ROUTING" /\ ~task'[t].old
                  \/ \A p \in Proc : proc[p].t = t => proc[p].pc \in {"depend", "acquire"}
    PROVE  PullInv' /\ Final
<1>1. ASSUME NEW p \in Proc PROVE Shape(proc[p])' /\ Sound(proc[p])'
  <2>1. PICK r : r = proc[p]
    OBVIOUS
  <2>2. Shape(r) /\ Sound(r)
    BY <2>1 DEF PullInv
  <2>3. Holder(r) => StateIs(r.t, {"ROUTING"})' /\ ~task'[r.t].old
    <3>1. Holder(r) => r.pc \notin {"depend", "acquire"}
      <4>1. Range(<<>>) = {}
        BY DEF Range
      <4> QED BY <2>2, <4>1 DEF Shape, Loops, Holder
    <3> QED BY <2>1, <2>2, <3>1 DEF Sound, StateIs, Known, Final
  <2>4. /\ r.pc \in Pulling \cup {"pull", "recover"} => r.left \subseteq DOMAIN task'
        /\ r.pc \in Pulling => Known(r.t)'
        /\ r.pc = "acquire" => Clear(r.t)'
        /\ Blocking(r) => Doomed(r.t)'
    BY <2>2, FinalKeeps DEF Sound, Final
  <2>5. r = proc'[p]
    BY <2>1
  <2> QED BY <2>2, <2>3, <2>4, <2>5 DEF Sound, Shape, Todo, Loose, Blocking, Holder
<1>2. OneHolder'
  BY DEF PullInv, OneHolder, Holder
<1> QED BY <1>1, <1>2 DEF PullInv

LEMMA ReadsPull ==
    ASSUME Rows, Calls, PullInv, NEW p \in Proc,
           \/ CountAssigned(p) \/ ListCandidates(p) \/ NextCandidate(p) \/ EndPull(p)
           \/ EndEach(p) \/ StartTick(p) \/ ListLostAssignments(p) \/ EndTick(p)
           \/ ListRenewals(p) \/ Pulse(p) \/ BeginPull(p) \/ BeginComplete(p) \/ Crash(p)
    PROVE  PullInv' /\ Final
<1>1. UNCHANGED task
  BY DEF CountAssigned, ListCandidates, NextCandidate, EndPull, EndEach, StartTick,
         ListLostAssignments, EndTick, ListRenewals, Pulse, BeginPull, BeginComplete, Crash,
         ReadOnly, tables
<1>2. CASE Exit(p)
  BY <1>1, <1>2, ExitMoves, RestingPull DEF Pulling
<1>3. ASSUME NEW pc \in {"list", "pulsed", "count"}, Goto(p, pc, Idle) PROVE PullInv' /\ Final
  <2>1. Alone(p) /\ proc'[p].pc = pc /\ proc'[p].todo = <<>>
    BY <1>3, GotoIdle
  <2> QED BY <1>1, <2>1, RestingPull DEF Pulling
<1>4. CASE CountAssigned(p)
  BY <1>2, <1>3, <1>4 DEF CountAssigned
<1>5. CASE EndPull(p) \/ EndEach(p) \/ EndTick(p) \/ Crash(p)
  BY <1>2, <1>5 DEF EndPull, EndEach, EndTick, Crash
<1>6. CASE Pulse(p) \/ BeginPull(p)
  BY <1>3, <1>6 DEF Pulse, BeginPull
<1>7. CASE BeginComplete(p)
  <2>1. PICK t, to : Goto(p, "complete", [t |-> t, to |-> to])
    BY <1>7 DEF BeginComplete
  <2>2. proc[p].todo = <<>>
    BY <1>7 DEF BeginComplete, Command, At
  <2>3. Alone(p) /\ proc'[p].pc = "complete" /\ proc'[p].todo = <<>>
    BY <2>1, <2>2, GotoOutcome
  <2> QED BY <1>1, <2>3, RestingPull DEF Pulling
<1>8. CASE StartTick(p)
  <2>1. PICK left : left = {t \in DOMAIN task : StateIs(t, {"ROUTING"}) /\ task[t].old}
    OBVIOUS
  <2>2. Goto(p, "recover", [left |-> left]) /\ proc[p].todo = <<>>
    BY <1>8, <2>1 DEF StartTick, At
  <2>3. Alone(p) /\ proc'[p].pc = "recover" /\ proc'[p].todo = <<>> /\ proc'[p].left = left
    BY <2>2, GotoLeft
  <2>4. left \subseteq DOMAIN task
    BY <2>1
  <2> QED BY <1>1, <2>3, <2>4, LoopPull
<1>12. CASE ListLostAssignments(p)
  <2>1. PICK left : Goto(p, "expire", [left |-> left])
    BY <1>12 DEF ListLostAssignments
  <2>2. proc[p].todo = <<>>
    BY <1>12 DEF ListLostAssignments, At
  <2>3. Alone(p) /\ proc'[p].pc = "expire" /\ proc'[p].todo = <<>>
    BY <2>1, <2>2, GotoLeft
  <2> QED BY <1>1, <2>3, RestingPull DEF Pulling
<1>9. CASE ListRenewals(p)
  <2>1. PICK left : left = {<<Renew(t), Hold(t)>> : t \in AssignedTo(AgentOf[p])}
    OBVIOUS
  <2>2. Goto(p, "each", [left |-> left]) /\ proc[p].todo = <<>>
    BY <1>9, <2>1 DEF ListRenewals, At
  <2>3. Alone(p) /\ proc'[p].pc = "each" /\ proc'[p].todo = <<>> /\ proc'[p].left = left
    BY <2>2, GotoLeft
  <2>4. \A steps \in left : Loose(steps)
    BY <2>1, Owed
  <2> QED BY <1>1, <2>3, <2>4, LoopPull
<1>10. CASE ListCandidates(p)
  <2>1. PICK left : left = {t \in DOMAIN task \cap Takes[AgentOf[p]] :
                                    task[t].state \in SCHEDULABLE}
    OBVIOUS
  <2>2. Goto(p, "pull", [left |-> left]) /\ proc[p].todo = <<>>
    BY <1>10, <2>1 DEF ListCandidates, At
  <2>3. Alone(p) /\ proc'[p].pc = "pull" /\ proc'[p].todo = <<>> /\ proc'[p].left = left
    BY <2>2, GotoLeft
  <2>4. left \subseteq DOMAIN task
    BY <2>1
  <2> QED BY <1>1, <2>3, <2>4, LoopPull
<1>11. CASE NextCandidate(p)
  <2>1. PICK t \in proc[p].left : Goto(p, "depend", [t |-> t, left |-> proc[p].left \ {t}])
    BY <1>11 DEF NextCandidate
  <2>2. proc[p].todo = <<>> /\ proc[p].left \subseteq DOMAIN task
    BY <1>11 DEF NextCandidate, At, PullInv, Sound
  <2>3. /\ Alone(p) /\ proc'[p].pc = "depend" /\ proc'[p].todo = <<>> /\ proc'[p].t = t
        /\ proc'[p].left = proc[p].left \ {t}
    BY <2>1, <2>2, GotoCandidate
  <2> QED BY <1>1, <2>2, <2>3, CandidatePull DEF Known, Pulling
<1> QED BY <1>4, <1>5, <1>6, <1>7, <1>8, <1>9, <1>10, <1>11, <1>12

\* The steps of a pull that write, or decide what to write.
LEMMA WritesPull ==
    ASSUME Rows, Calls, PullInv, NEW p \in Proc,
           \/ CheckDependencies(p) \/ RouteAndReserve(p) \/ ClaimWorkspace(p)
           \/ WorkspaceFails(p) \/ LoseAssignment(p)
    PROVE  PullInv' /\ Final
<1>1. UNCHANGED task
  BY DEF CheckDependencies, RouteAndReserve, ClaimWorkspace, WorkspaceFails, LoseAssignment,
         ReadOnly, tables
<1>2. PICK t : t = proc[p].t
  OBVIOUS
<1>3. proc[p].pc \in Pulling /\ proc[p].todo = <<>>
  BY DEF CheckDependencies, RouteAndReserve, ClaimWorkspace, WorkspaceFails, LoseAssignment,
         At, Pulling
<1>4. /\ proc[p].left \subseteq DOMAIN task /\ Known(t) /\ t \in DOMAIN task
      /\ DependsOn[t] \subseteq DOMAIN task
  BY <1>2, <1>3 DEF PullInv, Sound, Known, InOrder
<1>5. ASSUME NEW pc \in {"acquire", "claim", "assign"}, Goto(p, pc, [t |-> t]),
             pc = "acquire" => Clear(t), pc # "acquire" => Holder(proc[p])
      PROVE  PullInv' /\ Final
  <2>1. /\ Alone(p) /\ proc'[p].pc = pc /\ proc'[p].t = t /\ proc'[p].todo = <<>>
        /\ proc'[p].left = proc[p].left
    BY <1>3, <1>5, GotoTask
  <2> QED BY <1>1, <1>2, <1>4, <1>5, <2>1, CandidatePull DEF Pulling
<1>6. ASSUME NEW pc \in {"idle", "pull"}, NEW steps, steps # <<>>, Decide(p, pc, steps),
             Todo(steps, t), Holder(proc[p]),
             \A e \in Range(steps) : e.op = "task" => ~(pc = "pull" /\ e.to = "BLOCKED")
      PROVE  PullInv' /\ Final
  <2>1. /\ Alone(p) /\ proc'[p].pc = pc /\ proc'[p].t = t /\ proc'[p].todo = steps
        /\ pc # "idle" => proc'[p].left = proc[p].left
    BY <1>2, <1>6, DecideMoves
  <2> QED BY <1>1, <1>2, <1>4, <1>6, <2>1, DecidedPull
<1>7. CASE CheckDependencies(p)
  <2>1. CASE Clear(t) /\ Goto(p, "acquire", [t |-> t])
    BY <1>5, <2>1
  <2>2. CASE Decide(p, "pull", <<>>)
    <3>1. /\ Alone(p) /\ proc'[p].pc = "pull" /\ proc'[p].todo = <<>>
          /\ proc'[p].left = proc[p].left
      BY <2>2, DecideMoves
    <3> QED BY <1>1, <1>4, <3>1, LoopPull
  <2>3. CASE Doomed(t) /\ Decide(p, "pull", <<Set(t, "BLOCKED")>>)
    <3>1. PICK w : w = Set(t, "BLOCKED")
      OBVIOUS
    <3>2. Range(<<w>>) = {w} /\ Todo(<<w>>, t) /\ w.to = "BLOCKED" /\ <<w>> # <<>>
      <4>1. w.to = "BLOCKED"
        BY <3>1 DEF Set
      <4>2. <<w>> # <<>>
        OBVIOUS
      <4> QED BY <3>1, <4>1, <4>2, OneOwed
    <3>3. PICK steps : steps = <<w>>
      OBVIOUS
    <3>4. Decide(p, "pull", steps) /\ steps # <<>>
      BY <2>3, <3>1, <3>2, <3>3
    <3>5. /\ Alone(p) /\ proc'[p].pc = "pull" /\ proc'[p].t = t /\ proc'[p].todo = steps
          /\ proc'[p].left = proc[p].left
      BY <1>2, <3>4, DecideMoves
    <3> QED BY <1>1, <1>2, <1>4, <2>3, <3>2, <3>3, <3>5, DecidedPull
  <2>4. ASSUME NEW d \in DependsOn[t], ~Known(d) \/ StateIs(d, {"FAILED", "BLOCKED"})
        PROVE  Doomed(t)
    BY <1>4, <2>4 DEF Known, Doomed
  <2>5. \/ Clear(t) /\ Goto(p, "acquire", [t |-> t])
        \/ Decide(p, "pull", <<>>)
        \/ Doomed(t) /\ Decide(p, "pull", <<Set(t, "BLOCKED")>>)
    BY <1>2, <1>7, <2>4 DEF CheckDependencies, Clear
  <2> QED BY <2>1, <2>2, <2>3, <2>5
<1>8. CASE RouteAndReserve(p)
  <2>1. Holder(proc[p])
    BY <1>8 DEF RouteAndReserve, At, Holder
  <2>2. CASE Goto(p, "claim", [t |-> t])
    BY <1>5, <2>1, <2>2
  <2>3. CASE Decide(p, "pull", <<Set(t, "WAITING_CAPACITY")>>)
    <3>1. PICK w : w = Set(t, "WAITING_CAPACITY")
      OBVIOUS
    <3>2. w.to = "WAITING_CAPACITY" /\ <<w>> # <<>>
      BY <3>1 DEF Set
    <3>3. Range(<<w>>) = {w} /\ Todo(<<w>>, t)
      BY <3>1, OneOwed
    <3>4. PICK steps : steps = <<w>>
      OBVIOUS
    <3> QED BY <1>6, <2>1, <2>3, <3>1, <3>2, <3>3, <3>4
  <2> QED BY <1>2, <1>8, <2>2, <2>3 DEF RouteAndReserve
<1>9. CASE ClaimWorkspace(p)
  <2>1. Holder(proc[p])
    BY <1>9 DEF ClaimWorkspace, At, Holder
  <2>2. CASE Goto(p, "assign", [t |-> t])
    BY <1>5, <2>1, <2>2
  <2>3. CASE Decide(p, "pull", <<Unreserve(t), Set(t, "QUEUED")>>)
    <3>1. PICK u, w : u = Unreserve(t) /\ w = Set(t, "QUEUED")
      OBVIOUS
    <3>2. /\ u.id = t /\ u.op = "unreserve" /\ w.id = t /\ w.to = "QUEUED" /\ <<u, w>> # <<>>
      BY <3>1 DEF Set, Unreserve
    <3>3. Range(<<u, w>>) = {u, w} /\ Todo(<<u, w>>, t)
      BY <3>2, TwoOwed
    <3>4. PICK steps : steps = <<u, w>>
      OBVIOUS
    <3>5. Decide(p, "pull", steps) /\ steps # <<>> /\ Todo(steps, t) /\ Range(steps) = {u, w}
      BY <2>3, <3>1, <3>2, <3>3, <3>4
    <3> QED BY <1>6, <2>1, <3>2, <3>5
  <2> QED BY <1>2, <1>9, <2>2, <2>3 DEF ClaimWorkspace
<1>10. CASE WorkspaceFails(p) \/ LoseAssignment(p)
  <2>1. Holder(proc[p])
    BY <1>10 DEF WorkspaceFails, LoseAssignment, At, Holder
  <2>2. PICK u : u = Unreserve(t)
    OBVIOUS
  <2>3. u.id = t /\ u.op = "unreserve"
    BY <2>2 DEF Unreserve
  <2>4. CASE WorkspaceFails(p)
    <3>1. PICK c, w : c = Unclaim(t, "BLOCKED") /\ w = Set(t, "BLOCKED")
      OBVIOUS
    <3>2. c.id = t /\ c.op = "unclaim" /\ w.id = t
      BY <3>1 DEF Set, Unclaim
    <3>3. PICK steps : steps = <<u, c>> \o <<w>>
      OBVIOUS
    <3>4. Range(steps) = {u, c, w} /\ Todo(steps, t)
      BY <2>3, <3>2, <3>3, ThreeOwed
    <3>5. steps # <<>>
      BY <3>4 DEF Range
    <3>6. Decide(p, "idle", steps)
      BY <1>2, <2>2, <2>4, <3>1, <3>3 DEF WorkspaceFails, Release
    <3> QED BY <1>6, <2>1, <3>4, <3>5, <3>6
  <2>5. CASE LoseAssignment(p)
    <3>1. PICK c : c = Unclaim(t, "RETRYABLE")
      OBVIOUS
    <3>2. c.id = t /\ c.op = "unclaim"
      BY <3>1 DEF Unclaim
    <3>3. PICK steps : steps = <<u, c>>
      OBVIOUS
    <3>4. Range(steps) = {u, c} /\ Todo(steps, t) /\ steps # <<>>
      <4>1. steps # <<>>
        BY <3>3
      <4> QED BY <2>3, <3>2, <3>3, <4>1, TwoOwed
    <3>5. Decide(p, "pull", steps)
      BY <1>2, <2>2, <2>5, <3>1, <3>3 DEF LoseAssignment, Release
    <3> QED BY <1>6, <2>1, <2>3, <3>2, <3>4, <3>5
  <2> QED BY <1>10, <2>4, <2>5
<1> QED BY <1>7, <1>8, <1>9, <1>10

\* A task is taken to ROUTING: it was nobody's, and its dependencies are done.
LEMMA AcquirePull ==
    ASSUME Orderly, Rows, Calls, PullInv, NEW p \in Proc, AcquireDispatchLease(p)
    PROVE  PullInv' /\ Final
<1>1. PICK t : t = proc[p].t
  OBVIOUS
<1>2. /\ proc[p].pc = "acquire" /\ proc[p].todo = <<>> /\ proc[p].left \subseteq DOMAIN task
      /\ t \in DOMAIN task /\ Clear(t)
  BY <1>1 DEF AcquireDispatchLease, At, PullInv, Sound, Pulling, Known
<1>3. CASE MayAcquire(t)
  <2>1. /\ task' = [task EXCEPT ![t].state = "ROUTING", ![t].old = FALSE]
        /\ Goto(p, "route", [t |-> t])
    BY <1>1, <1>3 DEF AcquireDispatchLease, Stamp, Orderly
  <2>2. /\ DOMAIN task' = DOMAIN task
        /\ \A u \in DOMAIN task \ {t} : task'[u] = task[u]
        /\ task'[t].state = "ROUTING" /\ ~task'[t].old
    BY <1>2, <2>1 DEF Rows
  <2>3. task[t].state \notin TERMINAL /\ ~StateIs(t, {"ROUTING"})
    BY <1>3 DEF MayAcquire, SCHEDULABLE, TERMINAL, StateIs
  <2>4. Final
    BY <2>2, <2>3 DEF Final
  <2>5. InOrder'
    BY <1>2, <2>2, <2>4, StillInOrder DEF PullInv
  <2>6. /\ Alone(p) /\ proc'[p].pc = "route" /\ proc'[p].t = t /\ proc'[p].todo = <<>>
        /\ proc'[p].left = proc[p].left
    BY <1>2, <2>1, GotoTask
  <2>7. Range(<<>>) = {} /\ Len(<<>>) = 0
    BY DEF Range
  <2>8. Shape(proc[p])'
    BY <2>6, <2>7 DEF Shape, Todo, Loops
  <2>9. Sound(proc[p])'
    BY <1>2, <2>2, <2>6 DEF Sound, Blocking, StateIs, Known
  <2> QED BY <2>2, <2>3, <2>4, <2>5, <2>6, <2>8, <2>9, PullStep
<1>4. CASE ~MayAcquire(t)
  <2>1. Decide(p, "pull", <<>>) /\ UNCHANGED task
    BY <1>1, <1>4 DEF AcquireDispatchLease
  <2>2. /\ Alone(p) /\ proc'[p].pc = "pull" /\ proc'[p].todo = <<>>
        /\ proc'[p].left = proc[p].left
    BY <2>1, DecideMoves
  <2> QED BY <1>2, <2>1, <2>2, LoopPull
<1> QED BY <1>3, <1>4

LEMMA AssignPull ==
    ASSUME Rows, Calls, PullInv, NEW p \in Proc, AssignTask(p)
    PROVE  PullInv' /\ Final
<1>1. PICK t : t = proc[p].t
  OBVIOUS
<1>2. Holder(proc[p]) /\ StateIs(t, {"ROUTING"})
  BY <1>1 DEF AssignTask, At, Holder, PullInv, Sound
<1>3. /\ Exit(p)
      /\ task' = [task EXCEPT ![t] = [task[t] EXCEPT !.state = "ASSIGNED",
              !.session = AgentOf[p], !.attempts = task[t].attempts + 1, !.old = FALSE]]
  BY <1>1 DEF AssignTask
<1>4. /\ DOMAIN task' = DOMAIN task
      /\ \A u \in DOMAIN task \ {t} : task'[u] = task[u]
      /\ t \in DOMAIN task /\ task[t].state = "ROUTING"
  BY <1>2, <1>3 DEF Rows, StateIs, Known
<1>5. Final
  BY <1>4 DEF Final, TERMINAL
<1>6. InOrder'
  <2>1. \A u \in DOMAIN task : task'[u].state \in Begun => task[u].state \in Begun
    BY <1>4 DEF Begun
  <2> QED BY <1>4, <1>5, <2>1, StillInOrder DEF PullInv
<1>7. Shape(proc[p])' /\ Sound(proc[p])' /\ ~Holder(proc[p])' /\ Alone(p)
  <2>1. /\ proc'[p].todo = <<>> /\ proc'[p].pc = "idle"
        /\ Alone(p)
    BY <1>3, ExitMoves
  <2> QED BY <2>1, AtRest DEF Pulling
<1> QED BY <1>1, <1>2, <1>4, <1>5, <1>6, <1>7, PullStep

\* A task that is assigned ends, or is given back.
LEMMA Ended ==
    ASSUME Rows, PullInv, NEW t \in DOMAIN task, task[t].state \in {"ASSIGNED", "ROUTING"},
           NEW to, NEW sid,
           \/ task' = [task EXCEPT ![t] = [task[t] EXCEPT !.state = to, !.session = sid,
                                                          !.old = FALSE]]
           \/ task' = [task EXCEPT ![t].state = to, ![t].old = FALSE]
    PROVE  /\ Final /\ InOrder'
           /\ \A u \in DOMAIN task \ {t} : task'[u] = task[u]
<1>1. DOMAIN task' = DOMAIN task /\ \A u \in DOMAIN task \ {t} : task'[u] = task[u]
  BY DEF Rows
<1>2. Final
  BY <1>1 DEF Final, TERMINAL
<1>3. InOrder'
  <2>1. \A u \in DOMAIN task : task'[u].state \in Begun => task[u].state \in Begun
    BY <1>1 DEF Begun
  <2> QED BY <1>1, <1>2, <2>1, StillInOrder DEF PullInv
<1> QED BY <1>1, <1>2, <1>3

LEMMA Ops ==
    /\ \A t : Unreserve(t).op = "unreserve" /\ Unreserve(t).id = t
    /\ \A t, o : Unclaim(t, o).op = "unclaim" /\ Unclaim(t, o).id = t
    /\ \A t, o : Set(t, o).op = "task" /\ Set(t, o).id = t
BY DEF Unreserve, Unclaim, Set

LEMMA EndingPull ==
    ASSUME Rows, Calls, PullInv, NEW p \in Proc,
           RecordCompletion(p) \/ RecoverRouting(p) \/ ExpireAssignment(p) \/ Each(p)
    PROVE  PullInv' /\ Final
<1>1. CASE RecordCompletion(p)
  <2>1. PICK t, to, s : t = proc[p].t /\ to = proc[p].to /\ s = AgentOf[p]
    OBVIOUS
  <2>2. CASE t \in AssignedTo(s)
    <3>1. t \in DOMAIN task /\ task[t].state = "ASSIGNED"
      BY <2>2 DEF AssignedTo
    <3>2. PICK steps : steps = <<Unclaim(t, to), Unreserve(t)>>
      OBVIOUS
    <3>3. /\ task' = [task EXCEPT ![t] = [task[t] EXCEPT
                 !.state = to, !.session = NoSession, !.old = FALSE]]
          /\ Decide(p, "idle", steps)
      BY <1>1, <2>1, <2>2, <3>2 DEF RecordCompletion
    <3>4. Range(steps) = {Unreserve(t), Unclaim(t, to)} /\ Todo(steps, t) /\ steps # <<>>
      <4>1. steps # <<>>
        BY <3>2
      <4> QED BY <3>2, <4>1, Owed
    <3>5. \A e \in Range(steps) : e.op # "task"
      BY <3>4, Ops
    <3>6. Alone(p) /\ proc'[p].pc = "idle" /\ proc'[p].t = t /\ proc'[p].todo = steps
      BY <2>1, <3>3, <3>4, DecideMoves
    <3>7. Final /\ InOrder' /\ \A u \in DOMAIN task \ {t} : task'[u] = task[u]
      BY <3>1, <3>3, Ended
    <3> QED BY <3>1, <3>4, <3>5, <3>6, <3>7, RoundPull
  <2>3. CASE t \notin AssignedTo(s)
    <3>1. Exit(p) /\ UNCHANGED task
      BY <1>1, <2>1, <2>3 DEF RecordCompletion
    <3> QED BY <3>1, ExitMoves, RestingPull DEF Pulling
  <2> QED BY <2>2, <2>3
<1>2. ASSUME NEW t \in DOMAIN task, NEW to, NEW pc \in {"recover", "expire"}, NEW left,
             task[t].state = "ASSIGNED" \/ (task[t].state = "ROUTING" /\ task[t].old),
             pc = "recover" => left \subseteq DOMAIN task,
             \/ task' = [task EXCEPT ![t] = [task[t] EXCEPT !.state = to, !.session = NoSession,
                                                            !.old = FALSE]]
             \/ task' = [task EXCEPT ![t].state = to, ![t].old = FALSE],
             Goto(p, pc, [left |-> left, t |-> t, todo |-> Release(t, to)])
      PROVE  PullInv' /\ Final
  <2>1. PICK steps : steps = Release(t, to)
    OBVIOUS
  <2>2. Range(steps) = {Unreserve(t), Unclaim(t, to)} /\ Todo(steps, t)
    BY <2>1, Owed
  <2>3. \A e \in Range(steps) : e.op # "task"
    BY <2>2, Ops
  <2>4. /\ Alone(p) /\ proc'[p].pc = pc /\ proc'[p].t = t /\ proc'[p].todo = steps
        /\ proc'[p].left = left
    <3>1. Goto(p, pc, [left |-> left, t |-> t, todo |-> steps])
      BY <1>2, <2>1
    <3>2. [left |-> left, t |-> t, todo |-> steps] = [t |-> t, todo |-> steps, left |-> left]
      OBVIOUS
    <3> QED BY <3>1, <3>2, GotoRound
  <2>5. Final /\ InOrder' /\ \A u \in DOMAIN task \ {t} : task'[u] = task[u]
    BY <1>2, Ended
  <2> QED BY <1>2, <2>2, <2>3, <2>4, <2>5, RoundPull
<1>3. ASSUME NEW pc \in {"recover", "expire"}, NEW left, proc[p].todo = <<>>,
             Goto(p, pc, [left |-> left]), UNCHANGED task,
             pc = "recover" => left \subseteq DOMAIN task
      PROVE  PullInv' /\ Final
  <2>1. Alone(p) /\ proc'[p].pc = pc /\ proc'[p].todo = <<>> /\ proc'[p].left = left
    BY <1>3, GotoLeft
  <2>2. CASE pc = "recover"
    BY <1>3, <2>1, <2>2, LoopPull
  <2>3. CASE pc = "expire"
    BY <1>3, <2>1, <2>3, RestingPull DEF Pulling
  <2> QED BY <2>2, <2>3
<1>4. CASE RecoverRouting(p)
  <2>1. proc[p].todo = <<>> /\ proc[p].left \subseteq DOMAIN task
    BY <1>4 DEF RecoverRouting, At, PullInv, Sound
  <2>2. PICK t \in proc[p].left :
           \/ /\ Abandoned(t)
              /\ task' = [task EXCEPT ![t].state = "RETRYABLE", ![t].old = FALSE]
              /\ Goto(p, "recover", [left |-> proc[p].left \ {t}, t |-> t,
                                     todo |-> Release(t, "RETRYABLE")])
           \/ Goto(p, "recover", [left |-> proc[p].left \ {t}]) /\ UNCHANGED task
    BY <1>4 DEF RecoverRouting
  <2>3. PICK rest, to : rest = proc[p].left \ {t} /\ to = "RETRYABLE"
    OBVIOUS
  <2>4. rest \subseteq DOMAIN task /\ t \in DOMAIN task
    BY <2>1, <2>3
  <2>5. CASE Goto(p, "recover", [left |-> rest]) /\ UNCHANGED task
    BY <1>3, <2>1, <2>4, <2>5
  <2>6. CASE /\ Abandoned(t)
             /\ task' = [task EXCEPT ![t].state = to, ![t].old = FALSE]
             /\ Goto(p, "recover", [left |-> rest, t |-> t, todo |-> Release(t, to)])
    <3>1. task[t].state = "ROUTING" /\ task[t].old
      BY <2>6 DEF Abandoned
    <3> QED BY <1>2, <2>4, <2>6, <3>1
  <2> QED BY <2>2, <2>3, <2>5, <2>6
<1>5. CASE ExpireAssignment(p)
  <2>1. proc[p].todo = <<>>
    BY <1>5 DEF ExpireAssignment, At
  <2>2. PICK r \in proc[p].left :
           \/ /\ r.t \in AssignedTo(r.s)
              /\ task' = [task EXCEPT ![r.t] = [task[r.t] EXCEPT
                    !.state = r.to, !.session = NoSession, !.old = FALSE]]
              /\ Goto(p, "expire", [left |-> proc[p].left \ {r}, t |-> r.t,
                                    todo |-> Release(r.t, r.to)])
           \/ Goto(p, "expire", [left |-> proc[p].left \ {r}]) /\ UNCHANGED task
    BY <1>5 DEF ExpireAssignment
  <2> QED BY <1>2, <1>3, <2>1, <2>2 DEF AssignedTo
<1>6. CASE Each(p)
  <2>1. PICK steps \in proc[p].left :
           Goto(p, "each", [t |-> steps[1].id, todo |-> steps, left |-> proc[p].left \ {steps}])
    BY <1>6 DEF Each
  <2>2. Loose(steps) /\ \A x \in proc[p].left : Loose(x)
    BY <1>6 DEF Each, At, PullInv, Shape
  <2>3. PICK t : t = steps[1].id
    OBVIOUS
  <2>4. steps \in Seq(Write)
    BY <1>6 DEF Each, At, Calls, Owing
  <2>5. Todo(steps, t) /\ \A e \in Range(steps) : e.op # "task"
    <3>1. \A i \in 1..(Len(steps) - 1) : steps[i] \in Range(steps)
      BY <2>4 DEF Range
    <3> QED BY <2>2, <2>3, <3>1 DEF Loose, Todo
  <2>6. /\ Alone(p) /\ proc'[p].pc = "each" /\ proc'[p].t = t /\ proc'[p].todo = steps
        /\ proc'[p].left = proc[p].left \ {steps}
    BY <2>1, <2>3, GotoRound
  <2>7. UNCHANGED task
    BY <1>6 DEF Each, ReadOnly, tables
  <2>8. Final /\ InOrder'
    BY <2>7 DEF Final, PullInv, InOrder, Clear, StateIs, Known
  <2> QED BY <2>2, <2>5, <2>6, <2>7, <2>8, RoundPull
<1> QED BY <1>1, <1>4, <1>5, <1>6

LEMMA ClosePull ==
    ASSUME Rows, Calls, PullInv, NEW p \in Agent, CloseSession(p)
    PROVE  PullInv' /\ Final
<1>1. PICK mine, left : /\ mine = AssignedTo(AgentOf[p])
                        /\ left = {Release(t, "RETRYABLE") : t \in mine}
  OBVIOUS
<1>2. /\ task' = [t \in DOMAIN task |->
              IF t \in mine
              THEN [task[t] EXCEPT !.state = "RETRYABLE", !.session = NoSession, !.old = FALSE]
              ELSE task[t]]
      /\ Goto(p, "each", [left |-> left])
      /\ proc[p].todo = <<>> /\ p \in Proc
  BY <1>1 DEF CloseSession, Command, At, Proc
<1>3. /\ Alone(p) /\ proc'[p].pc = "each" /\ proc'[p].t = proc[p].t /\ proc'[p].todo = <<>>
      /\ proc'[p].left = left
  BY <1>2, GotoLeft
<1>4. \A steps \in left : Loose(steps)
  BY <1>1, Owed
<1>5. \A t \in mine : t \in DOMAIN task /\ task[t].state = "ASSIGNED"
  BY <1>1 DEF AssignedTo
<1>6. /\ DOMAIN task' = DOMAIN task
      /\ \A t \in DOMAIN task \ mine : task'[t] = task[t]
      /\ \A t \in mine : task'[t].state = "RETRYABLE"
  BY <1>2, <1>5 DEF Rows
<1>7. Final
  BY <1>5, <1>6 DEF Final, TERMINAL
<1>8. InOrder'
  <2>1. \A t \in DOMAIN task : task'[t].state \in Begun => task[t].state \in Begun
    BY <1>6 DEF Begun
  <2> QED BY <1>6, <1>7, <2>1, StillInOrder DEF PullInv
<1>9. \A u \in DOMAIN task :
         task[u].state = "ROUTING" /\ ~task[u].old => task'[u].state = "ROUTING" /\ ~task'[u].old
  BY <1>5, <1>6
<1>10. PICK steps, t : steps = <<>> /\ t = proc[p].t
  OBVIOUS
<1>11. Todo(steps, t) /\ \A e \in Range(steps) : e.op # "task"
  <2>1. Range(steps) = {} /\ Len(steps) = 0
    BY <1>10 DEF Range
  <2> QED BY <2>1 DEF Todo
<1> QED BY <1>2, <1>3, <1>4, <1>7, <1>8, <1>9, <1>10, <1>11, RoundPull

LEMMA EnvironmentPull ==
    ASSUME Orderly, Rows, Calls, PullInv, Environment
    PROVE  PullInv' /\ Final
<1>1. ASSUME NEW t \in Task, SubmitTask(t) PROVE PullInv' /\ Final
  <2>1. PICK row : row = [state |-> "QUEUED", attempts |-> 0, session |-> NoSession, old |-> FALSE]
    OBVIOUS
  <2>2. /\ task' = With(task, t, row) /\ t \notin DOMAIN task /\ UNCHANGED proc
        /\ DependsOn[t] \subseteq DOMAIN task
    BY <1>1, <2>1 DEF SubmitTask, Known, Orderly
  <2>3. /\ DOMAIN task' = DOMAIN task \cup {t} /\ task'[t].state = "QUEUED"
        /\ \A u \in DOMAIN task : task'[u] = task[u]
    BY <2>1, <2>2 DEF With
  <2>4. Final
    BY <2>3 DEF Final
  <2>5. InOrder'
    <3>1. ASSUME NEW u \in DOMAIN task' PROVE DependsOn[u] \subseteq DOMAIN task'
      BY <2>2, <2>3, <3>1 DEF PullInv, InOrder
    <3>2. ASSUME NEW u \in DOMAIN task', task'[u].state \in Begun PROVE Clear(u)'
      <4>1. u \in DOMAIN task /\ Clear(u)
        BY <2>3, <3>2 DEF PullInv, InOrder, Begun
      <4> QED BY <2>4, <4>1, FinalKeeps
    <3> QED BY <3>1, <3>2 DEF InOrder
  <2> QED BY <2>2, <2>3, <2>4, <2>5, OutsidePull
<1>2. CASE TwoMinutes
  <2>1. /\ task' = [t \in DOMAIN task |->
              [task[t] EXCEPT !.old = @ \/ (task[t].state = "ROUTING" /\ Ages(t))]]
        /\ UNCHANGED proc
    BY <1>2 DEF TwoMinutes
  <2>2. ASSUME NEW t \in DOMAIN task
        PROVE  /\ task'[t].state = task[t].state
               /\ task'[t].old => task[t].old \/ Ages(t)
    <3>1. PICK b : b = (task[t].old \/ (task[t].state = "ROUTING" /\ Ages(t)))
      OBVIOUS
    <3>2. task'[t] = [task[t] EXCEPT !.old = b]
      BY <2>1, <3>1
    <3>3. task'[t].state = task[t].state /\ task'[t].old = b
      BY <3>2 DEF Rows
    <3> QED BY <3>1, <3>3
  <2>3. DOMAIN task' = DOMAIN task
    BY <2>1
  <2>4. Final
    BY <2>2, <2>3 DEF Final
  <2>5. InOrder'
    BY <2>2, <2>3, <2>4, StillInOrder DEF PullInv
  <2> QED BY <2>1, <2>2, <2>4, <2>5, OutsidePull DEF Ages, Orderly
<1>3. ASSUME UNCHANGED <<task, proc>> PROVE PullInv' /\ Final
  <2>1. Final /\ InOrder'
    BY <1>3 DEF Final, PullInv, InOrder, Clear, StateIs, Known
  <2> QED BY <1>3, <2>1, OutsidePull
<1>4. ASSUME NEW s \in Session, Die(s) PROVE PullInv' /\ Final
  <2>1. PICK q : q = Idle
    OBVIOUS
  <2>2. q.pc = "idle" /\ q.todo = <<>>
    BY <2>1 DEF Idle
  <2>3. UNCHANGED task /\ \A p \in Proc : proc'[p] = proc[p] \/ proc'[p] = q
    BY <1>4, <2>1 DEF Die, tables
  <2>4. ASSUME NEW p \in Proc, proc'[p] = q
        PROVE  Shape(proc[p])' /\ Sound(proc[p])' /\ ~Holder(proc[p])'
    BY <2>2, <2>4, AtRest DEF Pulling
  <2>5. ASSUME NEW p \in Proc, proc'[p] = proc[p]
        PROVE  Shape(proc[p])' /\ Sound(proc[p])' /\ (Holder(proc[p])' <=> Holder(proc[p]))
    BY <2>3, <2>5 DEF PullInv, Shape, Todo, Loose, Sound, Blocking, Holder, StateIs, Known,
                      Clear, Doomed
  <2>6. OneHolder'
    <3> SUFFICES ASSUME NEW a \in Proc, NEW b \in Proc,
                        Holder(proc[a])', Holder(proc[b])', proc'[a].t = proc'[b].t
                 PROVE  a = b
      BY DEF OneHolder
    <3>1. \A p \in {a, b} : proc'[p] = proc[p] /\ Holder(proc[p])
      BY <2>3, <2>4, <2>5
    <3> QED BY <3>1 DEF PullInv, OneHolder
  <2>7. InOrder'
    BY <2>3 DEF PullInv, InOrder, Clear, StateIs, Known
  <2>8. Final
    BY <2>3 DEF Final
  <2> QED BY <2>3, <2>4, <2>5, <2>6, <2>7, <2>8 DEF PullInv
<1> QED BY <1>1, <1>2, <1>3, <1>4 DEF Environment, DiscoverSession, Lapse, Outage

LEMMA InitPull == Init => PullInv
<1> SUFFICES ASSUME Init PROVE PullInv
  OBVIOUS
<1>1. PICK q : q = Idle
  OBVIOUS
<1>2. q.pc = "idle" /\ q.todo = <<>>
  BY <1>1 DEF Idle
<1>3. DOMAIN task = {} /\ \A p \in Proc : proc[p] = q
  BY <1>1 DEF Init
<1>4. Range(<<>>) = {} /\ Len(<<>>) = 0
  BY DEF Range
<1>5. ASSUME NEW p \in Proc PROVE Shape(proc[p]) /\ Sound(proc[p]) /\ ~Holder(proc[p])
  BY <1>2, <1>3, <1>4 DEF Shape, Todo, Sound, Holder, Blocking, Pulling, Loops
<1> QED BY <1>3, <1>5 DEF PullInv, OneHolder, InOrder

LEMMA NextPull ==
    ASSUME Orderly, Rows, Calls, PullInv, [Next]_vars
    PROVE  PullInv' /\ Final
<1>1. ASSUME NEW p \in Proc, AgentStep(p) PROVE PullInv' /\ Final
  BY <1>1, ReadsPull, WritesPull, AcquirePull, AssignPull, EndingPull DEF AgentStep
<1>2. ASSUME NEW p \in Proc, TickStep(p) PROVE PullInv' /\ Final
  BY <1>2, ReadsPull, EndingPull DEF TickStep
<1>3. ASSUME NEW p \in Proc, AgentCommand(p) PROVE PullInv' /\ Final
  <2>1. CASE RegisterSession(p)
    <3>1. UNCHANGED <<task, proc>>
      BY <2>1 DEF RegisterSession
    <3>2. Final /\ InOrder'
      BY <3>1 DEF Final, PullInv, InOrder, Clear, StateIs, Known
    <3> QED BY <3>1, <3>2, OutsidePull
  <2> QED BY <1>3, <2>1, ReadsPull, ClosePull DEF AgentCommand
<1>4. CASE UNCHANGED vars
  <2>1. UNCHANGED <<task, proc>>
    BY <1>4 DEF vars
  <2>2. Final /\ InOrder'
    BY <2>1 DEF Final, PullInv, InOrder, Clear, StateIs, Known
  <2> QED BY <2>1, <2>2, OutsidePull
<1> QED BY <1>1, <1>2, <1>3, <1>4, PerformPull, ReadsPull, EnvironmentPull DEF Next, Run

\* Calls write states by task id, from candidates, dependencies and rows they
\* have read long before, and _set_task_state does not look at the present one.
\* A task that is DONE, FAILED or BLOCKED stays so all the same, as long as no
\* live call lasts two minutes, so that a tick takes the task from it, and no task
\* is submitted before one that it depends on.
THEOREM OverStaysOver ==
    ASSUME Orderly
    PROVE  Spec => OverIsFinal
<1>1. Init => IInv /\ PullInv
  BY InitHolds, InitPull
<1>2. IInv /\ PullInv /\ [Next]_vars => IInv' /\ PullInv'
  BY NextKeeps, NextPull DEF IInv
<1>3. IInv /\ PullInv /\ [Next]_vars =>
          [\A t \in DOMAIN task : task[t].state \in TERMINAL => task'[t].state = task[t].state]_vars
  BY NextPull DEF IInv, Final
<1> QED BY <1>1, <1>2, <1>3, PTL DEF Spec, OverIsFinal

-----------------------------------------------------------------------------
(* Nothing is kept for a task that is over or waits                          *)

\* The call will still do op for t.
Owes(r, op, t) ==
    \/ \E e \in Range(r.todo) : e.op = op /\ e.id = t
    \/ r.pc = "each" /\ \E steps \in r.left : \E e \in Range(steps) : e.op = op /\ e.id = t

\* The call has reserved a worker, or claimed paths, for t and answers for them.
KeepsWorker(r, t) == Owes(r, "unreserve", t) \/ (r.t = t /\ r.pc \in {"claim", "assign"})

KeepsPaths(r, t) == Owes(r, "unclaim", t) \/ (r.t = t /\ r.pc = "assign")

Assigned(t) == StateIs(t, {"ASSIGNED"})

\* Whatever is kept, is kept for an assigned task or has a call that answers for it.
FreeInv ==
    /\ \A t \in DOMAIN reserved : Assigned(t) \/ \E p \in Proc : KeepsWorker(proc[p], t)
    /\ \A t : W!Leased(claims, t) => Assigned(t) \/ \E p \in Proc : KeepsPaths(proc[p], t)

LEMMA FreeStep ==
    ASSUME FreeInv, NEW p \in Proc, Alone(p),
           \A t \in DOMAIN reserved' :
              \/ Assigned(t)' \/ KeepsWorker(proc'[p], t)
              \/ t \in DOMAIN reserved /\ ~Assigned(t) /\ ~KeepsWorker(proc[p], t),
           \A t : W!Leased(claims', t) =>
              \/ Assigned(t)' \/ KeepsPaths(proc'[p], t)
              \/ W!Leased(claims, t) /\ ~Assigned(t) /\ ~KeepsPaths(proc[p], t)
    PROVE  FreeInv'
<1>1. ASSUME NEW t \in DOMAIN reserved'
      PROVE  Assigned(t)' \/ \E q \in Proc : KeepsWorker(proc'[q], t)
  <2>1. CASE t \in DOMAIN reserved /\ ~Assigned(t) /\ ~KeepsWorker(proc[p], t)
    <3>1. PICK q \in Proc : KeepsWorker(proc[q], t)
      BY <2>1 DEF FreeInv
    <3>2. proc'[q] = proc[q]
      BY <2>1, <3>1 DEF Alone
    <3> QED BY <3>1, <3>2
  <2> QED BY <2>1
<1>2. ASSUME NEW t, W!Leased(claims', t)
      PROVE  Assigned(t)' \/ \E q \in Proc : KeepsPaths(proc'[q], t)
  <2>1. CASE W!Leased(claims, t) /\ ~Assigned(t) /\ ~KeepsPaths(proc[p], t)
    <3>1. PICK q \in Proc : KeepsPaths(proc[q], t)
      BY <2>1 DEF FreeInv
    <3>2. proc'[q] = proc[q]
      BY <2>1, <3>1 DEF Alone
    <3> QED BY <3>1, <3>2
  <2> QED BY <1>2, <2>1
<1> QED BY <1>1, <1>2 DEF FreeInv, KeepsWorker, KeepsPaths, Owes, W!Leased

\* A call that has reserved and claimed nothing yet, or answers for nothing more.
LEMMA EmptyHanded ==
    ASSUME NEW r, r.todo = <<>>, r.pc \notin {"each", "claim", "assign"}
    PROVE  \A t : ~KeepsWorker(r, t) /\ ~KeepsPaths(r, t)
<1>1. Range(r.todo) = {}
  BY DEF Range
<1> QED BY <1>1 DEF KeepsWorker, KeepsPaths, Owes

\* Such a call takes nothing, and no task from its session.
LEMMA FreeRead ==
    ASSUME FreeInv, NEW p \in Proc, Alone(p), UNCHANGED <<reserved, claims>>,
           proc[p].todo = <<>>, proc[p].pc \notin {"each", "claim", "assign"},
           \A t : Assigned(t) => Assigned(t)'
    PROVE  FreeInv'
<1>1. \A t : ~KeepsWorker(proc[p], t) /\ ~KeepsPaths(proc[p], t)
  BY EmptyHanded
<1> QED BY <1>1, FreeStep

\* The tables change under the calls: leases run out at most.
LEMMA FreeOutside ==
    ASSUME FreeInv, UNCHANGED proc, DOMAIN reserved' \subseteq DOMAIN reserved,
           \A t : W!Leased(claims', t) => W!Leased(claims, t),
           \A t : Assigned(t) => Assigned(t)'
    PROVE  FreeInv'
<1>1. ASSUME NEW t \in DOMAIN reserved'
      PROVE  Assigned(t)' \/ \E q \in Proc : KeepsWorker(proc'[q], t)
  BY <1>1 DEF FreeInv
<1>2. ASSUME NEW t, W!Leased(claims', t)
      PROVE  Assigned(t)' \/ \E q \in Proc : KeepsPaths(proc'[q], t)
  BY <1>2 DEF FreeInv
<1> QED BY <1>1, <1>2 DEF FreeInv, KeepsWorker, KeepsPaths, Owes, W!Leased

\* A write to the state of a task is never of an assigned one.
LEMMA AssignedUntouched ==
    ASSUME Rows, Calls, PullInv, NEW p \in Proc, PerformTask(p), NEW t, Assigned(t)
    PROVE  Assigned(t)'
<1>1. PICK w : w = Step(p)
  OBVIOUS
<1>2. /\ proc[p].todo # <<>> /\ w.op = "task" /\ w = Head(proc[p].todo)
      /\ task' = [task EXCEPT ![w.id].state = w.to, ![w.id].old = FALSE]
  BY <1>1 DEF PerformTask, Due, Step
<1>3. w \in Range(proc[p].todo) /\ w.id = proc[p].t
  <2>1. proc[p].todo \in Seq(Write) /\ Todo(proc[p].todo, proc[p].t)
    BY DEF Calls, Owing, PullInv, Shape
  <2> QED BY <1>2, <2>1, TailOwed
<1>4. \/ StateIs(w.id, {"ROUTING"})
      \/ Doomed(w.id)
  BY <1>2, <1>3 DEF PullInv, Sound, Holder, Blocking
<1>5. w.id # t
  BY <1>4, DoomedNotBegun DEF PullInv, Assigned, StateIs, Known, Begun
<1>6. task'[t] = task[t] /\ DOMAIN task' = DOMAIN task
  BY <1>2, <1>5 DEF Rows, Assigned, StateIs, Known
<1> QED BY <1>6 DEF Assigned, StateIs, Known

LEMMA PerformFree ==
    ASSUME TypeInv, PullInv, FreeInv, NEW p \in Proc, Perform(p)
    PROVE  FreeInv'
<1>1. Rows /\ Calls /\ W!TypeOK
  BY Tables DEF TypeInv, IInv
<1>2. proc[p].todo # <<>> /\ Pop(p)
  BY DEF Perform, PerformTask, PerformUnreserve, PerformUnclaim, PerformRenew,
         PerformHold, Due
<1>3. PICK todo \in Seq(Write) : todo = proc[p].todo
  BY <1>1 DEF Calls, Owing
<1>4. PICK w, rest, t : w = Head(todo) /\ rest = Tail(todo) /\ t = proc[p].t
  OBVIOUS
<1>5. /\ proc[p].pc \in Loops /\ Todo(todo, t)
  BY <1>2, <1>3, <1>4 DEF PullInv, Shape
<1>6. Range(todo) = {w} \cup Range(rest) /\ w.id = t
  BY <1>2, <1>3, <1>4, <1>5, TailOwed
<1>7. /\ proc'[p].pc = proc[p].pc /\ proc'[p].left = proc[p].left /\ proc'[p].todo = rest
      /\ Alone(p)
  BY <1>1, <1>2, <1>3, <1>4, PopMoves
<1>8. w = Step(p) /\ w \in Write
  BY <1>2, <1>3, <1>4 DEF Step
<1>9. ASSUME NEW op, NEW u, Owes(proc[p], op, u), w.op # op \/ u # t
      PROVE  Owes(proc'[p], op, u)
  BY <1>3, <1>6, <1>7, <1>9 DEF Owes
<1>10. ASSUME NEW u, u # t \/ w.op # "unreserve", KeepsWorker(proc[p], u)
       PROVE  KeepsWorker(proc'[p], u)
  BY <1>5, <1>9, <1>10 DEF KeepsWorker, Loops
<1>11. ASSUME NEW u, u # t \/ w.op # "unclaim", KeepsPaths(proc[p], u)
       PROVE  KeepsPaths(proc'[p], u)
  BY <1>5, <1>9, <1>11 DEF KeepsPaths, Loops
<1>12. \A u : Assigned(u) => Assigned(u)'
  <2>1. CASE PerformTask(p)
    BY <1>1, <2>1, AssignedUntouched
  <2>2. CASE UNCHANGED task
    BY <2>2 DEF Assigned, StateIs, Known
  <2> QED BY <2>1, <2>2 DEF Perform, PerformUnreserve, PerformUnclaim, PerformRenew, PerformHold
<1>13. ASSUME NEW u \in DOMAIN reserved' PROVE u \in DOMAIN reserved /\ (w.op = "unreserve" => u # t)
  <2>1. CASE PerformUnreserve(p)
    BY <1>6, <1>8, <1>13, <2>1 DEF PerformUnreserve, Without
  <2>2. CASE PerformRenew(p)
    BY <1>8, <1>13, <2>2 DEF PerformRenew, Due, Step
  <2>3. CASE PerformTask(p) \/ PerformUnclaim(p) \/ PerformHold(p)
    BY <1>8, <1>13, <2>3 DEF PerformTask, PerformUnclaim, PerformHold, Due, Step
  <2> QED BY <2>1, <2>2, <2>3 DEF Perform
<1>14. ASSUME NEW u, W!Leased(claims', u)
       PROVE  W!Leased(claims, u) /\ (w.op = "unclaim" => u # t)
  <2>1. t \in Task
    BY <1>6, <1>8 DEF Write
  <2>2. CASE PerformUnclaim(p)
    <3>1. w.to \in Outcome
      BY <1>8, <2>2 DEF PerformUnclaim, Due, Step, Write
    <3>2. CASE W!Release(t, w.to)
      <4>1. t \in DOMAIN claims /\ claims[t] \in W!Row
        BY <1>1, <3>2 DEF W!Release, W!TypeOK
      <4>2. claims'[t].state = w.to
        BY <3>2, <4>1 DEF W!Release, W!Row
      <4>3. ~W!Leased(claims', t)
        BY <3>1, <4>2 DEF W!Leased, Outcome, W!LEASE_STATES
      <4>4. W!Leased(claims, u)
        BY <1>1, <1>14, <2>1, <3>1, <3>2, LeaseTyped DEF W!Leased
      <4> QED BY <1>14, <4>3, <4>4
    <3>3. CASE (t \in DOMAIN claims => claims[t].state \in W!TERMINAL_STATES) /\ UNCHANGED claims
      BY <1>14, <3>3 DEF W!Leased, W!LEASE_STATES, W!TERMINAL_STATES
    <3> QED BY <1>6, <1>8, <2>2, <3>2, <3>3 DEF PerformUnclaim
  <2>3. CASE PerformHold(p)
    <3>1. "DONE" \in Outcome
      BY DEF Outcome
    <3>2. W!Leased(claims, u)
      BY <1>1, <1>6, <1>8, <1>14, <2>1, <2>3, <3>1, LeaseTyped DEF PerformHold, W!Leased
    <3> QED BY <1>8, <2>3, <3>2 DEF PerformHold, Due, Step
  <2>4. CASE PerformTask(p) \/ PerformUnreserve(p) \/ PerformRenew(p)
    BY <1>8, <1>14, <2>4 DEF PerformTask, PerformUnreserve, PerformRenew, Due, Step
  <2> QED BY <2>2, <2>3, <2>4 DEF Perform
<1> QED BY <1>7, <1>10, <1>11, <1>12, <1>13, <1>14, FreeStep

\* What a call answers for once it has decided.
LEMMA AnswersFor ==
    ASSUME NEW r, NEW t, NEW w, w \in Range(r.todo), w.id = t
    PROVE  /\ w.op = "unreserve" => KeepsWorker(r, t)
           /\ w.op = "unclaim" => KeepsPaths(r, t)
BY DEF KeepsWorker, KeepsPaths, Owes

\* A call that has just one task at hand answers for no other.
LEMMA OneAtHand ==
    ASSUME NEW r, r.todo = <<>>, r.pc # "each"
    PROVE  \A t : t # r.t => ~KeepsWorker(r, t) /\ ~KeepsPaths(r, t)
<1>1. Range(r.todo) = {}
  BY DEF Range
<1> QED BY <1>1 DEF KeepsWorker, KeepsPaths, Owes

\* The call owes the release of all that is kept for t.
LEMMA LetsGo ==
    ASSUME FreeInv, NEW p \in Proc, Alone(p), UNCHANGED <<reserved, claims>>,
           NEW t, NEW to, Unreserve(t) \in Range(proc'[p].todo), Unclaim(t, to) \in Range(proc'[p].todo),
           \A u : u # t => ~KeepsWorker(proc[p], u) /\ ~KeepsPaths(proc[p], u),
           \A u : u # t /\ Assigned(u) => Assigned(u)'
    PROVE  FreeInv'
<1>1. KeepsWorker(proc'[p], t) /\ KeepsPaths(proc'[p], t)
  BY Ops, AnswersFor
<1> QED BY <1>1, FreeStep

LEMMA SameAssigned ==
    ASSUME UNCHANGED task
    PROVE  \A t : Assigned(t) <=> Assigned(t)'
BY DEF Assigned, StateIs, Known

\* The steps of a pull that has nothing reserved yet, and reads.
LEMMA ReadsFree ==
    ASSUME Rows, Calls, PullInv, FreeInv, NEW p \in Proc,
           \/ CountAssigned(p) \/ ListCandidates(p) \/ NextCandidate(p) \/ EndPull(p)
           \/ CheckDependencies(p) \/ AcquireDispatchLease(p)
           \/ StartTick(p) \/ ListLostAssignments(p) \/ EndTick(p) \/ ListRenewals(p)
           \/ p \in Agent /\ (RegisterSession(p) \/ Pulse(p) \/ BeginPull(p) \/ BeginComplete(p))
    PROVE  FreeInv'
<1>1. /\ proc[p].todo = <<>> /\ proc[p].pc \notin {"each", "claim", "assign"}
      /\ UNCHANGED <<reserved, claims>>
  BY DEF CountAssigned, ListCandidates, NextCandidate, EndPull, CheckDependencies,
         AcquireDispatchLease, StartTick, ListLostAssignments, EndTick, ListRenewals,
         RegisterSession, Pulse, BeginPull, BeginComplete, Command, At, ReadOnly, tables
<1>2. Alone(p)
  BY AgentStepAlone, TickStepAlone, CommandAlone DEF AgentStep, TickStep, AgentCommand
<1>3. \A t : Assigned(t) => Assigned(t)'
  <2>1. CASE AcquireDispatchLease(p)
    <3>1. \/ /\ MayAcquire(proc[p].t)
             /\ \E old \in Stamp : task' = [task EXCEPT ![proc[p].t].state = "ROUTING",
                                                       ![proc[p].t].old = old]
          \/ UNCHANGED task
      BY <2>1 DEF AcquireDispatchLease
    <3> QED BY <3>1 DEF Assigned, StateIs, Known, MayAcquire, SCHEDULABLE, Rows
  <2>2. CASE UNCHANGED task
    BY <2>2, SameAssigned
  <2> QED BY <2>1, <2>2 DEF CountAssigned, ListCandidates, NextCandidate, EndPull,
         CheckDependencies, StartTick, ListLostAssignments, EndTick, ListRenewals,
         RegisterSession, Pulse, BeginPull, BeginComplete, ReadOnly, tables
<1> QED BY <1>1, <1>2, <1>3, FreeRead

LEMMA RouteFree ==
    ASSUME Calls, FreeInv, NEW p \in Proc, RouteAndReserve(p)
    PROVE  FreeInv'
<1>1. PICK t : t = proc[p].t
  OBVIOUS
<1>2. PICK kept : kept = [u \in Unexpired |-> reserved[u]]
  OBVIOUS
<1>3. DOMAIN kept \subseteq DOMAIN reserved
  BY <1>2 DEF Unexpired
<1>4. /\ proc[p].todo = <<>> /\ proc[p].pc \notin {"each", "claim", "assign"}
      /\ UNCHANGED <<task, claims>>
  BY DEF RouteAndReserve, At
<1>5. Alone(p)
  BY AgentStepAlone DEF AgentStep
<1>6. \/ Goto(p, "claim", [t |-> t]) /\ DOMAIN reserved' \subseteq DOMAIN kept \cup {t}
      \/ reserved' = kept
  BY <1>1, <1>2 DEF RouteAndReserve, With
<1>7. \A u : ~KeepsWorker(proc[p], u) /\ ~KeepsPaths(proc[p], u)
  BY <1>4, EmptyHanded
<1>8. \A u \in DOMAIN reserved' : u \in DOMAIN reserved \/ KeepsWorker(proc'[p], u)
  <2>1. CASE Goto(p, "claim", [t |-> t]) /\ DOMAIN reserved' \subseteq DOMAIN kept \cup {t}
    <3>1. proc'[p].t = t /\ proc'[p].pc = "claim"
      BY <2>1, GotoTask
    <3>2. KeepsWorker(proc'[p], t)
      BY <3>1 DEF KeepsWorker
    <3> QED BY <1>3, <2>1, <3>2
  <2> QED BY <1>3, <1>6, <2>1
<1>9. \A u : Assigned(u) <=> Assigned(u)'
  BY <1>4, SameAssigned
<1> QED BY <1>4, <1>5, <1>7, <1>8, <1>9, FreeStep

LEMMA ClaimFree ==
    ASSUME TypeInv, FreeInv, NEW p \in Proc, ClaimWorkspace(p)
    PROVE  FreeInv'
<1>1. Rows /\ Calls /\ AgentsCall /\ W!TypeOK
  BY Tables DEF TypeInv, IInv
<1>2. AgentStep(p)
  BY DEF AgentStep
<1>3. Alone(p) /\ AgentOf[p] \in Session
  BY <1>1, <1>2, AgentStepAlone, AgentSteps
<1>4. PICK t : t = proc[p].t
  OBVIOUS
<1>5. /\ proc[p].pc = "claim" /\ proc[p].todo = <<>> /\ t \in Task
      /\ UNCHANGED <<task, reserved>>
  BY <1>1, <1>4 DEF ClaimWorkspace, At, Calls, Owing, Pulling
<1>6. PICK req : req = Request(t, AgentOf[p])
  OBVIOUS
<1>7. \A u : /\ ~KeepsPaths(proc[p], u)
             /\ u # t => ~KeepsWorker(proc[p], u)
  <2>1. Range(proc[p].todo) = {}
    BY <1>5 DEF Range
  <2> QED BY <1>4, <1>5, <2>1 DEF KeepsPaths, KeepsWorker, Owes
<1>8. \/ Goto(p, "assign", [t |-> t])
      \/ /\ Decide(p, "pull", <<Unreserve(t), Set(t, "QUEUED")>>)
         /\ W!ClaimRefused(t, req, 0) \/ W!ClaimQueued(t, req, 0)
  BY <1>4, <1>6 DEF ClaimWorkspace
<1>9. \/ UNCHANGED claims
      \/ W!ClaimRefused(t, req, 0) \/ W!ClaimRenewed(t, req, 0)
      \/ W!ClaimQueued(t, req, 0) \/ W!ClaimGranted(t, req, 0)
  BY <1>4, <1>6 DEF ClaimWorkspace, Granted
<1>10. KeepsWorker(proc'[p], t)
  <2>1. CASE Goto(p, "assign", [t |-> t])
    BY <1>1, <2>1, GotoTask DEF KeepsWorker
  <2>2. CASE Decide(p, "pull", <<Unreserve(t), Set(t, "QUEUED")>>)
    <3>1. PICK u, w, steps : /\ u = Unreserve(t) /\ w = Set(t, "QUEUED") /\ steps = <<u, w>>
      OBVIOUS
    <3>2. Range(<<u, w>>) = {u, w}
      BY <3>1, Ops, TwoOwed
    <3>3. proc'[p].todo = steps
      BY <1>1, <2>2, <3>1, DecideMoves
    <3> QED BY <3>1, <3>2, <3>3, Ops, AnswersFor
  <2> QED BY <1>8, <2>1, <2>2
<1>11. ASSUME NEW u, W!Leased(claims', u), u # t \/ ~Goto(p, "assign", [t |-> t])
       PROVE  W!Leased(claims, u)
  <2>1. u \in DOMAIN claims'
    BY <1>11 DEF W!Leased
  <2>2. CASE UNCHANGED claims
    BY <1>11, <2>2 DEF W!Leased
  <2>3. CASE u # t
    BY <1>1, <1>3, <1>5, <1>6, <1>9, <1>11, <2>1, <2>2, <2>3, ClaimTyped
  <2>4. CASE u = t
    BY <1>1, <1>3, <1>5, <1>6, <1>8, <1>11, <2>4, ClaimTyped
  <2> QED BY <2>3, <2>4
<1>12. Goto(p, "assign", [t |-> t]) => KeepsPaths(proc'[p], t)
  BY <1>1, GotoTask DEF KeepsPaths
<1>13. \A u : Assigned(u) <=> Assigned(u)'
  BY <1>5, SameAssigned
<1> QED BY <1>3, <1>5, <1>7, <1>10, <1>11, <1>12, <1>13, FreeStep

\* An assignment that fails is given up, with all that was kept for it.
LEMMA AssignmentFree ==
    ASSUME Rows, Calls, PullInv, FreeInv, NEW p \in Proc,
           WorkspaceFails(p) \/ LoseAssignment(p)
    PROVE  FreeInv'
<1>1. PICK t : t = proc[p].t
  OBVIOUS
<1>2. /\ proc[p].pc = "assign" /\ proc[p].todo = <<>>
      /\ UNCHANGED <<task, reserved, claims>>
  BY DEF WorkspaceFails, LoseAssignment, At, ReadOnly, tables
<1>3. \A u : u # t => ~KeepsWorker(proc[p], u) /\ ~KeepsPaths(proc[p], u)
  BY <1>1, <1>2, OneAtHand
<1>4. \A u : u # t /\ Assigned(u) => Assigned(u)'
  BY <1>2, SameAssigned
<1>5. CASE WorkspaceFails(p)
  <2>1. PICK a, b, w : a = Unreserve(t) /\ b = Unclaim(t, "BLOCKED") /\ w = Set(t, "BLOCKED")
    OBVIOUS
  <2>2. a.id = t /\ a.op = "unreserve" /\ b.id = t /\ b.op = "unclaim" /\ w.id = t
    BY <2>1, Ops
  <2>3. PICK steps : steps = <<a, b>> \o <<w>>
    OBVIOUS
  <2>4. Range(steps) = {a, b, w}
    BY <2>2, <2>3, ThreeOwed
  <2>5. Decide(p, "idle", steps)
    BY <1>1, <1>5, <2>1, <2>3 DEF WorkspaceFails, Release
  <2>6. Alone(p) /\ proc'[p].todo = steps
    BY <2>5, DecideMoves
  <2> QED BY <1>2, <1>3, <1>4, <2>1, <2>4, <2>6, LetsGo
<1>6. CASE LoseAssignment(p)
  <2>1. PICK steps : steps = Release(t, "RETRYABLE")
    OBVIOUS
  <2>2. Range(steps) = {Unreserve(t), Unclaim(t, "RETRYABLE")}
    BY <2>1, Owed
  <2>3. Decide(p, "pull", steps)
    BY <1>1, <1>6, <2>1 DEF LoseAssignment
  <2>4. Alone(p) /\ proc'[p].todo = steps
    BY <2>3, DecideMoves
  <2> QED BY <1>2, <1>3, <1>4, <2>2, <2>4, LetsGo
<1> QED BY <1>5, <1>6

\* What is kept for the task is kept for an assigned one from now on.
LEMMA AssignFree ==
    ASSUME Rows, Calls, PullInv, FreeInv, NEW p \in Proc, AssignTask(p)
    PROVE  FreeInv'
<1>1. PICK t : t = proc[p].t
  OBVIOUS
<1>2. /\ proc[p].pc = "assign" /\ proc[p].todo = <<>> /\ Exit(p)
      /\ UNCHANGED <<reserved, claims>>
      /\ task' = [task EXCEPT ![t] = [task[t] EXCEPT !.state = "ASSIGNED",
              !.session = AgentOf[p], !.attempts = task[t].attempts + 1, !.old = FALSE]]
  BY <1>1 DEF AssignTask, At
<1>3. t \in DOMAIN task
  BY <1>1, <1>2 DEF PullInv, Sound, Pulling, Known
<1>4. DOMAIN task' = DOMAIN task /\ task'[t].state = "ASSIGNED"
      /\ \A u \in DOMAIN task \ {t} : task'[u] = task[u]
  BY <1>2, <1>3 DEF Rows
<1>5. Assigned(t)' /\ \A u : Assigned(u) => Assigned(u)'
  BY <1>3, <1>4 DEF Assigned, StateIs, Known
<1>6. \A u : u # t => ~KeepsWorker(proc[p], u) /\ ~KeepsPaths(proc[p], u)
  BY <1>1, <1>2, OneAtHand
<1>7. Alone(p)
  BY <1>2, ExitMoves
<1> QED BY <1>2, <1>5, <1>6, <1>7, FreeStep

\* A task that is not assigned any more is let go.
LEMMA EndingFree ==
    ASSUME Rows, Calls, PullInv, FreeInv, NEW p \in Proc,
           RecordCompletion(p) \/ RecoverRouting(p) \/ ExpireAssignment(p)
    PROVE  FreeInv'
<1>1. /\ proc[p].todo = <<>> /\ proc[p].pc \notin {"each", "claim", "assign"}
      /\ UNCHANGED <<reserved, claims>>
  BY DEF RecordCompletion, RecoverRouting, ExpireAssignment, At
<1>2. \A u : ~KeepsWorker(proc[p], u) /\ ~KeepsPaths(proc[p], u)
  BY <1>1, EmptyHanded
<1>3. Alone(p)
  BY AgentStepAlone, TickStepAlone DEF AgentStep, TickStep
<1>4. CASE UNCHANGED task
  BY <1>1, <1>3, <1>4, FreeRead, SameAssigned
<1>5. ASSUME NEW t \in DOMAIN task, NEW to, NEW sid,
             \/ task' = [task EXCEPT ![t] = [task[t] EXCEPT !.state = to, !.session = sid,
                                                            !.old = FALSE]]
             \/ task' = [task EXCEPT ![t].state = to, ![t].old = FALSE]
      PROVE  \A u : u # t /\ Assigned(u) => Assigned(u)'
  BY <1>5 DEF Rows, Assigned, StateIs, Known
<1>6. CASE RecordCompletion(p)
  <2>1. PICK t, to, s : t = proc[p].t /\ to = proc[p].to /\ s = AgentOf[p]
    OBVIOUS
  <2>2. CASE t \in AssignedTo(s)
    <3>1. PICK steps : steps = <<Unclaim(t, to), Unreserve(t)>>
      OBVIOUS
    <3>2. /\ task' = [task EXCEPT ![t] = [task[t] EXCEPT
                 !.state = to, !.session = NoSession, !.old = FALSE]]
          /\ Decide(p, "idle", steps)
      BY <1>6, <2>1, <2>2, <3>1 DEF RecordCompletion
    <3>3. Range(steps) = {Unreserve(t), Unclaim(t, to)}
      BY <3>1, Owed
    <3>4. proc'[p].todo = steps
      BY <3>2, DecideMoves
    <3>5. \A u : u # t /\ Assigned(u) => Assigned(u)'
      BY <1>5, <2>2, <3>2 DEF AssignedTo
    <3> QED BY <1>1, <1>2, <1>3, <3>3, <3>4, <3>5, LetsGo
  <2> QED BY <1>4, <1>6, <2>1, <2>2 DEF RecordCompletion
<1>7. ASSUME NEW t, NEW to, NEW pc, NEW left,
             Goto(p, pc, [left |-> left, t |-> t, todo |-> Release(t, to)]),
             \A u : u # t /\ Assigned(u) => Assigned(u)'
      PROVE  FreeInv'
  <2>1. PICK steps : steps = Release(t, to)
    OBVIOUS
  <2>2. Range(steps) = {Unreserve(t), Unclaim(t, to)}
    BY <2>1, Owed
  <2>3. proc'[p].todo = steps
    <3>1. [left |-> left, t |-> t, todo |-> steps] = [t |-> t, todo |-> steps, left |-> left]
      OBVIOUS
    <3> QED BY <1>7, <2>1, <3>1, GotoRound
  <2> QED BY <1>1, <1>2, <1>3, <1>7, <2>2, <2>3, LetsGo
<1>8. CASE RecoverRouting(p)
  <2>1. proc[p].left \subseteq DOMAIN task
    BY <1>8 DEF RecoverRouting, At, PullInv, Sound
  <2>2. PICK t \in proc[p].left :
           \/ /\ task' = [task EXCEPT ![t].state = "RETRYABLE", ![t].old = FALSE]
              /\ Goto(p, "recover", [left |-> proc[p].left \ {t}, t |-> t,
                                     todo |-> Release(t, "RETRYABLE")])
           \/ UNCHANGED task
    BY <1>8 DEF RecoverRouting
  <2> QED BY <1>4, <1>5, <1>7, <2>1, <2>2
<1>9. CASE ExpireAssignment(p)
  <2>1. PICK r \in proc[p].left :
           \/ /\ r.t \in AssignedTo(r.s)
              /\ task' = [task EXCEPT ![r.t] = [task[r.t] EXCEPT
                    !.state = r.to, !.session = NoSession, !.old = FALSE]]
              /\ Goto(p, "expire", [left |-> proc[p].left \ {r}, t |-> r.t,
                                    todo |-> Release(r.t, r.to)])
           \/ UNCHANGED task
    BY <1>9 DEF ExpireAssignment
  <2>2. r.t \in AssignedTo(r.s) => r.t \in DOMAIN task
    BY DEF AssignedTo
  <2> QED BY <1>4, <1>5, <1>7, <2>1, <2>2
<1> QED BY <1>6, <1>8, <1>9

\* The next round of a loop owes what the loop has owed.
LEMMA EachFree ==
    ASSUME Rows, Calls, PullInv, FreeInv, NEW p \in Proc, Each(p) \/ EndEach(p)
    PROVE  FreeInv'
<1>1. /\ proc[p].todo = <<>> /\ proc[p].pc = "each"
      /\ UNCHANGED <<task, reserved, claims>>
  BY DEF Each, EndEach, At, ReadOnly, tables
<1>2. Alone(p)
  BY AgentStepAlone DEF AgentStep
<1>3. Range(proc[p].todo) = {}
  BY <1>1 DEF Range
<1>4. \A u : Assigned(u) <=> Assigned(u)'
  BY <1>1, SameAssigned
<1>5. \A op, u : Owes(proc[p], op, u) => Owes(proc'[p], op, u)
  <2>1. CASE Each(p)
    <3>1. PICK steps \in proc[p].left :
             Goto(p, "each", [t |-> steps[1].id, todo |-> steps, left |-> proc[p].left \ {steps}])
      BY <2>1 DEF Each
    <3>2. PICK t : t = steps[1].id
      OBVIOUS
    <3>3. /\ proc'[p].pc = "each" /\ proc'[p].todo = steps
          /\ proc'[p].left = proc[p].left \ {steps}
      BY <3>1, <3>2, GotoRound
    <3> QED BY <1>3, <3>3 DEF Owes
  <2>2. CASE EndEach(p)
    BY <1>3, <2>2 DEF EndEach, Owes
  <2> QED BY <2>1, <2>2
<1>6. /\ \A u : KeepsWorker(proc[p], u) => KeepsWorker(proc'[p], u)
      /\ \A u : KeepsPaths(proc[p], u) => KeepsPaths(proc'[p], u)
  BY <1>1, <1>5 DEF KeepsWorker, KeepsPaths
<1> QED BY <1>1, <1>2, <1>4, <1>6, FreeStep

\* The call that closes a session answers for all that its tasks keep.
LEMMA CloseFree ==
    ASSUME Rows, Calls, PullInv, FreeInv, NEW p \in Agent, CloseSession(p)
    PROVE  FreeInv'
<1>1. PICK mine, left : /\ mine = AssignedTo(AgentOf[p])
                        /\ left = {Release(t, "RETRYABLE") : t \in mine}
  OBVIOUS
<1>2. /\ task' = [t \in DOMAIN task |->
              IF t \in mine
              THEN [task[t] EXCEPT !.state = "RETRYABLE", !.session = NoSession, !.old = FALSE]
              ELSE task[t]]
      /\ Goto(p, "each", [left |-> left])
      /\ proc[p].todo = <<>> /\ proc[p].pc = "idle" /\ p \in Proc
      /\ UNCHANGED <<reserved, claims>>
  BY <1>1 DEF CloseSession, Command, At, Proc
<1>3. Alone(p) /\ proc'[p].pc = "each" /\ proc'[p].left = left
  BY <1>2, GotoLeft
<1>4. \A u : ~KeepsWorker(proc[p], u) /\ ~KeepsPaths(proc[p], u)
  BY <1>2, EmptyHanded
<1>5. \A u : u \notin mine /\ Assigned(u) => Assigned(u)'
  BY <1>2 DEF Assigned, StateIs, Known
<1>6. ASSUME NEW t \in mine PROVE KeepsWorker(proc'[p], t) /\ KeepsPaths(proc'[p], t)
  <2>1. PICK a, b, steps : /\ a = Unreserve(t) /\ b = Unclaim(t, "RETRYABLE")
                           /\ steps = Release(t, "RETRYABLE")
    OBVIOUS
  <2>2. Range(steps) = {a, b} /\ a.op = "unreserve" /\ b.op = "unclaim" /\ a.id = t /\ b.id = t
    BY <2>1, Owed, Ops
  <2>3. steps \in proc'[p].left
    BY <1>1, <1>3, <1>6, <2>1
  <2> QED BY <1>3, <2>2, <2>3 DEF KeepsWorker, KeepsPaths, Owes
<1> QED BY <1>2, <1>3, <1>4, <1>5, <1>6, FreeStep

\* No process is killed.
Unkilled == "crash" \notin Faults /\ Mortal = {}

LEMMA EnvironmentFree ==
    ASSUME Orderly, Unkilled, TypeInv, FreeInv, Environment
    PROVE  FreeInv'
<1>1. Rows /\ W!TypeOK
  BY Tables DEF TypeInv, IInv
<1>2. UNCHANGED proc
  <2>1. \A s \in Session : ~Die(s)
    BY DEF Die, Unkilled
  <2> QED BY <2>1 DEF Environment, SubmitTask, DiscoverSession, Lapse, TwoMinutes, Outage
<1>3. ASSUME NEW t, Assigned(t) PROVE Assigned(t)'
  <2>1. ASSUME NEW u \in Task, SubmitTask(u) PROVE Assigned(t)'
    BY <1>3, <2>1 DEF SubmitTask, With, Assigned, StateIs, Known
  <2>2. CASE TwoMinutes
    <3>1. PICK b : b = (task[t].old \/ (task[t].state = "ROUTING" /\ Ages(t)))
      OBVIOUS
    <3>2. task'[t] = [task[t] EXCEPT !.old = b] /\ DOMAIN task' = DOMAIN task
      BY <1>3, <2>2, <3>1 DEF TwoMinutes, Assigned, StateIs, Known
    <3> QED BY <1>1, <1>3, <3>2 DEF Assigned, StateIs, Known, Rows
  <2>3. CASE UNCHANGED task
    BY <1>3, <2>3, SameAssigned
  <2> QED BY <1>2, <2>1, <2>2, <2>3 DEF Environment, DiscoverSession, Lapse, Outage, Die, tables
<1>4. /\ DOMAIN reserved' \subseteq DOMAIN reserved
      /\ \A t : W!Leased(claims', t) => W!Leased(claims, t)
  <2>1. CASE Outage
    <3>1. DOMAIN reserved' = DOMAIN reserved /\ DOMAIN claims' = DOMAIN claims
      BY <2>1 DEF Outage
    <3>2. ASSUME NEW t \in DOMAIN claims PROVE claims'[t].state = claims[t].state
      <4>1. claims[t] \in W!Row
        BY <1>1, <3>2 DEF W!TypeOK
      <4>2. claims'[t] = claims[t] \/ claims'[t] = [claims[t] EXCEPT !.left = 0]
        BY <2>1, <3>2 DEF Outage
      <4> QED BY <4>1, <4>2 DEF W!Row
    <3> QED BY <3>1, <3>2 DEF W!Leased
  <2>2. CASE UNCHANGED <<reserved, claims>>
    BY <2>2 DEF W!Leased
  <2> QED BY <2>1, <2>2 DEF Environment, SubmitTask, DiscoverSession, Lapse, TwoMinutes, Die, tables
<1> QED BY <1>2, <1>3, <1>4, FreeOutside

LEMMA InitFree == Init => FreeInv
BY DEF Init, FreeInv, W!Init, W!Leased

LEMMA NextFree ==
    ASSUME Orderly, Unkilled, TypeInv, PullInv, FreeInv, [Next]_vars
    PROVE  FreeInv'
<1>1. Rows /\ Calls
  BY DEF TypeInv, IInv
<1>2. ASSUME NEW p \in Proc, AgentStep(p) PROVE FreeInv'
  BY <1>1, <1>2, ReadsFree, RouteFree, ClaimFree, AssignmentFree, AssignFree, EndingFree, EachFree
     DEF AgentStep
<1>3. ASSUME NEW p \in Proc, TickStep(p) PROVE FreeInv'
  BY <1>1, <1>3, ReadsFree, EndingFree DEF TickStep
<1>4. ASSUME NEW p \in Proc, AgentCommand(p) PROVE FreeInv'
  BY <1>1, <1>4, ReadsFree, CloseFree DEF AgentCommand
<1>5. CASE UNCHANGED vars
  <2>1. UNCHANGED <<task, reserved, claims, proc>>
    BY <1>5 DEF vars
  <2> QED BY <2>1, SameAssigned, FreeOutside DEF W!Leased
<1>6. \A p \in Proc : ~Crash(p)
  BY DEF Crash, Unkilled
<1> QED BY <1>2, <1>3, <1>4, <1>5, <1>6, PerformFree, EnvironmentFree DEF Next, Run

\* A call that keeps something for t has t in its hands.
LEMMA NotResting ==
    ASSUME PullInv, NEW p \in Proc, NEW t, KeepsWorker(proc[p], t) \/ KeepsPaths(proc[p], t)
    PROVE  ~Resting(t)
<1>1. PICK r : r = proc[p]
  OBVIOUS
<1>2. Shape(r)
  BY <1>1 DEF PullInv
<1>3. ASSUME NEW op, Owes(r, op, t)
      PROVE  r.t = t \/ (r.pc = "each" /\ \E steps \in r.left : steps[1].id = t)
  <2>1. CASE \E e \in Range(r.todo) : e.op = op /\ e.id = t
    BY <1>2, <2>1 DEF Shape, Todo
  <2>2. ASSUME r.pc = "each", NEW steps \in r.left, NEW e \in Range(steps), e.id = t
        PROVE  steps[1].id = t
    BY <1>2, <2>2 DEF Shape, Loose
  <2> QED BY <1>3, <2>1, <2>2 DEF Owes
<1>4. r.t = t \/ (r.pc = "each" /\ \E steps \in r.left : steps[1].id = t)
  BY <1>1, <1>3 DEF KeepsWorker, KeepsPaths
<1> QED BY <1>1, <1>4 DEF Resting

\* The worker and the paths of a task are released by calls of their own, after
\* the transaction that has ended the task, given it back or lost it.  However
\* pulls, completions, closings and expiries of many sessions interleave, a task
\* that waits or is over, and that no call has in its hands, holds neither: as
\* long as no process is killed between two of its steps.
THEOREM NothingKept ==
    ASSUME Orderly, Unkilled
    PROVE  Spec => []ReleasedWhenOver
<1>1. Init => TypeInv /\ PullInv /\ FreeInv
  BY InitTyped, InitPull, InitFree
<1>2. TypeInv /\ PullInv /\ FreeInv /\ [Next]_vars => (TypeInv /\ PullInv /\ FreeInv)'
  BY NextTyped, NextPull, NextFree DEF TypeInv, IInv
<1>3. PullInv /\ FreeInv => ReleasedWhenOver
  <2> SUFFICES ASSUME PullInv, FreeInv, NEW t \in DOMAIN task,
                      task[t].state \in SCHEDULABLE \cup TERMINAL, Resting(t)
               PROVE  t \notin DOMAIN reserved /\ ~W!Leased(claims, t)
    BY DEF ReleasedWhenOver
  <2>1. ~Assigned(t)
    BY DEF Assigned, StateIs, SCHEDULABLE, TERMINAL
  <2> QED BY <2>1, NotResting DEF FreeInv
<1> QED BY <1>1, <1>2, <1>3, PTL DEF Spec

-----------------------------------------------------------------------------
(* Two sessions never work on overlapping paths                              *)

\* Nobody misses a heartbeat, disables a session or runs two commands for one
\* at a time, so that no tick ever takes a task from a session.
Attended ==
    /\ "late" \notin Faults /\ "outage" \notin Faults /\ "disable" \notin Commands
    /\ \A p, q \in Agent : AgentOf[p] = AgentOf[q] => p = q

Mine(t, s) == W!Leased(claims, t) /\ claims[t].owner = s

Choosing == {"list", "pull"} \cup Pulling

Present(s) == Registered(s) /\ ~Lost(s)

\* The session can take the task at hand, and the paths that the call answers
\* for are its own.
Ready(p) ==
    /\ proc[p].pc \notin {"recover", "expire"}
    /\ proc[p].pc \in {"count"} \cup Choosing => Registered(AgentOf[p])
    /\ proc[p].pc \in Choosing => HasRoomFor(AgentOf[p])
    /\ proc[p].pc = "assign" /\ NeedsClaim(proc[p].t) => Mine(proc[p].t, AgentOf[p])
    /\ \A t : Owes(proc[p], "unclaim", t) /\ NeedsClaim(t) =>
          /\ t \in DOMAIN claims /\ claims[t].owner = AgentOf[p]
          /\ t \notin AssignedTo(AgentOf[p])

\* An assigned task has its session and its paths, one in ROUTING its call.
Cared(t) ==
    /\ task[t].state = "ASSIGNED" =>
          /\ Present(task[t].session)
          /\ NeedsClaim(t) => Mine(t, task[t].session)
    /\ task[t].state = "ROUTING" => \E p \in Proc : Holder(proc[p]) /\ proc[p].t = t

\* A tick finds nothing to do.
Vain(r) == r.left = {} /\ r.todo = <<>>

\* No claim expires, and none overlaps another one.
Leases ==
    /\ \A t \in DOMAIN claims :
          /\ claims[t].base = BaseOf[t] /\ claims[t].scopes = ScopesOf[t]
          /\ claims[t].state \in W!EXPIRING_STATES => claims[t].left > 0
    /\ W!LeasesDisjoint

ShareInv ==
    /\ gone = {}
    /\ \A p \in Agent : Ready(p)
    /\ \A t \in DOMAIN task : Cared(t)
    /\ \A p \in Proc \ Agent : Vain(proc[p])
    /\ Leases

\* The step takes no paths from those who are about to work on them, and no
\* claim changes hands.
Respects(p) ==
    /\ \A t \in DOMAIN claims : t \in DOMAIN claims' /\ claims'[t].owner = claims[t].owner
    /\ \A q \in Agent \ {p} :
          /\ AssignedTo(AgentOf[q])' \subseteq AssignedTo(AgentOf[q])
          /\ proc[q].pc = "assign" /\ NeedsClaim(proc[q].t) /\ W!Leased(claims, proc[q].t) =>
                W!Leased(claims', proc[q].t)

\* A session that is assigned nothing more keeps its room.
LEMMA RoomKept ==
    ASSUME Bounded, NEW s \in Session, AssignedTo(s)' \subseteq AssignedTo(s), HasRoomFor(s)
    PROVE  HasRoomFor(s)'
<1>1. PICK a, b : a = AssignedTo(s) /\ b = AssignedTo(s)'
  OBVIOUS
<1>2. IsFiniteSet(a) /\ b \subseteq a
  BY <1>1 DEF Bounded
<1>3. /\ Cardinality(b) <= Cardinality(a) /\ Cardinality(a) \in Nat /\ Cardinality(b) \in Nat
  BY <1>2, FS_Subset, FS_CardinalityType
<1> QED BY <1>1, <1>3, SessionsAssumption DEF HasRoomFor

LEMMA ReadyKept ==
    ASSUME Bounded, NEW p \in Proc, Alone(p), Respects(p), NEW q \in Agent, q # p, Ready(q),
           DOMAIN session \subseteq DOMAIN session'
    PROVE  Ready(q)'
<1>1. /\ AgentOf[q] \in Session /\ proc'[q] = proc[q]
      /\ AssignedTo(AgentOf[q])' \subseteq AssignedTo(AgentOf[q])
  BY SessionsAssumption DEF Alone, Proc, Respects
<1>2. HasRoomFor(AgentOf[q]) => HasRoomFor(AgentOf[q])'
  BY <1>1, RoomKept
<1>3. Registered(AgentOf[q]) => Registered(AgentOf[q])'
  BY DEF Registered
<1>4. proc[q].pc = "assign" /\ NeedsClaim(proc[q].t) /\ Mine(proc[q].t, AgentOf[q]) =>
         Mine(proc[q].t, AgentOf[q])'
  <2>1. PICK t : t = proc[q].t
    OBVIOUS
  <2>2. proc[q].pc = "assign" /\ NeedsClaim(t) /\ Mine(t, AgentOf[q]) => Mine(t, AgentOf[q])'
    BY <2>1 DEF Mine, Respects, W!Leased
  <2> QED BY <1>1, <2>1, <2>2 DEF Mine, W!Leased
<1>5. ASSUME NEW t, Owes(proc'[q], "unclaim", t), NeedsClaim(t)
      PROVE  /\ t \in DOMAIN claims' /\ claims'[t].owner = AgentOf[q]
             /\ t \notin AssignedTo(AgentOf[q])'
  BY <1>1, <1>5 DEF Ready, Respects
<1> QED BY <1>1, <1>2, <1>3, <1>4, <1>5 DEF Ready, Owes, Mine, W!Leased

LEMMA ShareStep ==
    ASSUME Bounded, ShareInv, NEW p \in Proc, Alone(p), UNCHANGED gone, Respects(p),
           DOMAIN session \subseteq DOMAIN session', Leases',
           \A t \in DOMAIN task' : Cared(t)',
           p \in Agent => Ready(p)', p \notin Agent => Vain(proc'[p])
    PROVE  ShareInv'
<1>1. \A q \in Agent : Ready(q)'
  BY ReadyKept DEF ShareInv
<1>2. \A q \in Proc \ Agent : Vain(proc'[q])
  BY DEF ShareInv, Alone
<1> QED BY <1>1, <1>2 DEF ShareInv, Vain

\* The step leaves p in charge of what it was in charge of.
StillHolds(p) == Holder(proc[p]) => Holder(proc'[p]) /\ proc'[p].t = proc[p].t

LEMMA CaredKept ==
    ASSUME NEW p \in Proc, Alone(p), NEW t \in DOMAIN task, Cared(t),
           Holder(proc[p]) /\ proc[p].t = t => Holder(proc'[p]) /\ proc'[p].t = t,
           task'[t].state = task[t].state, task'[t].session = task[t].session,
           \A s : task[t].state = "ASSIGNED" /\ s = task[t].session /\ Present(s) => Present(s)',
           \A u \in DOMAIN claims : u \in DOMAIN claims' /\ claims'[u].owner = claims[u].owner,
           task[t].state = "ASSIGNED" /\ NeedsClaim(t) /\ W!Leased(claims, t) =>
               W!Leased(claims', t)
    PROVE  Cared(t)'
<1>1. CASE task[t].state = "ASSIGNED"
  <2>1. PICK s : s = task[t].session
    OBVIOUS
  <2>2. Present(s)'
    BY <1>1, <2>1 DEF Cared
  <2>3. ASSUME NeedsClaim(t) PROVE Mine(t, s)'
    BY <1>1, <2>1, <2>3 DEF Cared, Mine, W!Leased
  <2>4. task'[t].session = s /\ task'[t].state = "ASSIGNED"
    BY <1>1, <2>1
  <2> QED BY <2>2, <2>3, <2>4 DEF Cared, Present, Mine, Registered, Lost, W!Leased
<1>2. CASE task[t].state = "ROUTING"
  <2>1. PICK q \in Proc : Holder(proc[q]) /\ proc[q].t = t
    BY <1>2 DEF Cared
  <2>2. Holder(proc'[q]) /\ proc'[q].t = t
    BY <2>1 DEF Alone
  <2> QED BY <1>2, <2>2 DEF Cared, Holder
<1> QED BY <1>1, <1>2 DEF Cared

\* The tasks stay as they are.
LEMMA QuietShare ==
    ASSUME Bounded, ShareInv, NEW p \in Proc, Alone(p), StillHolds(p), UNCHANGED <<task, gone>>,
           \A s : Present(s) => Present(s)', DOMAIN session \subseteq DOMAIN session',
           Leases',
           \A u \in DOMAIN claims : u \in DOMAIN claims' /\ claims'[u].owner = claims[u].owner,
           \A t : /\ W!Leased(claims, t) /\ NeedsClaim(t)
                  /\ Assigned(t) \/ \E q \in Agent \ {p} : proc[q].pc = "assign" /\ proc[q].t = t
                  => W!Leased(claims', t),
           p \in Agent => Ready(p)', p \notin Agent => Vain(proc'[p])
    PROVE  ShareInv'
<1>1. Respects(p)
  BY DEF Respects, AssignedTo
<1>2. ASSUME NEW t \in DOMAIN task' PROVE Cared(t)'
  <2>1. t \in DOMAIN task /\ Cared(t)
    BY <1>2 DEF ShareInv
  <2>2. task[t].state = "ASSIGNED" => Assigned(t)
    BY <2>1 DEF Assigned, StateIs, Known
  <2> QED BY <2>1, <2>2, CaredKept DEF StillHolds
<1> QED BY <1>1, <1>2, ShareStep

LEMMA SameLeases == ASSUME Leases, UNCHANGED claims PROVE Leases'
BY DEF Leases, W!LeasesDisjoint, W!Leased

\* A call that lets nothing go is ready as long as its session has room.
LEMMA ReadyNow ==
    ASSUME NEW p \in Agent,
           \A e \in Range(proc'[p].todo) : e.op # "unclaim",
           proc'[p].pc \notin {"assign", "recover", "expire"},
           proc'[p].pc = "each" =>
               \A steps \in proc'[p].left : \A e \in Range(steps) : e.op # "unclaim",
           proc'[p].pc \in {"count"} \cup Choosing => Registered(AgentOf[p])',
           proc'[p].pc \in Choosing => HasRoomFor(AgentOf[p])'
    PROVE  Ready(p)'
<1>1. \A t : ~Owes(proc'[p], "unclaim", t)
  BY DEF Owes
<1> QED BY <1>1 DEF Ready, Owes

\* A call reads, and goes on.
LEMMA ReadShare ==
    ASSUME Bounded, ShareInv, NEW p \in Agent, Alone(p), StillHolds(p),
           UNCHANGED <<task, claims, gone>>,
           \A s : Present(s) => Present(s)', DOMAIN session \subseteq DOMAIN session',
           \A e \in Range(proc'[p].todo) : e.op # "unclaim",
           proc'[p].pc \notin {"assign", "recover", "expire"},
           proc'[p].pc = "each" =>
               \A steps \in proc'[p].left : \A e \in Range(steps) : e.op # "unclaim",
           proc'[p].pc \in {"count"} \cup Choosing => Registered(AgentOf[p]),
           proc'[p].pc \in Choosing => HasRoomFor(AgentOf[p])
    PROVE  ShareInv'
<1>1. /\ Registered(AgentOf[p]) => Registered(AgentOf[p])'
      /\ HasRoomFor(AgentOf[p]) => HasRoomFor(AgentOf[p])'
  BY DEF Registered, HasRoomFor, AssignedTo
<1>2. Ready(p)'
  BY <1>1, ReadyNow
<1>3. Leases'
  BY SameLeases DEF ShareInv
<1>4. p \in Proc
  BY DEF Proc
<1> QED BY <1>2, <1>3, <1>4, QuietShare

\* Nobody who is present is sent away.
LEMMA StillPresent ==
    ASSUME SessionsTyped, Attended, NEW p, RegisterSession(p) \/ Pulse(p)
    PROVE  /\ \A s : Present(s) => Present(s)'
           /\ DOMAIN session \subseteq DOMAIN session'
<1>1. PICK x : x = AgentOf[p]
  OBVIOUS
<1>2. CASE RegisterSession(p)
  <2>1. PICK row : row = [state |-> "OPEN", accepts |-> TRUE, hand |-> TRUE, fresh |-> TRUE]
    OBVIOUS
  <2>2. row.state = "OPEN" /\ row.fresh
    BY <2>1
  <2>3. session' = With(session, x, row)
    BY <1>1, <1>2, <2>1 DEF RegisterSession
  <2>4. /\ DOMAIN session' = DOMAIN session \cup {x}
        /\ \A s \in DOMAIN session' : session'[s] = IF s = x THEN row ELSE session[s]
    BY <2>3 DEF With
  <2> QED BY <2>2, <2>4 DEF Present, Registered, Lost
<1>3. CASE Pulse(p)
  <2>1. x \in DOMAIN session /\ session' = [session EXCEPT ![x].fresh = TRUE]
    BY <1>1, <1>3 DEF Pulse, Command, Attended, Registered
  <2>2. session[x] \in SessionRow
    BY <2>1 DEF SessionsTyped
  <2>3. PICK row : row = [session[x] EXCEPT !.fresh = TRUE]
    OBVIOUS
  <2>4. row.fresh /\ row.state = session[x].state
    BY <2>2, <2>3 DEF SessionRow
  <2>5. /\ DOMAIN session' = DOMAIN session
        /\ \A s \in DOMAIN session : session'[s] = IF s = x THEN row ELSE session[s]
    BY <2>1, <2>3
  <2> QED BY <2>1, <2>4, <2>5 DEF Present, Registered, Lost
<1> QED BY <1>2, <1>3

LEMMA CommandShare ==
    ASSUME Attended, TypeInv, PullInv, ShareInv, NEW p \in Agent,
           RegisterSession(p) \/ Pulse(p) \/ BeginPull(p) \/ BeginComplete(p)
    PROVE  ShareInv'
<1>1. Bounded /\ Calls /\ SessionsTyped /\ p \in Proc
  BY Tables DEF TypeInv, IInv, Proc
<1>2. /\ proc[p].pc = "idle" /\ proc[p].todo = <<>>
      /\ UNCHANGED <<task, claims, gone>>
  BY DEF RegisterSession, Pulse, BeginPull, BeginComplete, Command, At, ReadOnly, tables
<1>3. Alone(p)
  BY <1>1, CommandAlone DEF AgentCommand
<1>4. Range(<<>>) = {}
  BY DEF Range
<1>5. StillHolds(p)
  BY <1>2, <1>4 DEF StillHolds, Holder
<1>6. /\ \A s : Present(s) => Present(s)'
      /\ DOMAIN session \subseteq DOMAIN session'
  <2>1. CASE RegisterSession(p) \/ Pulse(p)
    BY <1>1, <2>1, StillPresent
  <2>2. CASE UNCHANGED session
    BY <2>2 DEF Present, Registered, Lost
  <2> QED BY <2>1, <2>2 DEF BeginPull, BeginComplete, ReadOnly, tables
<1>7. /\ proc'[p].todo = <<>> /\ proc'[p].pc \in {"idle", "pulsed", "count", "complete"}
      /\ proc'[p].pc = "count" => Registered(AgentOf[p])
  <2>1. CASE RegisterSession(p)
    BY <1>2, <2>1 DEF RegisterSession
  <2>2. CASE Pulse(p)
    BY <1>1, <2>2, GotoIdle DEF Pulse
  <2>3. CASE BeginPull(p)
    BY <1>1, <2>3, GotoIdle DEF BeginPull, MayPull
  <2>4. CASE BeginComplete(p)
    BY <1>1, <1>2, <2>4, GotoOutcome DEF BeginComplete
  <2> QED BY <2>1, <2>2, <2>3, <2>4
<1> QED BY <1>1, <1>2, <1>3, <1>4, <1>5, <1>6, <1>7, ReadShare DEF Choosing, Pulling

LEMMA ReadsShare ==
    ASSUME TypeInv, PullInv, ShareInv, NEW p \in Proc,
           \/ CountAssigned(p) \/ ListCandidates(p) \/ NextCandidate(p) \/ EndPull(p)
           \/ CheckDependencies(p) \/ RouteAndReserve(p) \/ ListRenewals(p)
    PROVE  ShareInv'
<1>1. Bounded /\ Calls /\ AgentsCall
  BY DEF TypeInv, IInv
<1>2. p \in Agent /\ Alone(p)
  BY <1>1, AgentSteps, AgentStepAlone DEF AgentStep
<1>3. /\ proc[p].todo = <<>> /\ UNCHANGED <<task, session, claims, gone>>
      /\ proc[p].pc \in {"count", "list", "pull", "depend", "route", "pulsed"}
  BY DEF CountAssigned, ListCandidates, NextCandidate, EndPull, CheckDependencies,
         RouteAndReserve, ListRenewals, At, ReadOnly, tables
<1>4. Range(<<>>) = {}
  BY DEF Range
<1>5. /\ proc[p].pc \in {"count"} \cup Choosing => Registered(AgentOf[p])
      /\ proc[p].pc \in Choosing => HasRoomFor(AgentOf[p])
  BY <1>2 DEF ShareInv, Ready
<1>6. /\ \A s : Present(s) => Present(s)'
      /\ DOMAIN session \subseteq DOMAIN session'
  BY <1>3 DEF Present, Registered, Lost
<1>7. ASSUME \A e \in Range(proc'[p].todo) : e.op # "unclaim", StillHolds(p),
             \/ proc'[p].pc = "idle"
             \/ /\ proc'[p].pc \in Choosing \ {"assign"} /\ proc[p].pc \in {"count"} \cup Choosing
                /\ HasRoomFor(AgentOf[p])
             \/ /\ proc'[p].pc = "each"
                /\ \A steps \in proc'[p].left : \A e \in Range(steps) : e.op # "unclaim"
      PROVE  ShareInv'
  BY <1>1, <1>2, <1>3, <1>5, <1>6, <1>7, ReadShare DEF Choosing, Pulling
<1>8. proc[p].pc # "route" => StillHolds(p)
  BY <1>3, <1>4 DEF StillHolds, Holder
<1>9. CASE CountAssigned(p)
  <2>1. proc[p].pc = "count"
    BY <1>9 DEF CountAssigned, At
  <2>2. \/ HasRoomFor(AgentOf[p]) /\ proc'[p].pc = "list" /\ proc'[p].todo = <<>>
        \/ proc'[p].pc = "idle" /\ proc'[p].todo = <<>>
    BY <1>1, <1>9, GotoIdle, ExitMoves DEF CountAssigned
  <2> QED BY <1>4, <1>7, <1>8, <2>1, <2>2 DEF Choosing
<1>10. CASE ListCandidates(p)
  <2>1. PICK left : Goto(p, "pull", [left |-> left])
    BY <1>10 DEF ListCandidates
  <2>2. proc[p].pc = "list" /\ proc'[p].pc = "pull" /\ proc'[p].todo = <<>>
    BY <1>1, <1>3, <1>10, <2>1, GotoLeft DEF ListCandidates, At
  <2> QED BY <1>4, <1>5, <1>7, <1>8, <2>2 DEF Choosing
<1>11. CASE NextCandidate(p)
  <2>1. PICK t, left : Goto(p, "depend", [t |-> t, left |-> left])
    BY <1>11 DEF NextCandidate
  <2>2. proc[p].pc = "pull" /\ proc'[p].pc = "depend" /\ proc'[p].todo = <<>>
    BY <1>1, <1>3, <1>11, <2>1, GotoCandidate DEF NextCandidate, At
  <2> QED BY <1>4, <1>5, <1>7, <1>8, <2>2 DEF Choosing, Pulling
<1>12. CASE EndPull(p)
  <2>1. proc[p].pc = "pull" /\ proc'[p].pc = "idle" /\ proc'[p].todo = <<>>
    BY <1>1, <1>12, ExitMoves DEF EndPull, At
  <2> QED BY <1>4, <1>7, <1>8, <2>1
<1>13. CASE CheckDependencies(p)
  <2>1. PICK t : t = proc[p].t
    OBVIOUS
  <2>2. proc[p].pc = "depend"
    BY <1>13 DEF CheckDependencies, At
  <2>3. \/ Goto(p, "acquire", [t |-> t])
        \/ Decide(p, "pull", <<>>)
        \/ Decide(p, "pull", <<Set(t, "BLOCKED")>>)
    BY <1>13, <2>1 DEF CheckDependencies
  <2>4. proc'[p].pc \in {"acquire", "pull"} /\ \A e \in Range(proc'[p].todo) : e.op # "unclaim"
    <3>1. CASE Goto(p, "acquire", [t |-> t])
      BY <1>1, <1>3, <1>4, <3>1, GotoTask
    <3>2. CASE Decide(p, "pull", <<>>)
      BY <1>1, <1>4, <3>2, DecideMoves
    <3>3. CASE Decide(p, "pull", <<Set(t, "BLOCKED")>>)
      <4>1. PICK w, steps : w = Set(t, "BLOCKED") /\ steps = <<w>>
        OBVIOUS
      <4>2. w.op = "task" /\ Range(steps) = {w}
        BY <4>1, OneOwed DEF Set
      <4>3. proc'[p].pc = "pull" /\ proc'[p].todo = steps
        BY <1>1, <3>3, <4>1, DecideMoves
      <4> QED BY <4>2, <4>3
    <3> QED BY <2>3, <3>1, <3>2, <3>3
  <2> QED BY <1>5, <1>7, <1>8, <2>2, <2>4 DEF Choosing, Pulling
<1>14. CASE RouteAndReserve(p)
  <2>1. PICK t : t = proc[p].t
    OBVIOUS
  <2>2. proc[p].pc = "route"
    BY <1>14 DEF RouteAndReserve, At
  <2>3. \/ Goto(p, "claim", [t |-> t])
        \/ Decide(p, "pull", <<Set(t, "WAITING_CAPACITY")>>)
    BY <1>14, <2>1 DEF RouteAndReserve
  <2>4. /\ proc'[p].pc \in {"claim", "pull"} /\ \A e \in Range(proc'[p].todo) : e.op # "unclaim"
        /\ StillHolds(p)
    <3>1. CASE Goto(p, "claim", [t |-> t])
      BY <1>1, <1>3, <1>4, <2>1, <3>1, GotoTask DEF StillHolds, Holder
    <3>2. CASE Decide(p, "pull", <<Set(t, "WAITING_CAPACITY")>>)
      <4>1. PICK w, steps : w = Set(t, "WAITING_CAPACITY") /\ steps = <<w>>
        OBVIOUS
      <4>2. w.op = "task" /\ w.to = "WAITING_CAPACITY" /\ Range(steps) = {w} /\ steps # <<>>
        BY <4>1, OneOwed DEF Set
      <4>3. /\ proc'[p].pc = "pull" /\ proc'[p].todo = steps /\ proc'[p].t = t
        BY <1>1, <2>1, <3>2, <4>1, <4>2, DecideMoves
      <4> QED BY <2>1, <4>2, <4>3 DEF StillHolds, Holder
    <3> QED BY <2>3, <3>1, <3>2
  <2> QED BY <1>5, <1>7, <2>2, <2>4 DEF Choosing, Pulling
<1>15. CASE ListRenewals(p)
  <2>1. PICK left : left = {<<Renew(t), Hold(t)>> : t \in AssignedTo(AgentOf[p])}
    OBVIOUS
  <2>2. Goto(p, "each", [left |-> left]) /\ proc[p].pc = "pulsed"
    BY <1>15, <2>1 DEF ListRenewals, At
  <2>3. proc'[p].pc = "each" /\ proc'[p].todo = <<>> /\ proc'[p].left = left
    BY <1>1, <1>3, <2>2, GotoLeft
  <2>4. \A steps \in left : \A e \in Range(steps) : e.op # "unclaim"
    <3>1. \A t : Renew(t).op # "unclaim" /\ Hold(t).op # "unclaim"
      BY DEF Renew, Hold
    <3> QED BY <2>1, <3>1, Owed
  <2> QED BY <1>4, <1>7, <1>8, <2>2, <2>3, <2>4
<1> QED BY <1>9, <1>10, <1>11, <1>12, <1>13, <1>14, <1>15

\* A call lets go no more than before, and is nowhere in a pull.
LEMMA ReadyLess ==
    ASSUME NEW p \in Agent, Ready(p), UNCHANGED <<task, claims>>,
           \A t : Owes(proc'[p], "unclaim", t) => Owes(proc[p], "unclaim", t),
           proc'[p].pc \notin {"recover", "expire", "count"} \cup Choosing
    PROVE  Ready(p)'
<1>1. ASSUME NEW t, Owes(proc'[p], "unclaim", t), NeedsClaim(t)
      PROVE  /\ t \in DOMAIN claims' /\ claims'[t].owner = AgentOf[p]
             /\ t \notin AssignedTo(AgentOf[p])'
  BY <1>1 DEF Ready, AssignedTo
<1> QED BY <1>1 DEF Ready, Owes, Choosing, Pulling

LEMMA EachShare ==
    ASSUME TypeInv, PullInv, ShareInv, NEW p \in Proc, Each(p) \/ EndEach(p)
    PROVE  ShareInv'
<1>1. Bounded /\ Calls /\ AgentsCall
  BY DEF TypeInv, IInv
<1>2. p \in Agent /\ Alone(p)
  BY <1>1, AgentSteps, AgentStepAlone DEF AgentStep
<1>3. /\ proc[p].todo = <<>> /\ proc[p].pc = "each"
      /\ UNCHANGED <<task, session, claims, gone>>
  BY DEF Each, EndEach, At, ReadOnly, tables
<1>4. Range(<<>>) = {}
  BY DEF Range
<1>5. StillHolds(p)
  BY <1>3, <1>4 DEF StillHolds, Holder
<1>6. /\ proc'[p].pc \in {"each", "idle"}
      /\ \A t : Owes(proc'[p], "unclaim", t) => Owes(proc[p], "unclaim", t)
  <2>1. CASE Each(p)
    <3>1. PICK steps \in proc[p].left :
             Goto(p, "each", [t |-> steps[1].id, todo |-> steps, left |-> proc[p].left \ {steps}])
      BY <2>1 DEF Each
    <3>2. PICK t : t = steps[1].id
      OBVIOUS
    <3>3. /\ proc'[p].pc = "each" /\ proc'[p].todo = steps
          /\ proc'[p].left = proc[p].left \ {steps}
      BY <1>1, <3>1, <3>2, GotoRound
    <3> QED BY <1>3, <3>3 DEF Owes
  <2>2. CASE EndEach(p)
    <3>1. proc'[p].pc = "idle" /\ proc'[p].todo = <<>>
      BY <1>1, <2>2, ExitMoves DEF EndEach
    <3> QED BY <1>4, <3>1 DEF Owes
  <2> QED BY <2>1, <2>2
<1>7. Ready(p)'
  BY <1>2, <1>3, <1>6, ReadyLess DEF ShareInv, Choosing, Pulling
<1>8. Leases'
  BY <1>3, SameLeases DEF ShareInv
<1>9. \A s : Present(s) => Present(s)'
  BY <1>3 DEF Present, Registered, Lost
<1> QED BY <1>1, <1>2, <1>3, <1>5, <1>7, <1>8, <1>9, QuietShare

\* A tick finds no task that is stuck in ROUTING, and none whose session is lost.
LEMMA TickShare ==
    ASSUME TypeInv, PullInv, ShareInv, NEW p \in Proc, TickStep(p)
    PROVE  ShareInv'
<1>1. Bounded /\ Calls
  BY DEF TypeInv, IInv
<1>2. p \notin Agent
  <2>1. CASE StartTick(p)
    BY <2>1, SessionsAssumption DEF StartTick
  <2>2. CASE proc[p].pc \in {"recover", "expire"}
    BY <2>2 DEF ShareInv, Ready
  <2> QED BY <2>1, <2>2 DEF TickStep, RecoverRouting, ListLostAssignments, ExpireAssignment,
          EndTick, At
<1>3. proc[p].left = {} /\ proc[p].todo = <<>>
  BY <1>2 DEF ShareInv, Vain
<1>4. ~RecoverRouting(p) /\ ~ExpireAssignment(p)
  BY <1>3 DEF RecoverRouting, ExpireAssignment
<1>5. UNCHANGED <<task, session, claims, gone>>
  BY <1>4 DEF TickStep, StartTick, ListLostAssignments, EndTick, ReadOnly, tables
<1>6. \A t \in DOMAIN task : /\ task[t].state = "ROUTING" => ~task[t].old
                             /\ task[t].state = "ASSIGNED" => ~Lost(task[t].session)
  BY DEF ShareInv, Cared, Present, PullInv, Sound
<1>7. Alone(p) /\ Vain(proc'[p])
  <2>1. CASE StartTick(p)
    <3>1. PICK left : left = {t \in DOMAIN task : StateIs(t, {"ROUTING"}) /\ task[t].old}
      OBVIOUS
    <3>2. left = {}
      BY <1>6, <3>1 DEF StateIs
    <3>3. Goto(p, "recover", [left |-> left])
      BY <2>1, <3>1 DEF StartTick
    <3> QED BY <1>1, <1>3, <3>2, <3>3, GotoLeft DEF Vain
  <2>2. CASE ListLostAssignments(p)
    <3>1. PICK left : left = {[t |-> t, s |-> task[t].session, to |-> NextTry(t)] :
                 t \in {u \in DOMAIN task : task[u].state = "ASSIGNED" /\ Lost(task[u].session)}}
      OBVIOUS
    <3>2. left = {}
      BY <1>6, <3>1
    <3>3. Goto(p, "expire", [left |-> left])
      BY <2>2, <3>1 DEF ListLostAssignments
    <3> QED BY <1>1, <1>3, <3>2, <3>3, GotoLeft DEF Vain
  <2>3. CASE EndTick(p)
    BY <1>1, <2>3, ExitMoves DEF EndTick, Vain
  <2> QED BY <1>4, <2>1, <2>2, <2>3 DEF TickStep
<1>8. StillHolds(p)
  <2>1. Range(<<>>) = {}
    BY DEF Range
  <2>2. proc[p].pc \in {"idle", "recover", "expire"}
    BY <1>2 DEF TypeInv, AgentsCall
  <2> QED BY <1>3, <2>1, <2>2 DEF StillHolds, Holder
<1>9. Leases'
  BY <1>5, SameLeases DEF ShareInv
<1>10. \A s : Present(s) => Present(s)'
  BY <1>5 DEF Present, Registered, Lost
<1> QED BY <1>1, <1>2, <1>5, <1>7, <1>8, <1>9, <1>10, QuietShare

LEMMA FailureShare ==
    ASSUME TypeInv, PullInv, ShareInv, NEW p \in Proc, WorkspaceFails(p) \/ LoseAssignment(p)
    PROVE  ShareInv'
<1>1. Bounded /\ Calls /\ AgentsCall
  BY DEF TypeInv, IInv
<1>2. p \in Agent /\ Alone(p)
  BY <1>1, AgentSteps, AgentStepAlone DEF AgentStep
<1>3. PICK t : t = proc[p].t
  OBVIOUS
<1>4. /\ proc[p].todo = <<>> /\ proc[p].pc = "assign"
      /\ UNCHANGED <<task, session, claims, gone>>
  BY DEF WorkspaceFails, LoseAssignment, At, ReadOnly, tables
<1>5. /\ StateIs(t, {"ROUTING"}) /\ HasRoomFor(AgentOf[p])
      /\ NeedsClaim(t) => Mine(t, AgentOf[p])
  BY <1>2, <1>3, <1>4 DEF PullInv, Sound, Holder, ShareInv, Ready, Choosing, Pulling
<1>6. ~LoseAssignment(p)
  BY <1>3, <1>5 DEF LoseAssignment, MayAssign, StateIs
<1>7. PICK a, b, w : a = Unreserve(t) /\ b = Unclaim(t, "BLOCKED") /\ w = Set(t, "BLOCKED")
  OBVIOUS
<1>8. /\ a.id = t /\ a.op = "unreserve" /\ b.id = t /\ b.op = "unclaim"
      /\ w.id = t /\ w.op = "task"
  BY <1>7, Ops
<1>9. PICK steps : steps = <<a, b>> \o <<w>>
  OBVIOUS
<1>10. Range(steps) = {a, b, w}
  BY <1>8, <1>9, ThreeOwed
<1>11. steps # <<>>
  BY <1>10 DEF Range
<1>12. Decide(p, "idle", steps)
  BY <1>3, <1>6, <1>7, <1>9 DEF WorkspaceFails, Release
<1>13. proc'[p].pc = "idle" /\ proc'[p].todo = steps /\ proc'[p].t = t
  BY <1>1, <1>3, <1>11, <1>12, DecideMoves
<1>14. StillHolds(p)
  BY <1>3, <1>8, <1>10, <1>13 DEF StillHolds, Holder
<1>15. Ready(p)'
  <2>1. \A u : Owes(proc'[p], "unclaim", u) => u = t
    BY <1>8, <1>10, <1>13 DEF Owes
  <2>2. NeedsClaim(t) => t \in DOMAIN claims /\ claims[t].owner = AgentOf[p]
    BY <1>5 DEF Mine, W!Leased
  <2>3. t \notin AssignedTo(AgentOf[p])'
    BY <1>4, <1>5 DEF AssignedTo, StateIs
  <2> QED BY <1>4, <1>13, <2>1, <2>2, <2>3 DEF Ready, Owes, Choosing, Pulling
<1>16. Leases'
  BY <1>4, SameLeases DEF ShareInv
<1>17. \A s : Present(s) => Present(s)'
  BY <1>4 DEF Present, Registered, Lost
<1> QED BY <1>1, <1>2, <1>4, <1>14, <1>15, <1>16, <1>17, QuietShare

LEMMA AcquireShare ==
    ASSUME TypeInv, PullInv, ShareInv, NEW p \in Proc, AcquireDispatchLease(p)
    PROVE  ShareInv'
<1>1. Bounded /\ Calls /\ AgentsCall /\ Rows
  BY DEF TypeInv, IInv
<1>2. p \in Agent /\ Alone(p)
  BY <1>1, AgentSteps, AgentStepAlone DEF AgentStep
<1>3. PICK t : t = proc[p].t
  OBVIOUS
<1>4. /\ proc[p].todo = <<>> /\ proc[p].pc = "acquire" /\ t \in DOMAIN task
      /\ UNCHANGED <<session, claims, gone>>
  BY <1>3 DEF AcquireDispatchLease, At, PullInv, Sound, Pulling, Known
<1>5. Registered(AgentOf[p]) /\ HasRoomFor(AgentOf[p])
  BY <1>2, <1>4 DEF ShareInv, Ready, Choosing, Pulling
<1>6. Range(<<>>) = {}
  BY DEF Range
<1>7. Leases'
  BY <1>4, SameLeases DEF ShareInv
<1>8. \A s : Present(s) => Present(s)'
  BY <1>4 DEF Present, Registered, Lost
<1>9. ~Holder(proc[p])
  BY <1>4, <1>6 DEF Holder
<1>10. CASE MayAcquire(t)
  <2>1. PICK old : /\ task' = [task EXCEPT ![t].state = "ROUTING", ![t].old = old]
                   /\ Goto(p, "route", [t |-> t])
    BY <1>3, <1>10 DEF AcquireDispatchLease
  <2>2. /\ DOMAIN task' = DOMAIN task
        /\ \A u \in DOMAIN task \ {t} : task'[u] = task[u]
        /\ task'[t].state = "ROUTING" /\ task[t].state # "ASSIGNED"
    BY <1>1, <1>4, <1>10, <2>1 DEF Rows, MayAcquire, SCHEDULABLE
  <2>3. proc'[p].pc = "route" /\ proc'[p].t = t /\ proc'[p].todo = <<>>
    BY <1>1, <1>4, <2>1, GotoTask
  <2>4. \A s : AssignedTo(s)' = AssignedTo(s)
    BY <2>2 DEF AssignedTo
  <2>5. Respects(p)
    BY <1>4, <2>4 DEF Respects
  <2>6. ASSUME NEW u \in DOMAIN task' PROVE Cared(u)'
    <3>1. CASE u = t
      BY <2>2, <2>3, <3>1 DEF Cared, Holder
    <3>2. CASE u # t
      BY <1>2, <1>4, <1>8, <1>9, <2>2, <2>6, <3>2, CaredKept DEF ShareInv
    <3> QED BY <3>1, <3>2
  <2>7. Registered(AgentOf[p])' /\ HasRoomFor(AgentOf[p])'
    BY <1>4, <1>5, <2>4 DEF Registered, HasRoomFor
  <2>8. Ready(p)'
    BY <1>2, <1>6, <2>3, <2>7, ReadyNow
  <2> QED BY <1>1, <1>2, <1>4, <1>7, <2>5, <2>6, <2>8, ShareStep
<1>11. CASE ~MayAcquire(t)
  <2>1. Decide(p, "pull", <<>>) /\ UNCHANGED task
    BY <1>3, <1>11 DEF AcquireDispatchLease
  <2>2. proc'[p].pc = "pull" /\ proc'[p].todo = <<>>
    BY <1>1, <2>1, DecideMoves
  <2> QED BY <1>1, <1>2, <1>4, <1>5, <1>6, <1>8, <1>9, <2>1, <2>2, ReadShare DEF StillHolds
<1> QED BY <1>10, <1>11

LEMMA AssignShare ==
    ASSUME Attended, TypeInv, PullInv, ShareInv, NEW p \in Proc, AssignTask(p)
    PROVE  ShareInv'
<1>1. Bounded /\ Calls /\ AgentsCall /\ Rows /\ SessionsTyped
  BY Tables DEF TypeInv, IInv
<1>2. p \in Agent /\ Alone(p)
  BY <1>1, AgentSteps, AgentStepAlone DEF AgentStep
<1>3. PICK t, x : t = proc[p].t /\ x = AgentOf[p]
  OBVIOUS
<1>4. /\ proc[p].todo = <<>> /\ proc[p].pc = "assign" /\ Exit(p)
      /\ UNCHANGED <<reserved, claims, gone>>
      /\ task' = [task EXCEPT ![t] = [task[t] EXCEPT !.state = "ASSIGNED",
              !.session = x, !.attempts = task[t].attempts + 1, !.old = FALSE]]
      /\ session' = [session EXCEPT ![x].state = "OPEN", ![x].fresh = TRUE]
  BY <1>3 DEF AssignTask, At
<1>5. /\ t \in DOMAIN task /\ x \in DOMAIN session
      /\ NeedsClaim(t) => Mine(t, x)
  BY <1>2, <1>3, <1>4 DEF ShareInv, Ready, Choosing, Pulling, PullInv, Sound, Known, Registered
<1>6. /\ DOMAIN task' = DOMAIN task
      /\ \A u \in DOMAIN task \ {t} : task'[u] = task[u]
      /\ task'[t].state = "ASSIGNED" /\ task'[t].session = x
  BY <1>1, <1>4, <1>5 DEF Rows
<1>7. /\ \A s : Present(s) => Present(s)'
      /\ DOMAIN session' = DOMAIN session /\ Present(x)'
  <2>1. PICK row : row = [session[x] EXCEPT !.state = "OPEN", !.fresh = TRUE]
    OBVIOUS
  <2>2. session[x] \in SessionRow
    BY <1>1, <1>5 DEF SessionsTyped
  <2>3. row.state = "OPEN" /\ row.fresh
    BY <2>1, <2>2 DEF SessionRow
  <2>4. session' = [session EXCEPT ![x] = row]
    BY <1>4, <1>5, <2>1
  <2>5. /\ DOMAIN session' = DOMAIN session
        /\ \A s \in DOMAIN session : session'[s] = IF s = x THEN row ELSE session[s]
    BY <1>5, <2>4
  <2> QED BY <1>5, <2>3, <2>5 DEF Present, Registered, Lost
<1>8. Respects(p)
  <2>1. \A q \in Agent \ {p} : AgentOf[q] # x
    BY <1>2, <1>3 DEF Attended
  <2>2. \A q \in Agent \ {p} : AssignedTo(AgentOf[q])' \subseteq AssignedTo(AgentOf[q])
    BY <1>6, <2>1 DEF AssignedTo
  <2> QED BY <1>4, <2>2 DEF Respects
<1>9. ASSUME NEW u \in DOMAIN task' PROVE Cared(u)'
  <2>1. CASE u = t
    <3>1. NeedsClaim(t) => Mine(t, x)'
      BY <1>4, <1>5 DEF Mine, W!Leased
    <3> QED BY <1>6, <1>7, <2>1, <3>1 DEF Cared, Present, Mine, Registered, Lost, W!Leased
  <2>2. CASE u # t
    BY <1>2, <1>3, <1>4, <1>6, <1>7, <1>9, <2>2, CaredKept DEF ShareInv
  <2> QED BY <2>1, <2>2
<1>10. Ready(p)'
  <2>1. proc'[p].pc = "idle" /\ proc'[p].todo = <<>>
    BY <1>1, <1>4, ExitMoves
  <2>2. Range(<<>>) = {}
    BY DEF Range
  <2> QED BY <1>2, <2>1, <2>2, ReadyNow DEF Choosing, Pulling
<1>11. Leases'
  BY <1>4, SameLeases DEF ShareInv
<1> QED BY <1>1, <1>2, <1>4, <1>7, <1>8, <1>9, <1>10, <1>11, ShareStep

LEMMA CompleteShare ==
    ASSUME TypeInv, PullInv, ShareInv, NEW p \in Proc, RecordCompletion(p)
    PROVE  ShareInv'
<1>1. Bounded /\ Calls /\ AgentsCall /\ Rows /\ SessionsTyped
  BY Tables DEF TypeInv, IInv
<1>2. p \in Agent /\ Alone(p)
  BY <1>1, AgentSteps, AgentStepAlone DEF AgentStep
<1>3. PICK t, x, to : t = proc[p].t /\ x = AgentOf[p] /\ to = proc[p].to
  OBVIOUS
<1>4. /\ proc[p].todo = <<>> /\ proc[p].pc = "complete" /\ to \in Outcome
      /\ UNCHANGED <<reserved, claims, gone>>
  BY <1>1, <1>3 DEF RecordCompletion, At, Calls, Owing
<1>5. Range(<<>>) = {}
  BY DEF Range
<1>6. ~Holder(proc[p])
  BY <1>4, <1>5 DEF Holder
<1>7. Leases'
  BY <1>4, SameLeases DEF ShareInv
<1>8. CASE t \in AssignedTo(x)
  <2>1. PICK steps : steps = <<Unclaim(t, to), Unreserve(t)>>
    OBVIOUS
  <2>2. /\ task' = [task EXCEPT ![t] = [task[t] EXCEPT
                 !.state = to, !.session = NoSession, !.old = FALSE]]
        /\ session' = [session EXCEPT ![x].state = "OPEN", ![x].fresh = TRUE]
        /\ Decide(p, "idle", steps)
    BY <1>3, <1>8, <2>1 DEF RecordCompletion
  <2>3. /\ t \in DOMAIN task /\ task[t].state = "ASSIGNED" /\ task[t].session = x
    BY <1>8 DEF AssignedTo
  <2>4. Present(x) /\ (NeedsClaim(t) => Mine(t, x))
    BY <2>3 DEF ShareInv, Cared
  <2>5. /\ DOMAIN task' = DOMAIN task
        /\ \A u \in DOMAIN task \ {t} : task'[u] = task[u]
        /\ task'[t].state = to
    BY <1>1, <2>2, <2>3 DEF Rows
  <2>6. to \notin {"ASSIGNED", "ROUTING"}
    BY <1>4 DEF Outcome
  <2>7. /\ \A s : Present(s) => Present(s)'
        /\ DOMAIN session' = DOMAIN session
    <3>1. PICK row : row = [session[x] EXCEPT !.state = "OPEN", !.fresh = TRUE]
      OBVIOUS
    <3>2. x \in DOMAIN session /\ session[x] \in SessionRow
      BY <1>1, <2>4 DEF SessionsTyped, Present, Registered
    <3>3. row.state = "OPEN" /\ row.fresh
      BY <3>1, <3>2 DEF SessionRow
    <3>4. session' = [session EXCEPT ![x] = row]
      BY <2>2, <3>1, <3>2
    <3>5. /\ DOMAIN session' = DOMAIN session
          /\ \A s \in DOMAIN session : session'[s] = IF s = x THEN row ELSE session[s]
      BY <3>2, <3>4
    <3> QED BY <3>3, <3>5 DEF Present, Registered, Lost
  <2>8. \A s : AssignedTo(s)' \subseteq AssignedTo(s) \ {t}
    BY <2>5, <2>6 DEF AssignedTo
  <2>9. Respects(p)
    BY <1>4, <2>8 DEF Respects
  <2>10. ASSUME NEW u \in DOMAIN task' PROVE Cared(u)'
    <3>1. CASE u = t
      BY <2>5, <2>6, <3>1 DEF Cared
    <3>2. CASE u # t
      BY <1>2, <1>4, <1>6, <2>5, <2>7, <2>10, <3>2, CaredKept DEF ShareInv
    <3> QED BY <3>1, <3>2
  <2>11. Ready(p)'
    <3>1. Range(steps) = {Unreserve(t), Unclaim(t, to)}
      BY <2>1, Owed
    <3>2. proc'[p].pc = "idle" /\ proc'[p].todo = steps
      BY <1>1, <2>2, DecideMoves
    <3>3. \A u : Owes(proc'[p], "unclaim", u) => u = t
      BY <3>1, <3>2, Ops DEF Owes
    <3>4. NeedsClaim(t) => t \in DOMAIN claims /\ claims[t].owner = AgentOf[p]
      BY <1>3, <2>4 DEF Mine, W!Leased
    <3>5. t \notin AssignedTo(AgentOf[p])'
      BY <2>8
    <3> QED BY <1>4, <3>2, <3>3, <3>4, <3>5 DEF Ready, Owes, Choosing, Pulling
  <2> QED BY <1>1, <1>2, <1>4, <1>7, <2>7, <2>9, <2>10, <2>11, ShareStep
<1>9. CASE t \notin AssignedTo(x)
  <2>1. Exit(p) /\ UNCHANGED <<task, session>>
    BY <1>3, <1>9 DEF RecordCompletion
  <2>2. proc'[p].pc = "idle" /\ proc'[p].todo = <<>>
    BY <1>1, <2>1, ExitMoves
  <2>3. \A s : Present(s) => Present(s)'
    BY <2>1 DEF Present, Registered, Lost
  <2> QED BY <1>1, <1>2, <1>4, <1>5, <1>6, <2>1, <2>2, <2>3, ReadShare
          DEF StillHolds, Choosing, Pulling
<1> QED BY <1>8, <1>9

\* All that the session has is given back in the transaction that closes it.
LEMMA CloseShare ==
    ASSUME TypeInv, PullInv, ShareInv, NEW p \in Agent, CloseSession(p)
    PROVE  ShareInv'
<1>1. Bounded /\ Calls /\ AgentsCall /\ Rows /\ p \in Proc
  BY DEF TypeInv, IInv, Proc
<1>2. Alone(p)
  BY <1>1, CommandAlone DEF AgentCommand
<1>3. PICK x, mine, left : /\ x = AgentOf[p] /\ mine = AssignedTo(x)
                           /\ left = {Release(t, "RETRYABLE") : t \in mine}
  OBVIOUS
<1>4. /\ task' = [t \in DOMAIN task |->
              IF t \in mine
              THEN [task[t] EXCEPT !.state = "RETRYABLE", !.session = NoSession, !.old = FALSE]
              ELSE task[t]]
      /\ Goto(p, "each", [left |-> left])
      /\ proc[p].todo = <<>> /\ proc[p].pc = "idle"
      /\ UNCHANGED <<claims, gone>>
      /\ x \in DOMAIN session
      /\ session' = [session EXCEPT ![x] = [session[x] EXCEPT
              !.state = "CLOSED", !.accepts = FALSE, !.fresh = FALSE]]
  BY <1>3 DEF CloseSession, Command, At, Registered
<1>5. proc'[p].pc = "each" /\ proc'[p].todo = <<>> /\ proc'[p].left = left
  BY <1>1, <1>4, GotoLeft
<1>6. Range(<<>>) = {}
  BY DEF Range
<1>7. ~Holder(proc[p])
  BY <1>4, <1>6 DEF Holder
<1>8. \A t \in mine : t \in DOMAIN task /\ task[t].state = "ASSIGNED" /\ task[t].session = x
  BY <1>3 DEF AssignedTo
<1>9. /\ DOMAIN task' = DOMAIN task
      /\ \A t \in DOMAIN task \ mine : task'[t] = task[t]
      /\ \A t \in mine : task'[t].state = "RETRYABLE"
  BY <1>1, <1>4, <1>8 DEF Rows
<1>10. /\ DOMAIN session' = DOMAIN session
       /\ \A s : s # x /\ Present(s) => Present(s)'
  BY <1>4 DEF Present, Registered, Lost
<1>11. \A s : AssignedTo(s)' \subseteq AssignedTo(s) \ mine
  BY <1>9 DEF AssignedTo
<1>12. Respects(p)
  BY <1>4, <1>11 DEF Respects
<1>13. ASSUME NEW u \in DOMAIN task' PROVE Cared(u)'
  <2>1. CASE u \in mine
    BY <1>9, <2>1 DEF Cared
  <2>2. CASE u \notin mine
    <3>1. task[u].state = "ASSIGNED" => task[u].session # x
      BY <1>3, <1>9, <1>13, <2>2 DEF AssignedTo
    <3> QED BY <1>1, <1>2, <1>4, <1>7, <1>9, <1>10, <1>13, <2>2, <3>1, CaredKept DEF ShareInv
  <2> QED BY <2>1, <2>2
<1>14. Ready(p)'
  <2>1. ASSUME NEW t, Owes(proc'[p], "unclaim", t) PROVE t \in mine
    <3>1. PICK steps \in left : \E e \in Range(steps) : e.id = t
      BY <1>5, <1>6, <2>1 DEF Owes
    <3>2. PICK u \in mine : steps = Release(u, "RETRYABLE")
      BY <1>3, <3>1
    <3>3. Range(steps) = {Unreserve(u), Unclaim(u, "RETRYABLE")}
      BY <3>2, Owed
    <3> QED BY <3>1, <3>3, Ops
  <2>2. ASSUME NEW t \in mine, NeedsClaim(t)
        PROVE  t \in DOMAIN claims' /\ claims'[t].owner = x
    <3>1. Mine(t, x)
      BY <1>8, <2>2 DEF ShareInv, Cared
    <3> QED BY <1>4, <3>1 DEF Mine, W!Leased
  <2>3. \A t \in mine : t \notin AssignedTo(x)'
    BY <1>11
  <2> QED BY <1>3, <1>5, <2>1, <2>2, <2>3 DEF Ready, Owes, Choosing, Pulling
<1>15. Leases'
  BY <1>4, SameLeases DEF ShareInv
<1> QED BY <1>1, <1>2, <1>4, <1>10, <1>12, <1>13, <1>14, <1>15, ShareStep

\* No claim ever expires while everybody is awake.
LEMMA NothingExpires ==
    ASSUME Leases, W!TypeOK
    PROVE  W!Cleaned(0, {}) = claims
<1>1. ASSUME NEW t \in DOMAIN claims PROVE W!CleanedRow(claims[t], 0, {}) = claims[t]
  <2>1. claims[t].left \in Int /\ (claims[t].state \in W!EXPIRING_STATES => claims[t].left > 0)
    BY DEF Leases, W!TypeOK, W!Row
  <2> QED BY <2>1 DEF W!CleanedRow, W!Stale
<1> QED BY <1>1 DEF W!Cleaned, W!TypeOK

\* One row of the claims is written anew, and is not leased unless it was.
LEMMA OneRowKept ==
    ASSUME Leases, NEW t \in DOMAIN claims, NEW row, claims' = [claims EXCEPT ![t] = row],
           row.base = claims[t].base, row.scopes = claims[t].scopes, row.owner = claims[t].owner,
           row.state \in W!EXPIRING_STATES => row.left > 0,
           row.state \in W!LEASE_STATES => claims[t].state \in W!LEASE_STATES
    PROVE  /\ Leases'
           /\ \A u \in DOMAIN claims : u \in DOMAIN claims' /\ claims'[u].owner = claims[u].owner
           /\ \A u : u # t /\ W!Leased(claims, u) => W!Leased(claims', u)
<1>1. /\ DOMAIN claims' = DOMAIN claims /\ claims'[t] = row
      /\ \A u \in DOMAIN claims \ {t} : claims'[u] = claims[u]
  OBVIOUS
<1>2. \A u \in DOMAIN claims : /\ claims'[u].base = claims[u].base
                               /\ claims'[u].scopes = claims[u].scopes
                               /\ W!Leased(claims', u) => W!Leased(claims, u)
  BY <1>1 DEF W!Leased
<1>3. W!LeasesDisjoint'
  BY <1>1, <1>2 DEF Leases, W!LeasesDisjoint
<1>4. \A u \in DOMAIN claims' :
         /\ claims'[u].base = BaseOf[u] /\ claims'[u].scopes = ScopesOf[u]
         /\ claims'[u].state \in W!EXPIRING_STATES => claims'[u].left > 0
  BY <1>1, <1>2 DEF Leases
<1>5. Leases'
  BY <1>3, <1>4 DEF Leases
<1> QED BY <1>1, <1>5 DEF W!Leased

LEMMA HoldLeases ==
    ASSUME W!TypeOK, Leases, NEW t, W!Heartbeat(t, 1, 0) \/ W!Cleanup(0, {})
    PROVE  /\ Leases'
           /\ \A u \in DOMAIN claims : u \in DOMAIN claims' /\ claims'[u].owner = claims[u].owner
           /\ \A u : W!Leased(claims, u) => W!Leased(claims', u)
<1>1. W!Cleaned(0, {}) = claims
  BY NothingExpires
<1>2. CASE W!Cleanup(0, {})
  <2>1. UNCHANGED claims
    BY <1>1, <1>2 DEF W!Cleanup
  <2> QED BY <2>1, SameLeases
<1>3. CASE W!Heartbeat(t, 1, 0)
  <2>1. /\ t \in DOMAIN claims /\ claims[t].state \in W!EXPIRING_STATES
        /\ claims' = [claims EXCEPT ![t].ttl = 1, ![t].left = 1]
    <3>1. 1 - 0 = 1
      OBVIOUS
    <3> QED BY <1>1, <1>3, <3>1 DEF W!Heartbeat
  <2>2. PICK row : row = [claims[t] EXCEPT !.ttl = 1, !.left = 1]
    OBVIOUS
  <2>3. claims[t] \in W!Row
    BY <2>1 DEF W!TypeOK
  <2>4. /\ row.base = claims[t].base /\ row.scopes = claims[t].scopes
        /\ row.owner = claims[t].owner /\ row.state = claims[t].state /\ row.left = 1
    BY <2>2, <2>3 DEF W!Row
  <2>5. claims' = [claims EXCEPT ![t] = row]
    BY <2>1, <2>2
  <2>6. W!Leased(claims, t) => W!Leased(claims', t)
    BY <2>1, <2>4, <2>5 DEF W!Leased
  <2>7. 1 > 0
    OBVIOUS
  <2>8. /\ Leases'
        /\ \A u \in DOMAIN claims : u \in DOMAIN claims' /\ claims'[u].owner = claims[u].owner
        /\ \A u : u # t /\ W!Leased(claims, u) => W!Leased(claims', u)
    BY <2>1, <2>4, <2>5, <2>7, OneRowKept
  <2> QED BY <2>6, <2>8
<1> QED BY <1>2, <1>3

LEMMA ReleaseLeases ==
    ASSUME W!TypeOK, Leases, NEW t, NEW outcome \in Outcome, W!Release(t, outcome)
    PROVE  /\ Leases'
           /\ \A u \in DOMAIN claims : u \in DOMAIN claims' /\ claims'[u].owner = claims[u].owner
           /\ \A u : u # t /\ W!Leased(claims, u) => W!Leased(claims', u)
<1>1. /\ t \in DOMAIN claims
      /\ claims' = [claims EXCEPT ![t].state = outcome, ![t].left = 0]
  BY DEF W!Release
<1>2. PICK row : row = [claims[t] EXCEPT !.state = outcome, !.left = 0]
  OBVIOUS
<1>3. claims[t] \in W!Row
  BY <1>1 DEF W!TypeOK
<1>4. /\ row.base = claims[t].base /\ row.scopes = claims[t].scopes
      /\ row.owner = claims[t].owner /\ row.state = outcome
  BY <1>2, <1>3 DEF W!Row
<1>5. outcome \notin W!EXPIRING_STATES /\ outcome \notin W!LEASE_STATES
  BY DEF Outcome, W!EXPIRING_STATES, W!LEASE_STATES
<1>6. claims' = [claims EXCEPT ![t] = row]
  BY <1>1, <1>2
<1> QED BY <1>1, <1>4, <1>5, <1>6, OneRowKept

\* t's row is put into the claims, leased if nothing overlaps it.
LEMMA RowPut ==
    ASSUME W!TypeOK, Leases, NEW t, ~W!Leased(claims, t), NEW s, NEW state \in {"CLAIMED", "QUEUED"},
           claims' = W!Put(claims, t, W!NewRow(Request(t, s), state, 0)),
           t \in DOMAIN claims => claims[t].owner = s,
           state = "CLAIMED" => W!Conflicts(claims, t, BaseOf[t], ScopesOf[t], 0) = {}
    PROVE  /\ Leases'
           /\ \A u \in DOMAIN claims : u \in DOMAIN claims' /\ claims'[u].owner = claims[u].owner
           /\ \A u : W!Leased(claims, u) => W!Leased(claims', u)
           /\ state = "CLAIMED" => Mine(t, s)'
<1>1. PICK row : row = W!NewRow(Request(t, s), state, 0)
  OBVIOUS
<1>2. /\ row.base = BaseOf[t] /\ row.scopes = ScopesOf[t] /\ row.state = state /\ row.left = 1
      /\ row.owner = s
  BY <1>1 DEF W!NewRow, Request
<1>3. /\ DOMAIN claims' = DOMAIN claims \cup {t}
      /\ claims'[t] = row
      /\ \A u \in DOMAIN claims \ {t} : claims'[u] = claims[u]
  BY <1>1 DEF W!Put
<1>4. W!Leased(claims', t) <=> state = "CLAIMED"
  BY <1>2, <1>3 DEF W!Leased, W!LEASE_STATES
<1>5. \A u : W!Leased(claims, u) => W!Leased(claims', u)
  BY <1>3 DEF W!Leased
<1>6. ASSUME NEW u \in DOMAIN claims, u # t, W!Leased(claims, u), W!Leased(claims', t),
             claims[u].base = BaseOf[t]
      PROVE  ~W!ScopesOverlap(ScopesOf[t], claims[u].scopes)
  <2>1. u \notin W!Conflicts(claims, t, BaseOf[t], ScopesOf[t], 0)
    BY <1>4, <1>6
  <2>2. claims[u].left \in Int /\ claims[u].left > 0
    <3>1. claims[u].left \in Int
      BY DEF W!TypeOK, W!Row
    <3>2. claims[u].state \in W!EXPIRING_STATES
      BY <1>6 DEF W!Leased, W!EXPIRING_STATES
    <3> QED BY <3>1, <3>2 DEF Leases
  <2> QED BY <1>6, <2>1, <2>2 DEF W!Conflicts
<1>7. W!LeasesDisjoint'
  <2> SUFFICES ASSUME NEW u \in DOMAIN claims', NEW v \in DOMAIN claims', u # v,
                      W!Leased(claims', u), W!Leased(claims', v),
                      claims'[u].base = claims'[v].base
               PROVE  ~W!ScopesOverlap(claims'[u].scopes, claims'[v].scopes)
    BY DEF W!LeasesDisjoint
  <2>1. CASE u = t
    <3>1. v \in DOMAIN claims /\ W!Leased(claims, v) /\ claims'[v] = claims[v]
      BY <1>3, <2>1 DEF W!Leased
    <3> QED BY <1>2, <1>3, <1>6, <2>1, <3>1
  <2>2. CASE v = t
    <3>1. u \in DOMAIN claims /\ W!Leased(claims, u) /\ claims'[u] = claims[u]
      BY <1>3, <2>2 DEF W!Leased
    <3>2. ~W!ScopesOverlap(ScopesOf[t], claims[u].scopes)
      BY <1>2, <1>3, <1>6, <2>2, <3>1
    <3>3. ~W!ScopesOverlap(claims[u].scopes, ScopesOf[t])
      BY <3>2 DEF W!ScopesOverlap
    <3> QED BY <1>2, <1>3, <2>2, <3>1, <3>3
  <2>3. CASE u # t /\ v # t
    <3>1. /\ u \in DOMAIN claims /\ W!Leased(claims, u) /\ claims'[u] = claims[u]
          /\ v \in DOMAIN claims /\ W!Leased(claims, v) /\ claims'[v] = claims[v]
      BY <1>3, <2>3 DEF W!Leased
    <3> QED BY <3>1 DEF Leases, W!LeasesDisjoint
  <2> QED BY <2>1, <2>2, <2>3
<1>8. Leases'
  <2>1. \A u \in DOMAIN claims' :
          /\ claims'[u].base = BaseOf[u] /\ claims'[u].scopes = ScopesOf[u]
          /\ claims'[u].state \in W!EXPIRING_STATES => claims'[u].left > 0
    BY <1>2, <1>3 DEF Leases
  <2> QED BY <1>7, <2>1 DEF Leases
<1>9. state = "CLAIMED" => Mine(t, s)'
  BY <1>2, <1>3, <1>4 DEF Mine, W!Leased
<1> QED BY <1>2, <1>3, <1>5, <1>8, <1>9

\* No claim is taken from anybody, and one that is granted is the session's own.
LEMMA ClaimLeases ==
    ASSUME W!TypeOK, Leases, NEW t, NEW s, NEW req, req = Request(t, s),
           Granted(t, req) \/ W!ClaimRefused(t, req, 0) \/ W!ClaimQueued(t, req, 0)
    PROVE  /\ Leases'
           /\ \A u \in DOMAIN claims : u \in DOMAIN claims' /\ claims'[u].owner = claims[u].owner
           /\ \A u : W!Leased(claims, u) => W!Leased(claims', u)
           /\ Granted(t, req) => Mine(t, s)'
<1>1. W!Cleaned(0, {}) = claims
  BY NothingExpires
<1>2. /\ req.base = BaseOf[t] /\ req.scopes = ScopesOf[t] /\ req.owner = s
      /\ req.worker = WorkerOf[s] /\ req.pid = NoProcess /\ req.ttl = 1 /\ req.ttl - 0 = 1
  BY DEF Request
<1>3. CASE W!ClaimRefused(t, req, 0)
  <2>1. UNCHANGED claims
    BY <1>1, <1>3 DEF W!ClaimRefused
  <2>2. ~Granted(t, req)
    BY <1>1, <1>3 DEF Granted, W!ClaimRefused, W!ClaimGranted, W!ClaimRenewed
  <2> QED BY <2>1, <2>2, SameLeases
<1>4. CASE W!ClaimRenewed(t, req, 0)
  <2>1. /\ W!Leased(claims, t) /\ claims[t].owner = s
        /\ claims' = [claims EXCEPT ![t].left = 1, ![t].ttl = 1, ![t].pid = NoProcess]
    BY <1>1, <1>2, <1>4 DEF W!ClaimRenewed, W!Refused, W!Leased
  <2>2. PICK row : row = [claims[t] EXCEPT !.left = 1, !.ttl = 1, !.pid = NoProcess]
    OBVIOUS
  <2>3. t \in DOMAIN claims /\ claims[t] \in W!Row
    BY <2>1 DEF W!TypeOK, W!Leased
  <2>4. /\ row.base = claims[t].base /\ row.scopes = claims[t].scopes
        /\ row.owner = claims[t].owner /\ row.state = claims[t].state /\ row.left = 1
    BY <2>2, <2>3 DEF W!Row
  <2>5. claims' = [claims EXCEPT ![t] = row]
    BY <2>1, <2>2, <2>3
  <2>6. Mine(t, s)' /\ W!Leased(claims', t)
    BY <2>1, <2>3, <2>4, <2>5 DEF W!Leased, Mine
  <2>7. 1 > 0
    OBVIOUS
  <2>8. /\ Leases'
        /\ \A u \in DOMAIN claims : u \in DOMAIN claims' /\ claims'[u].owner = claims[u].owner
        /\ \A u : u # t /\ W!Leased(claims, u) => W!Leased(claims', u)
    BY <2>3, <2>4, <2>5, <2>7, OneRowKept
  <2> QED BY <2>6, <2>8
<1>5. CASE W!ClaimQueued(t, req, 0)
  <2>1. /\ ~W!Leased(claims, t) /\ (t \in DOMAIN claims => claims[t].owner = s)
        /\ claims' = W!Put(claims, t, W!NewRow(req, "QUEUED", 0))
    BY <1>1, <1>2, <1>5 DEF W!ClaimQueued, W!Refused
  <2>2. ~Granted(t, req)
    BY <1>1, <1>5 DEF Granted, W!ClaimQueued, W!ClaimGranted, W!ClaimRenewed
  <2> QED BY <2>1, <2>2, RowPut
<1>6. CASE W!ClaimGranted(t, req, 0)
  <2>1. /\ ~W!Leased(claims, t) /\ (t \in DOMAIN claims => claims[t].owner = s)
        /\ claims' = W!Put(claims, t, W!NewRow(req, "CLAIMED", 0))
        /\ W!Conflicts(claims, t, BaseOf[t], ScopesOf[t], 0) = {}
    BY <1>1, <1>2, <1>6 DEF W!ClaimGranted, W!Refused
  <2> QED BY <2>1, RowPut
<1> QED BY <1>3, <1>4, <1>5, <1>6 DEF Granted

LEMMA ClaimShare ==
    ASSUME TypeInv, PullInv, ShareInv, NEW p \in Proc, ClaimWorkspace(p)
    PROVE  ShareInv'
<1>1. Bounded /\ Calls /\ AgentsCall /\ W!TypeOK /\ Leases
  BY Tables DEF TypeInv, IInv, ShareInv
<1>2. p \in Agent /\ Alone(p)
  BY <1>1, AgentSteps, AgentStepAlone DEF AgentStep
<1>3. PICK t, s : t = proc[p].t /\ s = AgentOf[p]
  OBVIOUS
<1>4. /\ proc[p].todo = <<>> /\ proc[p].pc = "claim" /\ UNCHANGED <<task, session, gone>>
  BY DEF ClaimWorkspace, At
<1>5. Registered(s) /\ HasRoomFor(s)
  BY <1>2, <1>3, <1>4 DEF ShareInv, Ready, Choosing, Pulling
<1>6. PICK req : req = Request(t, s)
  OBVIOUS
<1>7. \/ ~NeedsClaim(t) /\ Goto(p, "assign", [t |-> t]) /\ UNCHANGED claims
      \/ Granted(t, req) /\ Goto(p, "assign", [t |-> t])
      \/ /\ W!ClaimRefused(t, req, 0) \/ W!ClaimQueued(t, req, 0)
         /\ Decide(p, "pull", <<Unreserve(t), Set(t, "QUEUED")>>)
  BY <1>3, <1>6 DEF ClaimWorkspace
<1>8. /\ Leases'
      /\ \A u \in DOMAIN claims : u \in DOMAIN claims' /\ claims'[u].owner = claims[u].owner
      /\ \A u : W!Leased(claims, u) => W!Leased(claims', u)
      /\ Granted(t, req) => Mine(t, s)'
  <2>1. CASE UNCHANGED claims /\ ~Granted(t, req)
    BY <1>1, <2>1, SameLeases DEF W!Leased
  <2>2. CASE Granted(t, req) \/ W!ClaimRefused(t, req, 0) \/ W!ClaimQueued(t, req, 0)
    BY <1>1, <1>6, <2>2, ClaimLeases
  <2> QED BY <1>7, <2>1, <2>2
<1>9. Range(<<>>) = {}
  BY DEF Range
<1>10. Registered(s)' /\ HasRoomFor(s)'
  BY <1>4, <1>5 DEF Registered, HasRoomFor, AssignedTo
<1>11. StillHolds(p) /\ Ready(p)'
  <2>1. CASE /\ Goto(p, "assign", [t |-> t])
             /\ ~NeedsClaim(t) \/ Granted(t, req)
    <3>1. proc'[p].pc = "assign" /\ proc'[p].t = t /\ proc'[p].todo = <<>>
      BY <1>1, <1>4, <2>1, GotoTask
    <3>2. \A u : ~Owes(proc'[p], "unclaim", u)
      BY <1>9, <3>1 DEF Owes
    <3>3. NeedsClaim(t) => Mine(t, s)'
      BY <1>8, <2>1
    <3>4. StillHolds(p)
      BY <1>3, <3>1 DEF StillHolds, Holder
    <3>5. Ready(p)'
      BY <1>3, <1>10, <3>1, <3>2, <3>3 DEF Ready, Owes, Mine, Choosing, Pulling
    <3> QED BY <3>4, <3>5
  <2>2. CASE Decide(p, "pull", <<Unreserve(t), Set(t, "QUEUED")>>)
    <3>1. PICK v, w, steps : v = Unreserve(t) /\ w = Set(t, "QUEUED") /\ steps = <<v, w>>
      OBVIOUS
    <3>2. /\ v.op = "unreserve" /\ v.id = t /\ w.op = "task" /\ w.id = t /\ w.to = "QUEUED"
      BY <3>1 DEF Set, Unreserve
    <3>3. Range(<<v, w>>) = {v, w}
      BY <3>2, TwoOwed
    <3>4. steps # <<>> /\ Range(steps) = {v, w}
      BY <3>1, <3>3
    <3>5. proc'[p].pc = "pull" /\ proc'[p].t = t /\ proc'[p].todo = steps
      BY <1>1, <1>3, <2>2, <3>1, <3>4, DecideMoves
    <3>6. StillHolds(p)
      BY <1>3, <3>2, <3>4, <3>5 DEF StillHolds, Holder
    <3>7. Ready(p)'
      BY <1>2, <1>3, <1>10, <3>2, <3>4, <3>5, ReadyNow
    <3> QED BY <3>6, <3>7
  <2> QED BY <1>7, <2>1, <2>2
<1>12. \A x : Present(x) => Present(x)'
  BY <1>4 DEF Present, Registered, Lost
<1> QED BY <1>1, <1>2, <1>4, <1>8, <1>11, <1>12, QuietShare

\* A write that is due takes nothing from anybody else: what a call lets go is
\* its own session's, and of a task that the session has no more.
LEMMA PerformShare ==
    ASSUME Attended, TypeInv, PullInv, ShareInv, NEW p \in Proc, Perform(p)
    PROVE  ShareInv'
<1>1. Rows /\ Bounded /\ Calls /\ W!TypeOK /\ Leases
  BY Tables DEF TypeInv, IInv, ShareInv
<1>2. proc[p].todo # <<>> /\ Pop(p) /\ UNCHANGED <<session, gone>>
  BY DEF Perform, PerformTask, PerformUnreserve, PerformUnclaim, PerformRenew,
         PerformHold, Due
<1>3. p \in Agent /\ Ready(p) /\ AgentOf[p] \in Session
  BY <1>2, SessionsAssumption DEF ShareInv, Vain
<1>4. PICK todo \in Seq(Write) : todo = proc[p].todo
  BY <1>1 DEF Calls, Owing
<1>5. PICK w, rest, t, x : w = Head(todo) /\ rest = Tail(todo) /\ t = proc[p].t /\ x = AgentOf[p]
  OBVIOUS
<1>6. /\ proc[p].pc \in Loops /\ Todo(todo, t)
  BY <1>2, <1>4, <1>5 DEF PullInv, Shape
<1>7. Range(todo) = {w} \cup Range(rest) /\ w.id = t
  BY <1>2, <1>4, <1>5, <1>6, TailOwed
<1>8. /\ proc'[p].pc = proc[p].pc /\ proc'[p].left = proc[p].left /\ proc'[p].todo = rest
      /\ rest # <<>> => proc'[p].t = t
      /\ Alone(p)
  BY <1>1, <1>2, <1>4, <1>5, PopMoves
<1>9. w = Step(p) /\ w \in Write /\ w \in Range(todo)
  BY <1>2, <1>4, <1>5, <1>7 DEF Step
<1>10. \A u : Owes(proc'[p], "unclaim", u) => Owes(proc[p], "unclaim", u)
  BY <1>4, <1>7, <1>8 DEF Owes
<1>11. w.op # "task" => StillHolds(p)
  <2> SUFFICES ASSUME w.op # "task", Holder(proc[p]) PROVE Holder(proc'[p]) /\ proc'[p].t = t
    BY <1>5 DEF StillHolds
  <2>1. PICK e \in Range(todo) : e.op = "task" /\ ~(proc[p].pc = "pull" /\ e.to = "BLOCKED")
    BY <1>4, <1>6 DEF Holder, Loops
  <2>2. e \in Range(rest)
    BY <1>7, <2>1
  <2>3. rest # <<>>
    BY <2>2 DEF Range
  <2> QED BY <1>8, <2>1, <2>2, <2>3 DEF Holder
<1>12. \A s : Present(s) => Present(s)'
  BY <1>2 DEF Present, Registered, Lost
<1>13. ASSUME \A u \in DOMAIN claims : u \in DOMAIN claims' /\ claims'[u].owner = claims[u].owner,
              AssignedTo(x)' \subseteq AssignedTo(x)
       PROVE  Ready(p)'
  <2>1. Registered(x) => Registered(x)'
    BY <1>2 DEF Registered
  <2>2. HasRoomFor(x) => HasRoomFor(x)'
    BY <1>1, <1>3, <1>5, <1>13, RoomKept
  <2>3. ASSUME NEW u, Owes(proc'[p], "unclaim", u), NeedsClaim(u)
        PROVE  u \in DOMAIN claims' /\ claims'[u].owner = x /\ u \notin AssignedTo(x)'
    BY <1>3, <1>5, <1>10, <1>13, <2>3 DEF Ready
  <2> QED BY <1>3, <1>5, <1>6, <1>8, <2>1, <2>2, <2>3 DEF Ready, Owes, Loops
<1>14. ASSUME UNCHANGED task, w.op # "task", Leases',
              \A u \in DOMAIN claims : u \in DOMAIN claims' /\ claims'[u].owner = claims[u].owner,
              \A u : /\ W!Leased(claims, u) /\ NeedsClaim(u)
                     /\ Assigned(u) \/ \E q \in Agent \ {p} : proc[q].pc = "assign" /\ proc[q].t = u
                     => W!Leased(claims', u)
       PROVE  ShareInv'
  <2>1. Ready(p)'
    BY <1>13, <1>14 DEF AssignedTo
  <2> QED BY <1>1, <1>2, <1>3, <1>8, <1>11, <1>12, <1>14, <2>1, QuietShare
<1>15. CASE PerformTask(p)
  <2>1. /\ task' = [task EXCEPT ![t].state = w.to, ![t].old = FALSE]
        /\ UNCHANGED claims /\ w.to \in Result
    BY <1>7, <1>9, <1>15 DEF PerformTask, Due, Step, Write
  <2>2. /\ DOMAIN task' = DOMAIN task
        /\ \A u \in DOMAIN task \ {t} : task'[u] = task[u]
        /\ t \in DOMAIN task => task'[t].state = w.to
    BY <1>1, <2>1 DEF Rows
  <2>3. w.to \notin {"ASSIGNED", "ROUTING"}
    BY <2>1 DEF Result, SCHEDULABLE, TERMINAL
  <2>4. \A s : AssignedTo(s)' \subseteq AssignedTo(s)
    BY <2>2, <2>3 DEF AssignedTo
  <2>5. Ready(p)'
    BY <1>13, <2>1, <2>4
  <2>6. Respects(p)
    BY <2>1, <2>4 DEF Respects
  <2>7. ASSUME NEW u \in DOMAIN task' PROVE Cared(u)'
    <3>1. CASE u = t
      BY <2>2, <2>3, <2>7, <3>1 DEF Cared
    <3>2. CASE u # t
      BY <1>5, <1>8, <1>12, <2>1, <2>2, <2>7, <3>2, CaredKept DEF ShareInv
    <3> QED BY <3>1, <3>2
  <2>8. Leases'
    BY <1>1, <2>1, SameLeases
  <2> QED BY <1>1, <1>2, <1>3, <1>8, <2>5, <2>6, <2>7, <2>8, ShareStep
<1>16. CASE PerformUnreserve(p) \/ PerformRenew(p)
  <2>1. UNCHANGED <<task, claims>> /\ w.op # "task"
    BY <1>9, <1>16 DEF PerformUnreserve, PerformRenew, Due, Step
  <2> QED BY <1>1, <1>14, <2>1, SameLeases DEF W!Leased
<1>17. CASE PerformHold(p)
  <2>1. /\ UNCHANGED task /\ w.op # "task"
        /\ W!Heartbeat(t, 1, 0) \/ W!Cleanup(0, {})
    BY <1>7, <1>9, <1>17 DEF PerformHold, Due, Step
  <2>2. /\ Leases'
        /\ \A u \in DOMAIN claims : u \in DOMAIN claims' /\ claims'[u].owner = claims[u].owner
        /\ \A u : W!Leased(claims, u) => W!Leased(claims', u)
    BY <1>1, <2>1, HoldLeases
  <2> QED BY <1>14, <2>1, <2>2
<1>18. CASE PerformUnclaim(p)
  <2>1. /\ UNCHANGED task /\ w.op = "unclaim" /\ w.to \in Outcome
        /\ W!Release(t, w.to) \/ UNCHANGED claims
    BY <1>7, <1>9, <1>18 DEF PerformUnclaim, Due, Step, Write
  <2>2. CASE UNCHANGED claims
    BY <1>1, <1>14, <2>1, <2>2, SameLeases DEF W!Leased
  <2>3. CASE W!Release(t, w.to)
    <3>1. /\ Leases'
          /\ \A u \in DOMAIN claims : u \in DOMAIN claims' /\ claims'[u].owner = claims[u].owner
          /\ \A u : u # t /\ W!Leased(claims, u) => W!Leased(claims', u)
      BY <1>1, <2>1, <2>3, ReleaseLeases
    <3>2. Owes(proc[p], "unclaim", t)
      BY <1>4, <1>7, <1>9, <2>1 DEF Owes
    <3>3. NeedsClaim(t) => claims[t].owner = x /\ t \notin AssignedTo(x)
      BY <1>3, <1>5, <3>2 DEF Ready
    <3>4. ~(NeedsClaim(t) /\ Assigned(t))
      <4> SUFFICES ASSUME NeedsClaim(t), Assigned(t) PROVE FALSE
        OBVIOUS
      <4>1. t \in DOMAIN task /\ task[t].state = "ASSIGNED" /\ Mine(t, task[t].session)
        BY DEF ShareInv, Cared, Assigned, StateIs, Known
      <4> QED BY <3>3, <4>1 DEF Mine, AssignedTo
    <3>5. ASSUME NEW q \in Agent \ {p}, proc[q].pc = "assign", proc[q].t = t, NeedsClaim(t)
          PROVE  FALSE
      <4>1. Mine(t, AgentOf[q])
        BY <3>5 DEF ShareInv, Ready
      <4>2. AgentOf[q] = AgentOf[p]
        BY <1>5, <3>3, <3>5, <4>1 DEF Mine
      <4> QED BY <1>3, <3>5, <4>2 DEF Attended
    <3> QED BY <1>14, <2>1, <3>1, <3>4, <3>5
  <2> QED BY <2>1, <2>2, <2>3
<1> QED BY <1>15, <1>16, <1>17, <1>18 DEF Perform

\* Sessions are seen and tasks come in and wait, under the calls.
LEMMA OutsideShare ==
    ASSUME Bounded, ShareInv, UNCHANGED <<proc, claims, gone>>,
           \A s : Present(s) => Present(s)', DOMAIN session \subseteq DOMAIN session',
           \A t \in DOMAIN task' :
              \/ task'[t].state = "QUEUED"
              \/ /\ t \in DOMAIN task /\ task'[t].state = task[t].state
                 /\ task'[t].session = task[t].session
    PROVE  ShareInv'
<1>1. \A s : AssignedTo(s)' \subseteq AssignedTo(s)
  BY DEF AssignedTo
<1>2. ASSUME NEW q \in Agent PROVE Ready(q)'
  <2>1. PICK r, s : r = proc[q] /\ s = AgentOf[q]
    OBVIOUS
  <2>2. s \in Session /\ proc'[q] = r
    BY <2>1, SessionsAssumption
  <2>3. HasRoomFor(s) => HasRoomFor(s)'
    BY <1>1, <2>2, RoomKept
  <2>4. Registered(s) => Registered(s)'
    BY DEF Registered
  <2> QED BY <1>1, <2>1, <2>2, <2>3, <2>4 DEF ShareInv, Ready, Owes, Mine, W!Leased
<1>3. ASSUME NEW t \in DOMAIN task' PROVE Cared(t)'
  <2>1. CASE task'[t].state = "QUEUED"
    BY <2>1 DEF Cared
  <2>2. CASE /\ t \in DOMAIN task /\ task'[t].state = task[t].state
             /\ task'[t].session = task[t].session
    <3>1. PICK s : s = task[t].session
      OBVIOUS
    <3>2. task[t].state = "ASSIGNED" => Present(s)' /\ (NeedsClaim(t) => Mine(t, s)')
      BY <2>2, <3>1 DEF ShareInv, Cared, Mine, W!Leased
    <3>3. task[t].state = "ROUTING" => \E p \in Proc : Holder(proc'[p]) /\ proc'[p].t = t
      BY <2>2 DEF ShareInv, Cared
    <3> QED BY <2>2, <3>1, <3>2, <3>3 DEF Cared, Present, Registered, Lost, Mine, Holder, W!Leased
  <2> QED BY <1>3, <2>1, <2>2
<1>4. Leases'
  BY SameLeases DEF ShareInv
<1> QED BY <1>2, <1>3, <1>4 DEF ShareInv, Vain

LEMMA EnvironmentShare ==
    ASSUME Unkilled, Attended, TypeInv, ShareInv, Environment
    PROVE  ShareInv'
<1>1. Bounded /\ Rows /\ SessionsTyped
  BY Tables DEF TypeInv, IInv
<1>2. ASSUME NEW t \in Task, SubmitTask(t) PROVE ShareInv'
  <2>1. PICK row : row = [state |-> "QUEUED", attempts |-> 0, session |-> NoSession, old |-> FALSE]
    OBVIOUS
  <2>2. task' = With(task, t, row) /\ UNCHANGED <<session, claims, proc, gone>> /\ t \notin DOMAIN task
    BY <1>2, <2>1 DEF SubmitTask, Known
  <2>3. \A u \in DOMAIN task' : task'[u].state = "QUEUED" \/ (u \in DOMAIN task /\ task'[u] = task[u])
    BY <2>1, <2>2 DEF With
  <2>4. \A s : Present(s) => Present(s)'
    BY <2>2 DEF Present, Registered, Lost
  <2> QED BY <1>1, <2>2, <2>3, <2>4, OutsideShare
<1>3. ASSUME NEW x \in Session, DiscoverSession(x) PROVE ShareInv'
  <2>1. UNCHANGED <<task, claims, proc, gone>>
    BY <1>3 DEF DiscoverSession
  <2>2. PICK row : row = IF Registered(x)
          THEN [session[x] EXCEPT !.fresh = TRUE, !.accepts = @ /\ session[x].hand]
          ELSE [state |-> "OPEN", accepts |-> FALSE, hand |-> FALSE, fresh |-> TRUE]
    OBVIOUS
  <2>3. session' = With(session, x, row)
    BY <1>3, <2>2 DEF DiscoverSession
  <2>4. /\ DOMAIN session' = DOMAIN session \cup {x}
        /\ \A s \in DOMAIN session' : session'[s] = IF s = x THEN row ELSE session[s]
    BY <2>3 DEF With
  <2>5. Registered(x) => row.fresh /\ row.state = session[x].state
    <3>1. SUFFICES ASSUME Registered(x) PROVE row.fresh /\ row.state = session[x].state
      OBVIOUS
    <3>2. PICK old \in SessionRow : old = session[x]
      BY <1>1, <3>1 DEF SessionsTyped, Registered
    <3>3. PICK b : b = (old.accepts /\ old.hand)
      OBVIOUS
    <3>4. row = [old EXCEPT !.fresh = TRUE, !.accepts = b]
      BY <2>2, <3>1, <3>2, <3>3
    <3> QED BY <3>2, <3>4 DEF SessionRow
  <2>6. \A s : Present(s) => Present(s)'
    BY <2>4, <2>5 DEF Present, Registered, Lost
  <2> QED BY <1>1, <2>1, <2>4, <2>6, OutsideShare
<1>4. CASE TwoMinutes
  <2>1. UNCHANGED <<session, claims, proc, gone>> /\ DOMAIN task' = DOMAIN task
    BY <1>4 DEF TwoMinutes
  <2>2. ASSUME NEW t \in DOMAIN task
        PROVE  task'[t].state = task[t].state /\ task'[t].session = task[t].session
    <3>1. PICK b : b = (task[t].old \/ (task[t].state = "ROUTING" /\ Ages(t)))
      OBVIOUS
    <3>2. task'[t] = [task[t] EXCEPT !.old = b]
      BY <1>4, <3>1 DEF TwoMinutes
    <3> QED BY <1>1, <3>2 DEF Rows
  <2>3. \A s : Present(s) => Present(s)'
    BY <2>1 DEF Present, Registered, Lost
  <2> QED BY <1>1, <2>1, <2>2, <2>3, OutsideShare
<1>5. ~Outage /\ \A s \in Session : ~Lapse(s) /\ ~Die(s)
  BY DEF Outage, Lapse, Die, Attended, Unkilled, ShareInv
<1> QED BY <1>2, <1>3, <1>4, <1>5 DEF Environment

LEMMA InitShare == Init => ShareInv
<1> SUFFICES ASSUME Init PROVE ShareInv
  OBVIOUS
<1>1. PICK q : q = Idle
  OBVIOUS
<1>2. q.pc = "idle" /\ q.todo = <<>> /\ q.left = {}
  BY <1>1 DEF Idle
<1>3. /\ DOMAIN task = {} /\ DOMAIN claims = {} /\ gone = {}
      /\ \A p \in Proc : proc[p] = q
  BY <1>1 DEF Init, W!Init
<1>4. Range(<<>>) = {}
  BY DEF Range
<1>5. \A p \in Agent : Ready(p)
  BY <1>2, <1>3, <1>4 DEF Ready, Owes, Choosing, Pulling, Proc
<1> QED BY <1>2, <1>3, <1>5 DEF ShareInv, Vain, Leases, W!LeasesDisjoint

LEMMA NextShare ==
    ASSUME Unkilled, Attended, TypeInv, PullInv, ShareInv, [Next]_vars
    PROVE  ShareInv'
<1>1. ASSUME NEW p \in Proc, AgentStep(p) PROVE ShareInv'
  BY <1>1, ReadsShare, AcquireShare, ClaimShare, FailureShare, AssignShare, CompleteShare,
     EachShare DEF AgentStep
<1>2. ASSUME NEW p \in Proc, AgentCommand(p) PROVE ShareInv'
  BY <1>2, CommandShare, CloseShare DEF AgentCommand
<1>3. CASE UNCHANGED vars
  <2>1. UNCHANGED <<task, session, claims, proc, gone>>
    BY <1>3 DEF vars
  <2>2. \A s : Present(s) => Present(s)'
    BY <2>1 DEF Present, Registered, Lost
  <2> QED BY <2>1, <2>2, OutsideShare DEF TypeInv, IInv
<1>4. \A p \in Proc : ~Crash(p)
  BY DEF Crash, Unkilled
<1> QED BY <1>1, <1>2, <1>3, <1>4, PerformShare, TickShare, EnvironmentShare DEF Next, Run

LEMMA ShareHolds ==
    ASSUME Orderly, Unkilled, Attended
    PROVE  Spec => [](TypeInv /\ ShareInv)
<1>1. Init => TypeInv /\ PullInv /\ ShareInv
  BY InitTyped, InitPull, InitShare
<1>2. TypeInv /\ PullInv /\ ShareInv /\ [Next]_vars => (TypeInv /\ PullInv /\ ShareInv)'
  BY NextTyped, NextPull, NextShare DEF TypeInv, IInv
<1> QED BY <1>1, <1>2, PTL DEF Spec

\* A claim is released by task id, in a call of its own, long after the task has
\* been completed, given back or lost, and when it may be assigned again.  An
\* assigned task that writes a repository holds its claim all the same, in the
\* name of its session: as long as nobody is killed, stalled or late, disables a
\* session or runs two commands for one at a time.
THEOREM AssignedHoldsClaim ==
    ASSUME Orderly, Unkilled, Attended
    PROVE  Spec => []AssignedClaimed
<1>1. ShareInv => AssignedClaimed
  BY DEF ShareInv, Cared, Mine, AssignedClaimed
<1> QED BY <1>1, ShareHolds, PTL

\* Two sessions, however their pulls, completions and closings interleave, never
\* work on overlapping paths of one commit, under the same conditions.
THEOREM SessionsApart ==
    ASSUME Orderly, Unkilled, Attended
    PROVE  Spec => []ScopeExclusion
<1>1. ShareInv => ScopeExclusion
  <2> SUFFICES ASSUME ShareInv, NEW t \in DOMAIN task, NEW u \in DOMAIN task,
                      StateIs(t, {"ASSIGNED"}), StateIs(u, {"ASSIGNED"}), Overlap(t, u), t # u
               PROVE  FALSE
    BY DEF ScopeExclusion
  <2>1. NeedsClaim(t) /\ NeedsClaim(u)
    BY DEF Overlap, W!ScopesOverlap, NeedsClaim
  <2>2. W!Leased(claims, t) /\ W!Leased(claims, u)
    BY <2>1 DEF ShareInv, Cared, Mine, StateIs
  <2>3. /\ t \in DOMAIN claims /\ claims[t].base = BaseOf[t] /\ claims[t].scopes = ScopesOf[t]
        /\ u \in DOMAIN claims /\ claims[u].base = BaseOf[u] /\ claims[u].scopes = ScopesOf[u]
    BY <2>2 DEF ShareInv, Leases, W!Leased
  <2> QED BY <2>2, <2>3 DEF ShareInv, Leases, W!LeasesDisjoint, Overlap
<1> QED BY <1>1, ShareHolds, PTL
================================================================================
