------------------------------ MODULE LocalJobProofs ------------------------------
(* Theorems about LocalJob, for any number of clients and of faults.         *)
EXTENDS LocalJob, TLAPS, FiniteSetTheorems

-----------------------------------------------------------------------------
(* Types                                                                     *)

\* TypeOK without its last conjunct.
Types ==
    /\ dir \in Directory
    /\ runner \in [Client -> Runner]
    /\ client \in [Client -> Call]
    /\ since \subseteq Client
    /\ faults \in 0..MaxFaults
    /\ psutil \in {"works", "fails"}

CallPc == {"idle", "popen", "send", "name", "result", "alive", "grace", "lost",
           "touch", "read", "kill_command", "kill_runner", "cancelled"}

RunnerPc == {"none", "reading", "told", "spawned", "watching", "writing", "failing", "gone"}

\* How a call goes on or ends.
LEMMA CallTypes ==
    ASSUME Types, NEW c \in Client
    PROVE  /\ \A pc \in CallPc : Goto(c, pc) => client' \in [Client -> Call]
           /\ \A pc \in CallPc : Step(c, pc) =>
                 client' \in [Client -> Call] /\ since' \subseteq Client
           /\ Return(c) => client' \in [Client -> Call] /\ since' \subseteq Client
           /\ Running(c) => client' \in [Client -> Call] /\ since' \subseteq Client
           /\ \A op \in {"submit", "status", "cancel"} : Inspect(c, op) =>
                 client' \in [Client -> Call] /\ since' = since
<1>0. client \in [Client -> Call] /\ since \subseteq Client /\ dir \in Directory
  BY DEF Types
<1>1. ASSUME NEW pc \in CallPc, Goto(c, pc) PROVE client' \in [Client -> Call]
  <2>1. [client[c] EXCEPT !.pc = pc] \in Call
    BY <1>0 DEF Call, CallPc
  <2> QED BY <2>1, <1>0, <1>1 DEF Goto
<1>2. Idle \in Call
  BY DEF Idle, Call
<1>3. ASSUME Return(c) PROVE client' \in [Client -> Call] /\ since' \subseteq Client
  BY <1>0, <1>2, <1>3 DEF Return
<1>4. ASSUME NEW pc \in CallPc, Step(c, pc)
      PROVE  client' \in [Client -> Call] /\ since' \subseteq Client
  BY <1>0, <1>1, <1>4 DEF Step
<1>5. ASSUME Running(c) PROVE client' \in [Client -> Call] /\ since' \subseteq Client
  <2>1. "touch" \in CallPc
    BY DEF CallPc
  <2> QED BY <2>1, <1>3, <1>4, <1>5 DEF Running
<1>6. ASSUME NEW op \in {"submit", "status", "cancel"}, Inspect(c, op)
      PROVE  client' \in [Client -> Call] /\ since' = since
  <2>1. [pc |-> "result", op |-> op, named |-> dir.named, runtime |-> FALSE] \in Call
    BY <1>0 DEF Call, Directory
  <2> QED BY <2>1, <1>0, <1>6 DEF Inspect
<1> QED BY <1>1, <1>3, <1>4, <1>5, <1>6

\* How a runner goes on.
LEMMA RunnerTypes ==
    ASSUME Types
    PROVE  /\ \A c \in Client, pc \in RunnerPc :
                 [runner EXCEPT ![c].pc = pc] \in [Client -> Runner]
           /\ Stopped \in [Client -> Runner]
<1>0. runner \in [Client -> Runner]
  BY DEF Types
<1>1. ASSUME NEW d \in Client, NEW pc \in RunnerPc PROVE [runner[d] EXCEPT !.pc = pc] \in Runner
  BY <1>0 DEF Runner, RunnerPc
<1>2. "gone" \in RunnerPc
  BY DEF RunnerPc
<1> QED BY <1>0, <1>1, <1>2 DEF Stopped

\* The files.
LEMMA DirTypes ==
    ASSUME Types
    PROVE  /\ \A b \in BOOLEAN :
                 /\ [dir EXCEPT !.exists = b] \in Directory
                 /\ [dir EXCEPT !.named = b] \in Directory
                 /\ [dir EXCEPT !.runtime = b] \in Directory
                 /\ [dir EXCEPT !.cancel = b] \in Directory
           /\ \A g \in {"none", "begun", "over"} : [dir EXCEPT !.grace = g] \in Directory
           /\ \A r \in Outcome : [dir EXCEPT !.result = r] \in Directory
BY DEF Types, Directory

LEMMA TypesInit == Init => Types
<1> SUFFICES ASSUME Init PROVE Types
  OBVIOUS
<1>1. dir \in Directory
  BY DEF Init, Directory, Outcome
<1>2. runner \in [Client -> Runner]
  BY DEF Init, Runner, Outcome
<1>3. client \in [Client -> Call]
  BY DEF Init, Call, Idle
<1>4. faults \in 0..MaxFaults
  BY LocalJobAssumption DEF Init
<1> QED BY <1>1, <1>2, <1>3, <1>4 DEF Init, Types

\* psutil goes on as it was in every step but one.
LEMMA PsutilStays == ASSUME [Next]_vars, ~PsutilFails PROVE psutil' = psutil
<1>1. ASSUME NEW c \in Client, Begin(c) PROVE psutil' = psutil
  BY <1>1 DEF Begin, BeginSubmit, BeginStatus, BeginCancel, Inspect
<1>2. ASSUME NEW c \in Client, CallStep(c) PROVE psutil' = psutil
  BY <1>2 DEF CallStep, ReadResult, TestRunner, ReadGrace, WriteLost, Popen, Send, Name,
              Touch, ReadPids, KillCommand, KillRunner, WriteCancelled
<1>3. ASSUME NEW c \in Client, RunnerStep(c) \/ FaultStep(c) PROVE psutil' = psutil
  BY <1>3 DEF RunnerStep, SpawnCommand, Publish, CommandEnds, Judge, WriteResult, WriteError,
              FaultStep, Break, SendFails, Crash, Fault
<1>4. ASSUME Reboot \/ GraceEnds \/ UNCHANGED vars PROVE psutil' = psutil
  BY <1>4 DEF Reboot, Fault, GraceEnds, vars
<1> QED BY <1>1, <1>2, <1>3, <1>4 DEF Next

LEMMA TypesStep == Types /\ [Next]_vars => Types'
<1>p. ASSUME Types, PsutilFails PROVE Types'
  BY <1>p DEF Types, PsutilFails
<1> SUFFICES ASSUME Types, [Next]_vars, ~PsutilFails PROVE Types'
  BY <1>p
<1>0. /\ dir \in Directory /\ runner \in [Client -> Runner] /\ client \in [Client -> Call]
      /\ since \subseteq Client /\ faults \in 0..MaxFaults
  BY DEF Types
<1>a. /\ {"touch", "alive", "grace", "lost", "send", "name", "read", "kill_command",
          "kill_runner", "cancelled"} \subseteq CallPc
      /\ {"reading", "told", "spawned", "watching", "writing", "failing", "gone"}
            \subseteq RunnerPc
      /\ {"NONE", "SUCCEEDED", "FAILED", "CANCELLED", "LOST"} \subseteq Outcome
  BY DEF CallPc, RunnerPc, Outcome
<1>1. dir' \in Directory
  <2>1. CASE UNCHANGED dir
    BY <2>1, <1>0
  <2>2. CASE \E b \in BOOLEAN : \/ dir' = [dir EXCEPT !.exists = b]
                                \/ dir' = [dir EXCEPT !.named = b]
                                \/ dir' = [dir EXCEPT !.runtime = b]
                                \/ dir' = [dir EXCEPT !.cancel = b]
    BY <2>2, DirTypes
  <2>3. CASE \E g \in {"none", "begun", "over"} : dir' = [dir EXCEPT !.grace = g]
    BY <2>3, DirTypes
  <2>4. CASE \E r \in Outcome : dir' = [dir EXCEPT !.result = r]
    BY <2>4, DirTypes
  <2>5. \A c \in Client : runner[c].verdict \in Outcome
    BY <1>0 DEF Runner
  <2>6. ASSUME NEW c \in Client, Begin(c) \/ RunnerStep(c) \/ FaultStep(c) PROVE dir' \in Directory
    BY <2>6, <2>1, <2>2, <2>3, <2>4, <2>5, <1>a
    DEF Begin, BeginSubmit, BeginStatus, BeginCancel, Inspect, RunnerStep, SpawnCommand,
        Publish, CommandEnds, Judge, WriteResult, WriteError, FaultStep, Break, SendFails, Crash, Identified
  <2>7. ASSUME NEW c \in Client, CallStep(c) PROVE dir' \in Directory
    BY <2>7, <2>1, <2>2, <2>3, <2>4, <2>5, <1>a
    DEF CallStep, ReadResult, TestRunner, ReadGrace, WriteLost, Popen, Send, Name, Touch,
        ReadPids, KillCommand, KillRunner, WriteCancelled, Identified
  <2>8. CASE Reboot \/ GraceEnds \/ UNCHANGED vars
    BY <2>8, <2>1, <2>2, <2>3, <2>4, <2>5, <1>a DEF Reboot, GraceEnds, vars
  <2> QED BY <2>6, <2>7, <2>8 DEF Next
<1>2. runner' \in [Client -> Runner]
  <2>1. CASE UNCHANGED runner
    BY <2>1, <1>0
  <2>2. CASE \E c \in Client : \E pc \in RunnerPc : runner' = [runner EXCEPT ![c].pc = pc]
    BY <2>2, RunnerTypes
  <2>3. CASE runner' = Stopped
    BY <2>3, RunnerTypes
  <2>4. ASSUME NEW c \in Client, Judge(c) PROVE runner' \in [Client -> Runner]
    <3>1. \A v \in {"SUCCEEDED", "FAILED"} :
             [pc |-> "writing", verdict |-> IF dir.cancel THEN "CANCELLED" ELSE v] \in Runner
      BY DEF Runner, Outcome
    <3> QED BY <3>1, <2>4, <1>0 DEF Judge
  <2>5. ASSUME NEW c \in Client, Begin(c) \/ RunnerStep(c) \/ FaultStep(c) PROVE runner' \in [Client -> Runner]
    BY <2>5, <2>1, <2>2, <2>3, <2>4, <1>a
    DEF Begin, BeginSubmit, BeginStatus, BeginCancel, Inspect, RunnerStep, RunnerGoes, SpawnCommand,
        Publish, CommandEnds, Judge, WriteResult, WriteError, FaultStep, Break, SendFails, Crash
  <2>6. ASSUME NEW c \in Client, CallStep(c) PROVE runner' \in [Client -> Runner]
    BY <2>6, <2>1, <2>2, <2>3, <2>4, <1>a
    DEF CallStep, ReadResult, TestRunner, ReadGrace, WriteLost, Popen, Send, Name, Touch,
        ReadPids, KillCommand, KillRunner, WriteCancelled
  <2>7. CASE Reboot \/ GraceEnds \/ UNCHANGED vars
    BY <2>7, <2>1, <2>2, <2>3, <2>4, <1>a DEF Reboot, GraceEnds, vars
  <2> QED BY <2>5, <2>6, <2>7 DEF Next
<1>3. client' \in [Client -> Call] /\ since' \subseteq Client
  <2>1. CASE UNCHANGED <<client, since>>
    BY <2>1, <1>0
  <2>2. ASSUME NEW c \in Client, \/ Return(c) \/ Running(c)
                                 \/ \E pc \in CallPc : Step(c, pc)
                                 \/ \E op \in {"submit", "status", "cancel"} : Inspect(c, op)
        PROVE  client' \in [Client -> Call] /\ since' \subseteq Client
    BY <2>2, <1>0, CallTypes
  <2>3. ASSUME NEW c \in Client, ReadGrace(c)
        PROVE  client' \in [Client -> Call] /\ since' \subseteq Client
    <3>1. Idle \in Call /\ Under \subseteq Client
      BY DEF Idle, Call, Under
    <3>2. CASE Running(c) \/ Step(c, "lost")
      BY <3>2, <2>2, <1>a
    <3>3. CASE Goto(c, "touch") /\ since' = Under
      BY <3>1, <3>3, <1>a, CallTypes
    <3>4. CASE client' = [client EXCEPT ![c] = Idle] /\ since' = Under \ {c}
      BY <3>1, <3>4, <1>0
    <3> QED BY <2>3, <3>2, <3>3, <3>4 DEF ReadGrace
  <2>4. ASSUME NEW c \in Client, BeginSubmit(c)
        PROVE  client' \in [Client -> Call] /\ since' \subseteq Client
    <3>1. [client[c] EXCEPT !.pc = "popen", !.op = "submit"] \in Call
      BY <1>0 DEF Call
    <3>2. CASE client' = [client EXCEPT ![c].pc = "popen", ![c].op = "submit"]
               /\ UNCHANGED since
      BY <3>1, <3>2, <1>0
    <3> QED BY <3>2, <2>4, <2>2 DEF BeginSubmit
  <2>5. ASSUME NEW c \in Client, ReadPids(c)
        PROVE  client' \in [Client -> Call] /\ since' \subseteq Client
    <3>1. [client[c] EXCEPT !.pc = "kill_command", !.named = dir.named,
                            !.runtime = dir.runtime] \in Call
      BY <1>0 DEF Call, Directory
    <3> QED BY <3>1, <2>5, <1>0 DEF ReadPids
  <2>6. CASE Reboot
    <3>1. Idle \in Call
      BY DEF Idle, Call
    <3> QED BY <3>1, <2>6 DEF Reboot
  <2> QED
    BY <2>1, <2>2, <2>3, <2>4, <2>5, <2>6, <1>a
    DEF Next, Begin, BeginStatus, BeginCancel, CallStep, ReadResult,
        TestRunner, WriteLost, Popen, Send, Name, Touch,
        KillCommand, KillRunner, WriteCancelled, RunnerStep, SpawnCommand, Publish,
        CommandEnds, Judge, WriteResult, WriteError, FaultStep, Break, SendFails, Crash,
        GraceEnds, vars
<1>4. faults' \in 0..MaxFaults
  <2>1. CASE UNCHANGED faults
    BY <2>1, <1>0
  <2>2. CASE \E f \in {"crash", "error", "reboot"} : Fault(f)
    BY <2>2, <1>0, LocalJobAssumption DEF Fault
  <2>3. ASSUME NEW c \in Client, Begin(c) \/ RunnerStep(c) \/ FaultStep(c) PROVE faults' \in 0..MaxFaults
    BY <2>3, <2>1, <2>2
    DEF Begin, BeginSubmit, BeginStatus, BeginCancel, Inspect, RunnerStep, SpawnCommand,
        Publish, CommandEnds, Judge, WriteResult, WriteError, FaultStep, Break, SendFails, Crash
  <2>4. ASSUME NEW c \in Client, CallStep(c) PROVE faults' \in 0..MaxFaults
    BY <2>4, <2>1, <2>2
    DEF CallStep, ReadResult, TestRunner, ReadGrace, WriteLost, Popen, Send, Name, Touch,
        ReadPids, KillCommand, KillRunner, WriteCancelled
  <2>5. CASE Reboot \/ GraceEnds \/ UNCHANGED vars
    BY <2>5, <2>1, <2>2 DEF Reboot, GraceEnds, vars
  <2> QED BY <2>3, <2>4, <2>5 DEF Next
<1>5. psutil' \in {"works", "fails"}
  BY PsutilStays DEF Types
<1> QED BY <1>1, <1>2, <1>3, <1>4, <1>5 DEF Types

-----------------------------------------------------------------------------
(* One owner of the job directory                                            *)

InSubmit(c) == client[c].pc \in {"popen", "send", "name"}

Owner(c) == InSubmit(c) \/ runner[c].pc # "none"

Owned ==
    /\ \A c, d \in Client : Owner(c) /\ Owner(d) => c = d
    /\ \A c \in Client : client[c].pc # "idle" \/ Owner(c) => dir.exists

\* Where the command and the runner of a client are.
Phases ==
    /\ \A c \in Client : client[c].pc = "popen" => runner[c].pc = "none"
    /\ \A c \in Client : client[c].pc = "send" => runner[c].pc = "reading"
    /\ \A c \in command : c \in Client /\ runner[c].pc \in {"spawned", "watching"}

\* The runner is named when its submission is through.
NamedLate ==
    /\ dir.named => dir.exists /\ ~Submitting
    /\ \A c \in Client : client[c].named => dir.named

Base == Types /\ Owned /\ Phases /\ NamedLate

LEMMA BaseInit == Init => Base
BY TypesInit DEF Init, Base, Owned, Owner, InSubmit, Phases, NamedLate, Submitting, Idle

\* Steps of a call that leave the directory's owner and its runner alone.
LEMMA CallKeeps ==
    ASSUME Base, NEW c \in Client, ~InSubmit(c), UNCHANGED <<runner, command>>,
           dir'.exists = dir.exists, dir'.named = dir.named,
           \A d \in Client \ {c} : client'[d] = client[d],
           client'[c].pc \notin {"popen", "send", "name"},
           client'[c].pc # "idle" => dir.exists,
           client'[c].named => client[c].named \/ dir.named
    PROVE  Owned' /\ Phases' /\ NamedLate'
BY DEF Base, Types, Owned, Owner, InSubmit, Phases, NamedLate, Submitting

LEMMA BaseStep == Base /\ [Next]_vars => Base'
<1> SUFFICES ASSUME Base, [Next]_vars PROVE Base'
  OBVIOUS
<1>0. /\ Types /\ Owned /\ Phases /\ NamedLate /\ Types'
  BY TypesStep DEF Base
<1>a. client \in [Client -> Call] /\ runner \in [Client -> Runner] /\ dir \in Directory
  BY <1>0 DEF Types
<1> DEFINE Kept == Owned' /\ Phases' /\ NamedLate'
<1>1. ASSUME NEW c \in Client, BeginStatus(c) \/ BeginCancel(c) PROVE Kept
  <2>1. /\ UNCHANGED <<dir, runner, command>> /\ dir.exists
        /\ client[c].pc = "idle"
        /\ \A d \in Client \ {c} : client'[d] = client[d]
        /\ client'[c].pc = "result" /\ client'[c].named = dir.named
    BY <1>1, <1>a DEF BeginStatus, BeginCancel, Inspect, MayCall, At
  <2> QED BY <2>1, CallKeeps DEF InSubmit
<1>2. ASSUME NEW c \in Client, BeginSubmit(c) PROVE Kept
  <2>1. CASE Inspect(c, "submit")
    <3>1. /\ UNCHANGED <<dir, runner, command>> /\ dir.exists
          /\ client[c].pc = "idle"
          /\ \A d \in Client \ {c} : client'[d] = client[d]
          /\ client'[c].pc = "result" /\ client'[c].named = dir.named
      BY <1>2, <1>a, <2>1 DEF BeginSubmit, Inspect, MayCall, At
    <3> QED BY <3>1, CallKeeps DEF InSubmit
  <2>2. CASE ~Inspect(c, "submit")
    <3>1. /\ ~dir.exists /\ dir'.exists /\ dir'.named = dir.named
          /\ UNCHANGED <<runner, command>>
          /\ \A d \in Client \ {c} : client'[d] = client[d]
          /\ client'[c].pc = "popen" /\ client'[c].named = client[c].named
      BY <1>2, <1>a, <2>2 DEF BeginSubmit, Directory, Call
    <3> QED BY <3>1, <1>0, <1>a
        DEF Owned, Owner, InSubmit, Phases, NamedLate, Submitting
  <2> QED BY <2>1, <2>2
<1>3. ASSUME NEW c \in Client, ReadResult(c) \/ TestRunner(c) \/ ReadGrace(c) \/ WriteLost(c)
             \/ Touch(c) \/ ReadPids(c) \/ WriteCancelled(c)
      PROVE Kept
  <2>1. ~InSubmit(c) /\ client[c].pc # "idle"
    BY <1>3 DEF InSubmit, ReadResult, TestRunner, ReadGrace, WriteLost, Touch, ReadPids,
                WriteCancelled, At
  <2>2. UNCHANGED <<runner, command>>
    BY <1>3 DEF ReadResult, TestRunner, ReadGrace, WriteLost, Touch, ReadPids, WriteCancelled
  <2>3. dir'.exists = dir.exists /\ dir'.named = dir.named
    BY <1>3, <1>a DEF ReadResult, TestRunner, ReadGrace, WriteLost, Touch, ReadPids,
                      WriteCancelled, Directory
  <2>4. /\ \A d \in Client \ {c} : client'[d] = client[d]
        /\ client'[c].pc \notin {"popen", "send", "name"}
        /\ client'[c].named => client[c].named \/ dir.named
    <3> DEFINE After == {"idle", "alive", "grace", "lost", "touch", "read", "kill_command"}
    <3> DEFINE Goal == /\ \A d \in Client \ {c} : client'[d] = client[d]
                       /\ client'[c].pc \in After
                       /\ client'[c].named \in {client[c].named, dir.named, FALSE}
    <3>1. Goal
      <4>1. ASSUME \/ client' = [client EXCEPT ![c] = Idle]
                   \/ \E pc \in After : client' = [client EXCEPT ![c].pc = pc]
            PROVE Goal
        <5>1. CASE client' = [client EXCEPT ![c] = Idle]
          BY <5>1, <1>a DEF Idle
        <5>2. CASE \E pc \in After : client' = [client EXCEPT ![c].pc = pc]
          <6>1. PICK pc \in After : client' = [client EXCEPT ![c].pc = pc]
            BY <5>2
          <6>2. client'[c] = [client[c] EXCEPT !.pc = pc]
            BY <6>1, <1>a
          <6> QED BY <6>1, <6>2, <1>a DEF Call
        <5> QED BY <4>1, <5>1, <5>2
      <4>2. CASE ReadPids(c)
        BY <4>2, <1>a DEF ReadPids, Call
      <4>3. Return(c) \/ Running(c) \/ (\E pc \in After : Goto(c, pc)) => Goal
        <5> HIDE DEF Goal
        <5> QED BY <4>1 DEF Return, Running, Step, Goto
      <4>4. CASE ReadGrace(c)
        <5> HIDE DEF Goal
        <5> QED BY <4>1, <4>3, <4>4 DEF ReadGrace, Step
      <4>5. CASE ReadResult(c) \/ TestRunner(c) \/ WriteLost(c) \/ Touch(c) \/ WriteCancelled(c)
        <5> HIDE DEF Goal
        <5> QED BY <4>3, <4>5 DEF ReadResult, TestRunner, WriteLost, Touch, WriteCancelled, Step
      <4> QED BY <1>3, <4>2, <4>4, <4>5
    <3> QED BY <3>1
  <2>5. dir.exists
    BY <2>1, <1>0 DEF Owned
  <2> QED BY <2>1, <2>2, <2>3, <2>4, <2>5, CallKeeps
<1>4. ASSUME NEW c \in Client, Popen(c) PROVE Kept
  <2>1. /\ client[c].pc = "popen" /\ client'[c].pc = "send"
        /\ client'[c].named = client[c].named
        /\ \A d \in Client \ {c} : client'[d] = client[d] /\ runner'[d] = runner[d]
        /\ runner'[c].pc = "reading" /\ UNCHANGED <<dir, command>>
    BY <1>4, <1>a DEF Popen, At, Step, Goto, Call, Runner
  <2> QED BY <2>1, <1>0 DEF Owned, Owner, InSubmit, Phases, NamedLate, Submitting
<1>5. ASSUME NEW c \in Client, Send(c) PROVE Kept
  <2>1. /\ client[c].pc = "send" /\ client'[c].pc = "name"
        /\ client'[c].named = client[c].named
        /\ \A d \in Client \ {c} : client'[d] = client[d] /\ runner'[d] = runner[d]
        /\ runner'[c].pc = "told" /\ UNCHANGED <<dir, command>>
    BY <1>5, <1>a DEF Send, At, Step, Goto, Call, Runner
  <2> QED BY <2>1, <1>0 DEF Owned, Owner, InSubmit, Phases, NamedLate, Submitting
<1>6. ASSUME NEW c \in Client, Name(c) PROVE Kept
  <2>1. /\ client[c].pc = "name" /\ client'[c].pc = "idle" /\ ~client'[c].named
        /\ \A d \in Client \ {c} : client'[d] = client[d]
        /\ dir'.exists = dir.exists /\ UNCHANGED <<runner, command>>
    BY <1>6, <1>a DEF Name, At, Return, Idle, Directory, Call
  <2>2. \A d \in Client : ~client[d].named
    BY <2>1, <1>0 DEF NamedLate, Submitting
  <2> QED BY <2>1, <2>2, <1>0 DEF Owned, Owner, InSubmit, Phases, NamedLate, Submitting
<1>7. ASSUME NEW c \in Client, KillCommand(c) PROVE Kept
  <2>1. /\ client[c].pc = "kill_command" /\ client'[c].pc = "kill_runner"
        /\ client'[c].named = client[c].named
        /\ \A d \in Client \ {c} : client'[d] = client[d]
        /\ UNCHANGED <<dir, runner>> /\ command' \subseteq command
    BY <1>7, <1>a DEF KillCommand, At, Step, Goto, Call
  <2> QED BY <2>1, <1>0 DEF Owned, Owner, InSubmit, Phases, NamedLate, Submitting
<1>8. ASSUME NEW c \in Client, KillRunner(c) PROVE Kept
  <2>1. /\ client[c].pc = "kill_runner" /\ client'[c].pc = "cancelled"
        /\ client'[c].named = client[c].named
        /\ \A d \in Client \ {c} : client'[d] = client[d]
        /\ UNCHANGED dir /\ command' \subseteq command
    BY <1>8, <1>a DEF KillRunner, At, Step, Goto, Call
  <2>2. CASE client[c].named /\ command' = {} /\ runner' = Stopped
    <3>1. dir.named /\ \A d \in Client : ~InSubmit(d)
      BY <2>2, <1>0 DEF NamedLate, Submitting, InSubmit
    <3>2. /\ command' = {}
          /\ \A d \in Client : runner'[d].pc = "none" <=> runner[d].pc = "none"
      BY <2>2, <1>a DEF Stopped, Runner
    <3> QED BY <2>1, <3>1, <3>2, <1>0
        DEF Owned, Owner, InSubmit, Phases, NamedLate, Submitting
  <2>3. CASE UNCHANGED <<runner, command>>
    BY <2>1, <2>3, <1>0 DEF Owned, Owner, InSubmit, Phases, NamedLate, Submitting
  <2> QED BY <1>8, <2>2, <2>3 DEF KillRunner
<1>9. ASSUME NEW c \in Client,
             RunnerStep(c) \/ Break(c)
      PROVE Kept
  <2>1. UNCHANGED client /\ dir'.exists = dir.exists /\ dir'.named = dir.named
    BY <1>9, <1>a DEF RunnerStep, SpawnCommand, Publish, CommandEnds, Judge, WriteResult,
                      WriteError, Break, Directory
  <2>2. /\ \A d \in Client \ {c} : runner'[d] = runner[d]
        /\ runner'[c] = runner[c] \/ runner[c].pc \notin {"none", "reading"}
        /\ runner'[c].pc = "none" <=> runner[c].pc = "none"
    BY <1>9, <1>a DEF RunnerStep, SpawnCommand, Publish, CommandEnds, Judge, WriteResult,
                      WriteError, Break, RunnerGoes, Runner
  <2>3. \A d \in command' : d \in Client /\ runner'[d].pc \in {"spawned", "watching"}
    <3>1. CASE SpawnCommand(c)
      BY <3>1, <1>0, <1>a DEF SpawnCommand, RunnerGoes, Phases, Runner
    <3>2. CASE Publish(c)
      BY <3>2, <1>0, <1>a DEF Publish, RunnerGoes, Phases, Runner
    <3>3. CASE CommandEnds(c)
      BY <3>3, <1>0, <1>a DEF CommandEnds, Phases
    <3>4. CASE Judge(c)
      BY <3>4, <2>2, <1>0, <1>a DEF Judge, Phases
    <3>5. CASE WriteResult(c) \/ WriteError(c)
      BY <3>5, <2>2, <1>0, <1>a DEF WriteResult, WriteError, RunnerGoes, Phases
    <3>6. CASE Break(c)
      BY <3>6, <2>2, <1>0, <1>a DEF Break, Phases
    <3> QED BY <1>9, <3>1, <3>2, <3>3, <3>4, <3>5, <3>6 DEF RunnerStep
  <2> QED BY <2>1, <2>2, <2>3, <1>0 DEF Owned, Owner, InSubmit, Phases, NamedLate, Submitting
<1>10. ASSUME NEW c \in Client, SendFails(c) \/ Crash(c) PROVE Kept
  <2>1. /\ client[c].pc # "idle" /\ client'[c].pc = "idle" /\ ~client'[c].named
        /\ \A d \in Client \ {c} : client'[d] = client[d] /\ runner'[d] = runner[d]
        /\ runner'[c] = runner[c] \/ (client[c].pc = "send" /\ runner'[c].pc \in {"gone", "failing"})
        /\ UNCHANGED <<dir, command>>
    BY <1>10, <1>a DEF SendFails, Crash, At, Return, Idle, Runner
  <2> QED BY <2>1, <1>0 DEF Owned, Owner, InSubmit, Phases, NamedLate, Submitting
<1>11. ASSUME Reboot PROVE Kept
  <2>1. /\ \A d \in Client : client'[d].pc = "idle" /\ ~client'[d].named
        /\ \A d \in Client : runner'[d].pc = "none" <=> runner[d].pc = "none"
        /\ UNCHANGED dir /\ command' = {}
    BY <1>11, <1>a DEF Reboot, Idle, Stopped, Runner
  <2> QED BY <2>1, <1>0 DEF Owned, Owner, InSubmit, Phases, NamedLate, Submitting
<1>12. ASSUME GraceEnds \/ PsutilFails \/ UNCHANGED vars PROVE Kept
  <2>1. dir'.exists = dir.exists /\ dir'.named = dir.named /\ UNCHANGED <<runner, command, client>>
    BY <1>12, <1>a DEF GraceEnds, PsutilFails, vars, Directory
  <2> QED BY <2>1, <1>0 DEF Owned, Owner, InSubmit, Phases, NamedLate, Submitting
<1>13. Kept
  BY <1>1, <1>2, <1>3, <1>4, <1>5, <1>6, <1>7, <1>8, <1>9, <1>10, <1>11, <1>12
  DEF Next, Begin, CallStep, FaultStep
<1> QED BY <1>0, <1>13 DEF Base

LEMMA BaseAlways == Spec => []Base
BY BaseInit, BaseStep, PTL DEF Spec

\* The files and the processes keep their types, and a command runs only under
\* a runner that watches it, whatever fails in whatever order.
THEOREM TypeCorrect == Spec => []TypeOK
<1>1. Base => TypeOK
  BY DEF Base, Types, Phases, TypeOK
<1> QED BY <1>1, BaseAlways, PTL

\* A dispatch key has at most one runner, however many clients submit it and
\* whatever crashes in between.
THEOREM SingleRunner == Spec => []OneRunner
<1>1. Base => OneRunner
  <2> SUFFICES ASSUME Base PROVE OneRunner
    OBVIOUS
  <2> DEFINE S == {c \in Client : runner[c].pc # "none"}
  <2>1. Cardinality(S) <= 1
    <3>1. CASE S = {}
      <4>1. Cardinality(S) = 0
        BY <3>1, FS_EmptySet
      <4> QED BY <4>1
    <3>2. CASE S # {}
      <4>1. PICK c : c \in S
        BY <3>2
      <4>2. S = {c}
        BY <4>1 DEF Base, Owned, Owner
      <4>3. Cardinality(S) = 1
        BY <4>2, FS_Singleton
      <4> QED BY <4>3
    <3> QED BY <3>1, <3>2
  <2> QED BY <2>1 DEF OneRunner
<1> QED BY <1>1, BaseAlways, PTL

-----------------------------------------------------------------------------
(* The abstract adapter, if calls neither overlap a submission nor last      *)
(* longer than the grace period.                                             *)

Careful == "early" \notin Faults /\ "stall" \notin Faults

\* The runner can be found.
Known == dir.named /\ ~Blind

Calling(c) == client[c].pc \notin {"idle", "popen", "send", "name"}

\* While a client submits, nobody else calls, and nothing has happened yet that
\* only calls bring about.
Alone ==
    /\ \A c, d \in Client : InSubmit(c) /\ c # d => client[d].pc = "idle"
    /\ \A c \in Client : client[c].pc = "popen" => dir.result = "NONE"
    /\ ~dir.exists => dir.result = "NONE"
    /\ ~dir.exists \/ Submitting =>
          dir.grace = "none" /\ ~dir.cancel /\ dir.result \notin {"CANCELLED", "LOST"}

\* What a call has read of meta.json is still so.
NameRead == \A c \in Client : Calling(c) => client[c].named = dir.named

Verdicts ==
    \A c \in Client : runner[c].pc = "writing" =>
        \/ runner[c].verdict \in {"SUCCEEDED", "FAILED"}
        \/ runner[c].verdict = "CANCELLED" /\ dir.cancel

\* When the runner is known to be dead.
Over ==
    /\ dir.result \in {"SUCCEEDED", "FAILED"} => ~RunnerAlive
    /\ Known =>
          /\ dir.result # "NONE" \/ dir.grace # "none" => ~RunnerAlive
          /\ \A c \in Client :
                client[c].pc \in {"cancelled", "grace", "lost"} => ~RunnerAlive

\* A call that missed the result of a known runner will not declare it lost: the
\* grace period has not begun, or has begun during the call.
Kept ==
    Known /\ dir.result = "SUCCEEDED" =>
        \A c \in Client :
            /\ client[c].pc # "lost"
            /\ client[c].pc \in {"alive", "grace"} =>
                  dir.grace = "none" \/ (dir.grace = "begun" /\ c \in since)

Calls == Alone /\ NameRead /\ Verdicts /\ Over /\ Kept

LEMMA CallsInit == Init => Calls
<1> SUFFICES ASSUME Init PROVE Calls
  OBVIOUS
<1>1. /\ ~dir.exists /\ ~dir.named /\ ~dir.cancel /\ dir.grace = "none" /\ dir.result = "NONE"
      /\ \A c \in Client : client[c].pc = "idle" /\ runner[c].pc = "none"
  BY DEF Init, Idle
<1> QED BY <1>1 DEF Calls, Alone, InSubmit, Submitting, NameRead, Calling, Verdicts, Known, Blind, Over, Kept

\* A step that gives no runner a life leaves none alive that was dead.
LEMMA NoneRevived ==
    ASSUME Base,
           \A d \in Client :
              runner'[d].pc \in {"none", "gone"} \/ runner[d].pc \notin {"none", "gone"}
    PROVE  RunnerAlive' => RunnerAlive
BY DEF RunnerAlive

\* There is no other runner than the one that ends.
LEMMA LastRunner ==
    ASSUME Base, NEW c \in Client, runner[c].pc \notin {"none", "gone"},
           runner'[c].pc = "gone", \A d \in Client \ {c} : runner'[d] = runner[d]
    PROVE  RunnerAlive /\ ~RunnerAlive'
BY DEF Base, Owned, Owner, RunnerAlive

\* A call leaves submissions alone, for there is none.
LEMMA NoSubmission ==
    ASSUME Base, Alone, NEW c \in Client, Calling(c)
    PROVE  ~Submitting /\ dir.exists /\ \A d \in Client : ~InSubmit(d)
BY DEF Base, Owned, Owner, Alone, Calling, InSubmit, Submitting

LEMMA CallsFail == ASSUME Calls, PsutilFails PROVE Calls'
BY DEF Calls, Alone, InSubmit, Submitting, NameRead, Calling, Verdicts, Over, Kept, Known, Blind,
       RunnerAlive, PsutilFails

LEMMA CallsStep == Careful /\ Base /\ Calls /\ [Next]_vars => Calls'
<1> SUFFICES ASSUME Careful, Base, Calls, [Next]_vars, ~PsutilFails PROVE Calls'
  BY CallsFail
<1>0. Alone /\ NameRead /\ Verdicts /\ Over /\ Kept /\ psutil' = psutil
  BY PsutilStays DEF Calls
<1>a. /\ client \in [Client -> Call] /\ runner \in [Client -> Runner] /\ dir \in Directory
      /\ since \subseteq Client /\ Owned /\ Phases /\ NamedLate
  BY DEF Base, Types
<1> DEFINE Good == Alone' /\ NameRead' /\ Verdicts' /\ Over' /\ Kept'
\* A call goes on: it reads, or waits.
<1>b. ASSUME NEW c \in Client, Calling(c), UNCHANGED <<dir, runner>>,
             \A d \in Client \ {c} : client'[d] = client[d] /\ (d \in since => d \in since'),
             client'[c].pc \notin {"popen", "send", "name"},
             client'[c].pc # "idle" => client'[c].named = dir.named,
             client'[c].pc \in {"cancelled", "grace", "lost"} /\ Known => ~RunnerAlive,
             Known /\ dir.result = "SUCCEEDED" =>
                /\ client'[c].pc # "lost"
                /\ client'[c].pc \in {"alive", "grace"} =>
                      dir.grace = "none" \/ (dir.grace = "begun" /\ c \in since')
      PROVE  Good
  <2>1. RunnerAlive' = RunnerAlive
    BY <1>b DEF RunnerAlive
  <2>2. dir.exists /\ \A d \in Client : ~InSubmit(d)
    BY <1>b, <1>0, NoSubmission
  <2>3. \A d \in Client : ~InSubmit(d)'
    BY <1>b, <2>2 DEF InSubmit
  <2>4. ~Submitting'
    BY <2>3 DEF Submitting, InSubmit
  <2>5. Alone'
    BY <1>b, <2>2, <2>3, <2>4 DEF Alone, InSubmit
  <2>6. NameRead'
    BY <1>b, <1>0 DEF NameRead, Calling
  <2>7. Verdicts'
    BY <1>b, <1>0 DEF Verdicts
  <2>8. Over'
    BY <1>b, <1>0, <2>1 DEF Known, Blind, Over
  <2>9. Kept'
    BY <1>b, <1>0 DEF Known, Blind, Kept
  <2> QED BY <2>5, <2>6, <2>7, <2>8, <2>9
\* A call writes to a file and goes on, or returns.
<1>c. ASSUME NEW c \in Client, Calling(c), UNCHANGED runner,
             dir'.exists = dir.exists, dir'.named = dir.named,
             dir.cancel => dir'.cancel,
             \A d \in Client \ {c} : client'[d] = client[d] /\ (d \in since => d \in since'),
             client'[c].pc \notin {"popen", "send", "name", "alive", "cancelled", "grace", "lost"},
             client'[c].pc # "idle" => client'[c].named = dir.named,
             dir'.result = dir.result \/ dir'.result \in {"CANCELLED", "LOST"},
             Known /\ (dir'.result # dir.result \/ dir'.grace # dir.grace) => ~RunnerAlive,
             \/ dir'.grace = dir.grace
             \/ /\ dir'.grace = "begun"
                /\ \A d \in Client \ {c} : client[d].pc # "idle" => d \in since'
      PROVE  Good
  <2>1. RunnerAlive' = RunnerAlive
    BY <1>c DEF RunnerAlive
  <2>2. dir.exists /\ \A d \in Client : ~InSubmit(d)
    BY <1>c, <1>0, NoSubmission
  <2>3. \A d \in Client : ~InSubmit(d)'
    BY <1>c, <2>2 DEF InSubmit
  <2>4. ~Submitting'
    BY <2>3 DEF Submitting, InSubmit
  <2>5. Alone'
    BY <1>c, <2>2, <2>3, <2>4 DEF Alone, InSubmit
  <2>6. NameRead'
    BY <1>c, <1>0 DEF NameRead, Calling
  <2>7. Verdicts'
    BY <1>c, <1>0 DEF Verdicts
  <2>8. Over'
    BY <1>c, <1>0, <2>1 DEF Known, Blind, Over
  <2>9. Kept'
    BY <1>c, <1>0 DEF Known, Blind, Kept
  <2> QED BY <2>5, <2>6, <2>7, <2>8, <2>9
\* The runner goes on.
<1>d. ASSUME NEW c \in Client, UNCHANGED <<client, since>>,
             dir'.exists = dir.exists, dir'.named = dir.named, dir'.cancel = dir.cancel,
             dir'.grace = dir.grace, dir'.result = dir.result,
             \A d \in Client \ {c} : runner'[d] = runner[d],
             runner'[c].pc \in {"none", "gone"} \/ runner[c].pc \notin {"none", "gone"},
             runner'[c].pc = "writing" =>
                \/ runner'[c] = runner[c]
                \/ runner'[c].verdict \in {"SUCCEEDED", "FAILED"}
                \/ runner'[c].verdict = "CANCELLED" /\ dir.cancel
      PROVE  Good
  <2>1. RunnerAlive' => RunnerAlive
    BY <1>d, NoneRevived
  <2>2. Submitting' = Submitting
    BY <1>d DEF Submitting
  <2>3. Alone'
    BY <1>d, <1>0, <2>2 DEF Alone, InSubmit
  <2>4. NameRead'
    BY <1>d, <1>0 DEF NameRead, Calling
  <2>5. Verdicts'
    BY <1>d, <1>0 DEF Verdicts
  <2>6. Over'
    BY <1>d, <1>0, <2>1 DEF Known, Blind, Over
  <2>7. Kept'
    BY <1>d, <1>0 DEF Known, Blind, Kept
  <2> QED BY <2>3, <2>4, <2>5, <2>6, <2>7
\* The runner ends with a result.
<1>e. ASSUME NEW c \in Client, UNCHANGED <<client, since>>,
             dir'.exists = dir.exists, dir'.named = dir.named, dir'.cancel = dir.cancel,
             dir'.grace = dir.grace,
             \/ dir'.result \in {"SUCCEEDED", "FAILED"}
             \/ dir'.result = "CANCELLED" /\ dir.cancel,
             \A d \in Client \ {c} : runner'[d] = runner[d],
             runner[c].pc \notin {"none", "gone"}, runner'[c].pc = "gone"
      PROVE  Good
  <2>1. RunnerAlive /\ ~RunnerAlive'
    BY <1>e, LastRunner
  <2>2. Submitting' = Submitting
    BY <1>e DEF Submitting
  <2>3. dir.exists /\ \A d \in Client : client[d].pc # "popen"
    BY <1>e, <1>a DEF Owned, Owner, InSubmit, Phases
  <2>4. Alone'
    BY <1>e, <1>0, <2>2, <2>3 DEF Alone, InSubmit
  <2>5. NameRead'
    BY <1>e, <1>0 DEF NameRead, Calling
  <2>6. Verdicts'
    BY <1>e, <1>0 DEF Verdicts
  <2>7. Over'
    BY <2>1 DEF Known, Blind, Over
  <2>8. Kept'
    BY <1>e, <1>0, <2>1 DEF Kept, Known, Blind, Over
  <2> QED BY <2>4, <2>5, <2>6, <2>7, <2>8

<1>1. ASSUME NEW c \in Client,
             \E op \in {"submit", "status", "cancel"} : MayCall(c) /\ Inspect(c, op)
      PROVE  Good
  <2>1. /\ UNCHANGED <<dir, runner, since>> /\ dir.exists /\ ~Submitting
        /\ \A d \in Client \ {c} : client'[d] = client[d]
        /\ client'[c].pc = "result" /\ client'[c].named = dir.named
    BY <1>1, <1>a DEF Inspect, MayCall, At, Careful
  <2>2. RunnerAlive' = RunnerAlive
    BY <2>1 DEF RunnerAlive
  <2>3. \A d \in Client : ~InSubmit(d)'
    BY <2>1 DEF InSubmit, Submitting
  <2>4. ~Submitting'
    BY <2>3 DEF Submitting, InSubmit
  <2>5. Alone'
    BY <2>1, <2>3, <2>4 DEF Alone, InSubmit
  <2>6. NameRead' /\ Verdicts' /\ Over'
    BY <2>1, <2>2, <1>0 DEF NameRead, Calling, Verdicts, Known, Blind, Over
  <2>7. Kept'
    BY <2>1, <1>0 DEF Known, Blind, Kept
  <2> QED BY <2>5, <2>6, <2>7
<1>2. ASSUME NEW c \in Client, BeginSubmit(c), ~Inspect(c, "submit") PROVE Good
  <2>1. /\ ~dir.exists /\ ~dir.named /\ dir'.exists /\ dir'.named = dir.named
        /\ dir'.grace = dir.grace /\ dir'.cancel = dir.cancel /\ dir'.result = dir.result
        /\ UNCHANGED <<runner, command, since>>
        /\ \A d \in Client \ {c} : client'[d] = client[d]
        /\ client'[c].pc = "popen"
    BY <1>2, <1>a DEF BeginSubmit, Directory, Call, NamedLate
  <2>2. \A d \in Client : client[d].pc = "idle" /\ runner[d].pc = "none"
    BY <2>1, <1>a DEF Owned, Owner
  <2>3. Alone'
    BY <2>1, <2>2, <1>0 DEF Alone, InSubmit
  <2>4. NameRead' /\ Verdicts'
    BY <2>1, <2>2 DEF NameRead, Calling, Verdicts
  <2>5. ~RunnerAlive'
    BY <2>1, <2>2 DEF RunnerAlive
  <2>6. Over' /\ Kept'
    BY <2>1, <2>5 DEF Known, Blind, Over, Kept
  <2> QED BY <2>3, <2>4, <2>6
<1>3. ASSUME NEW c \in Client, ReadResult(c) PROVE Good
  <2>1. /\ client[c].pc = "result" /\ UNCHANGED <<dir, runner>>
        /\ \A d \in Client \ {c} : client'[d] = client[d] /\ (d \in since => d \in since')
        /\ \/ client'[c].pc = "idle"
           \/ client'[c].pc = "alive" /\ client'[c].named = client[c].named /\ dir.result = "NONE"
    BY <1>3, <1>a DEF ReadResult, At, Return, Step, Goto, Idle, Call
  <2> QED BY <2>1, <1>0, <1>b DEF Calling, NameRead
<1>4. ASSUME NEW c \in Client, TestRunner(c) PROVE Good
  <2>1. /\ client[c].pc = "alive" /\ UNCHANGED <<dir, runner>>
        /\ \A d \in Client \ {c} : client'[d] = client[d] /\ (d \in since => d \in since')
        /\ \/ client'[c].pc = "idle"
           \/ client'[c].pc = "touch" /\ client'[c].named = client[c].named
           \/ /\ client'[c].pc = "grace" /\ client'[c].named = client[c].named
              /\ since' = since /\ ~(client[c].named /\ ~Blind /\ RunnerAlive)
    <3>1. CASE Running(c)
      <4>1. Running(c) /\ At(c, "alive") /\ UNCHANGED <<dir, runner>>
        BY <3>1, <1>4 DEF TestRunner
      <4>2. CASE client[c].op = "cancel"
        BY <4>1, <4>2, <1>a DEF Running, At, Step, Goto, Call
      <4>3. CASE client[c].op # "cancel"
        BY <4>1, <4>3, <1>a DEF Running, At, Return, Idle
      <4> QED BY <4>2, <4>3
    <3>2. CASE ~Running(c)
      <4>1. /\ Step(c, "grace") /\ At(c, "alive") /\ UNCHANGED <<dir, runner>>
            /\ ~(client[c].named /\ ~Blind /\ RunnerAlive)
        BY <3>2, <1>4 DEF TestRunner
      <4> QED BY <4>1, <1>a DEF At, Step, Goto, Call
    <3> QED BY <3>1, <3>2
  <2> QED BY <2>1, <1>0, <1>b DEF Calling, NameRead, Known, Blind, Kept
<1>5. ASSUME NEW c \in Client, ReadGrace(c), dir.grace = "none" PROVE Good
  <2>1. /\ client[c].pc = "grace" /\ UNCHANGED runner
        /\ dir' = [dir EXCEPT !.grace = "begun"]
        /\ since' = Under \/ since' = Under \ {c}
        /\ \A d \in Client \ {c} : client'[d] = client[d]
        /\ \/ client'[c].pc = "idle"
           \/ client'[c].pc = "touch" /\ client'[c].named = client[c].named
    BY <1>5, <1>a DEF ReadGrace, At, Goto, Idle, Call
  <2>2. /\ dir'.exists = dir.exists /\ dir'.named = dir.named /\ dir'.cancel = dir.cancel
        /\ dir'.result = dir.result /\ dir'.grace = "begun"
    BY <2>1, <1>a DEF Directory
  <2>3. \A d \in Client \ {c} : client[d].pc # "idle" => d \in since'
    BY <2>1 DEF Under
  <2>4. Known => ~RunnerAlive
    BY <2>1, <1>0 DEF Known, Blind, Over
  <2>5. Calling(c)
    BY <2>1 DEF Calling
  <2>6. RunnerAlive' = RunnerAlive
    BY <2>1 DEF RunnerAlive
  <2>7. dir.exists /\ \A d \in Client : ~InSubmit(d)
    BY <2>5, <1>0, NoSubmission
  <2>8. \A d \in Client : ~InSubmit(d)'
    BY <2>1, <2>7 DEF InSubmit
  <2>9. ~Submitting'
    BY <2>8 DEF Submitting, InSubmit
  <2>10. Alone'
    BY <2>1, <2>2, <2>7, <2>8, <2>9 DEF Alone, InSubmit
  <2>11. NameRead' /\ Verdicts'
    BY <2>1, <2>2, <1>0 DEF NameRead, Calling, Verdicts
  <2>12. Over'
    BY <2>1, <2>2, <2>4, <2>6, <1>0 DEF Known, Blind, Over
  <2>13. Kept'
    BY <2>1, <2>2, <2>3, <1>0 DEF Known, Blind, Kept
  <2> QED BY <2>10, <2>11, <2>12, <2>13
<1>6. ASSUME NEW c \in Client, ReadGrace(c), dir.grace # "none" PROVE Good
  <2>1. /\ client[c].pc = "grace" /\ UNCHANGED <<dir, runner>>
        /\ \A d \in Client \ {c} : client'[d] = client[d] /\ (d \in since => d \in since')
        /\ \/ client'[c].pc = "idle"
           \/ client'[c].pc = "touch" /\ client'[c].named = client[c].named
           \/ client'[c].pc = "lost" /\ client'[c].named = client[c].named /\ dir.grace = "over"
    BY <1>6, <1>a DEF ReadGrace, At, Running, Return, Step, Goto, Idle, Call
  <2>2. Known /\ dir.result = "SUCCEEDED" => dir.grace # "over"
    BY <2>1, <1>0 DEF Known, Blind, Kept
  <2>3. Known => ~RunnerAlive
    BY <2>1, <1>0 DEF Known, Blind, Over
  <2> QED BY <2>1, <2>2, <2>3, <1>0, <1>b DEF Calling, NameRead
<1>7. ASSUME NEW c \in Client, WriteLost(c) \/ WriteCancelled(c) \/ Touch(c) PROVE Good
  <2>1. /\ Calling(c) /\ UNCHANGED runner
        /\ dir'.exists = dir.exists /\ dir'.named = dir.named /\ dir'.grace = dir.grace
        /\ dir.cancel => dir'.cancel
        /\ dir'.result = dir.result \/ dir'.result \in {"CANCELLED", "LOST"}
        /\ dir'.result # dir.result => client[c].pc \in {"lost", "cancelled"}
    BY <1>7, <1>a DEF WriteLost, WriteCancelled, Touch, At, Calling, Directory
  <2>2. /\ \A d \in Client \ {c} : client'[d] = client[d] /\ (d \in since => d \in since')
        /\ \/ client'[c].pc = "idle"
           \/ client'[c].pc = "read" /\ client'[c].named = client[c].named
    BY <1>7, <1>a DEF WriteLost, WriteCancelled, Touch, At, Return, Step, Goto, Idle, Call
  <2>3. Known /\ dir'.result # dir.result => ~RunnerAlive
    BY <2>1, <1>0 DEF Known, Blind, Over
  <2>4. client'[c].pc # "idle" => client'[c].named = dir.named
    BY <2>1, <2>2, <1>0 DEF NameRead
  <2>5. client'[c].pc \notin {"popen", "send", "name", "alive", "cancelled", "grace", "lost"}
    BY <2>2
  <2>6. Known /\ (dir'.result # dir.result \/ dir'.grace # dir.grace) => ~RunnerAlive
    BY <2>1, <2>3
  <2> QED BY <2>1, <2>2, <2>4, <2>5, <2>6, <1>c
<1>8. ASSUME NEW c \in Client, ReadPids(c) \/ KillCommand(c) PROVE Good
  <2>1. /\ Calling(c) /\ UNCHANGED <<dir, runner, since>>
        /\ \A d \in Client \ {c} : client'[d] = client[d]
        /\ client'[c].pc \in {"kill_command", "kill_runner"}
        /\ client'[c].named \in {client[c].named, dir.named}
    <3>1. CASE ReadPids(c)
      BY <3>1, <1>a DEF ReadPids, At, Calling, Call
    <3>2. CASE KillCommand(c)
      BY <3>2, <1>a DEF KillCommand, At, Calling, Step, Goto, Call
    <3> QED BY <1>8, <3>1, <3>2
  <2>2. client'[c].named = dir.named
    BY <2>1, <1>0 DEF NameRead
  <2> QED BY <2>1, <2>2, <1>b
<1>9. ASSUME NEW c \in Client, KillRunner(c) PROVE Good
  <2>1. /\ Calling(c) /\ UNCHANGED <<dir, since>>
        /\ \A d \in Client \ {c} : client'[d] = client[d]
        /\ client'[c].pc = "cancelled" /\ client'[c].named = client[c].named
    BY <1>9, <1>a DEF KillRunner, At, Calling, Step, Goto, Call
  <2>2. client[c].named = dir.named
    BY <2>1, <1>0 DEF NameRead
  <2>3. CASE UNCHANGED runner /\ ~Known
    BY <2>1, <2>2, <2>3, <1>b
  <2>4. CASE runner' = Stopped
    <3>1. \A d \in Client : runner'[d].pc \in {"none", "gone"}
      BY <2>4, <1>a DEF Stopped, Runner
    <3>2. ~RunnerAlive'
      BY <3>1 DEF RunnerAlive
    <3>3. \A d \in Client : ~InSubmit(d)
      BY <2>1, <1>0, NoSubmission
    <3>4. dir.exists /\ \A d \in Client : ~InSubmit(d)'
      BY <2>1, <3>3, <1>0, NoSubmission DEF InSubmit
    <3>5. ~Submitting'
      BY <3>4 DEF Submitting, InSubmit
    <3>6. Alone'
      BY <2>1, <3>4, <3>5 DEF Alone, InSubmit
    <3>7. NameRead' /\ Verdicts' /\ Over'
      BY <2>1, <2>2, <3>1, <3>2, <1>0 DEF NameRead, Calling, Verdicts, Known, Blind, Over
    <3>8. Kept'
      BY <2>1, <1>0 DEF Known, Blind, Kept
    <3> QED BY <3>6, <3>7, <3>8
  <2> QED BY <1>9, <2>2, <2>3, <2>4 DEF KillRunner, Known
<1>10. ASSUME NEW c \in Client, Popen(c) \/ Send(c) PROVE Good
  <2>1. /\ InSubmit(c) /\ UNCHANGED <<dir, since>>
        /\ client[c].pc = "send" \/ dir.result = "NONE"
        /\ \A d \in Client \ {c} : client'[d] = client[d] /\ runner'[d] = runner[d]
        /\ client'[c].pc \in {"send", "name"} /\ runner'[c].pc \in {"reading", "told"}
    BY <1>10, <1>a, <1>0 DEF Popen, Send, At, Step, Goto, InSubmit, Call, Runner, Alone
  <2>2. /\ Submitting /\ ~dir.named /\ dir.exists
        /\ \A d \in Client \ {c} : client[d].pc = "idle"
    BY <2>1, <1>0, <1>a DEF Submitting, InSubmit, NamedLate, Alone, Owned, Owner
  <2>3. Alone'
    BY <2>1, <2>2, <1>0 DEF Alone, InSubmit
  <2>4. NameRead' /\ Verdicts'
    BY <2>1, <2>2, <1>0 DEF NameRead, Calling, Verdicts
  <2>5. dir.result \notin {"SUCCEEDED", "FAILED"}
    <3>1. CASE client[c].pc = "send"
      <4>1. RunnerAlive
        BY <3>1, <1>a DEF Phases, RunnerAlive
      <4> QED BY <4>1, <1>0 DEF Known, Blind, Over
    <3> QED BY <2>1, <3>1
  <2>6. Over' /\ Kept'
    BY <2>1, <2>2, <2>5 DEF Known, Blind, Over, Kept
  <2> QED BY <2>3, <2>4, <2>6
<1>11. ASSUME NEW c \in Client, Name(c) PROVE Good
  <2>1. /\ InSubmit(c) /\ UNCHANGED runner
        /\ dir'.exists = dir.exists /\ dir'.grace = dir.grace /\ dir'.cancel = dir.cancel
        /\ dir'.result = dir.result
        /\ \A d \in Client \ {c} : client'[d] = client[d]
        /\ client'[c].pc = "idle"
    BY <1>11, <1>a DEF Name, At, Return, InSubmit, Idle, Directory
  <2>2. /\ Submitting /\ dir.exists
        /\ \A d \in Client \ {c} : client[d].pc = "idle"
    BY <2>1, <1>0, <1>a DEF Submitting, InSubmit, Alone, Owned, Owner
  <2>3. dir.grace = "none" /\ ~dir.cancel /\ dir.result \notin {"CANCELLED", "LOST"}
    BY <2>2, <1>0 DEF Alone
  <2>4. \A d \in Client : client'[d].pc = "idle"
    BY <2>1, <2>2
  <2>5. RunnerAlive' = RunnerAlive
    BY <2>1 DEF RunnerAlive
  <2>6. dir.result \in Outcome
    BY <1>a DEF Directory
  <2>7. Alone'
    BY <2>1, <2>2, <2>3, <2>4 DEF Alone, InSubmit
  <2>8. NameRead' /\ Verdicts'
    BY <2>1, <2>4, <1>0 DEF NameRead, Calling, Verdicts
  <2>9. Over'
    BY <2>1, <2>3, <2>4, <2>5, <2>6, <1>0 DEF Known, Blind, Over, Outcome
  <2>10. Kept'
    BY <2>4 DEF Known, Blind, Kept
  <2> QED BY <2>7, <2>8, <2>9, <2>10
<1>12. ASSUME NEW c \in Client,
              SpawnCommand(c) \/ Publish(c) \/ CommandEnds(c) \/ Judge(c) \/ Break(c)
       PROVE  Good
  <2>1. /\ UNCHANGED <<client, since>>
        /\ dir'.exists = dir.exists /\ dir'.named = dir.named /\ dir'.cancel = dir.cancel
        /\ dir'.grace = dir.grace /\ dir'.result = dir.result
    BY <1>12, <1>a DEF SpawnCommand, Publish, CommandEnds, Judge, Break, Directory
  <2>2. \A d \in Client \ {c} : runner'[d] = runner[d]
    BY <1>12, <1>a DEF SpawnCommand, Publish, CommandEnds, Judge, Break, RunnerGoes
  <2>3. runner'[c].pc \in {"none", "gone"} \/ runner[c].pc \notin {"none", "gone"}
    BY <1>12, <1>a DEF SpawnCommand, Publish, CommandEnds, Judge, Break, RunnerGoes
  <2>4. runner'[c].pc = "writing" =>
                \/ runner'[c] = runner[c]
                \/ runner'[c].verdict \in {"SUCCEEDED", "FAILED"}
                \/ runner'[c].verdict = "CANCELLED" /\ dir.cancel
    <3>1. CASE Judge(c)
      BY <3>1, <1>a DEF Judge
    <3>2. CASE CommandEnds(c)
      BY <3>2 DEF CommandEnds
    <3>3. CASE SpawnCommand(c) \/ Publish(c) \/ Break(c)
      <4>1. runner'[c].pc \in {"spawned", "watching", "failing"}
        BY <3>3, <1>a DEF SpawnCommand, Publish, Break, RunnerGoes, Runner
      <4> QED BY <4>1
    <3> QED BY <1>12, <3>1, <3>2, <3>3
  <2> QED BY <2>1, <2>2, <2>3, <2>4, <1>d
<1>13. ASSUME NEW c \in Client, WriteResult(c) \/ WriteError(c) PROVE Good
  <2>1. /\ UNCHANGED <<client, since>>
        /\ dir'.exists = dir.exists /\ dir'.named = dir.named /\ dir'.cancel = dir.cancel
        /\ dir'.grace = dir.grace
    BY <1>13, <1>a DEF WriteResult, WriteError, Directory
  <2>2. /\ \A d \in Client \ {c} : runner'[d] = runner[d]
        /\ runner[c].pc \notin {"none", "gone"} /\ runner'[c].pc = "gone"
    BY <1>13, <1>a DEF WriteResult, WriteError, RunnerGoes, Runner
  <2>3. \/ dir'.result \in {"SUCCEEDED", "FAILED"}
        \/ dir'.result = "CANCELLED" /\ dir.cancel
    BY <1>13, <1>a, <1>0 DEF WriteResult, WriteError, RunnerGoes, Directory, Verdicts
  <2> QED BY <2>1, <2>2, <2>3, <1>e
<1>14. ASSUME NEW c \in Client, SendFails(c) \/ Crash(c) PROVE Good
  <2>1. /\ UNCHANGED dir /\ client'[c].pc = "idle"
        /\ \A d \in Client \ {c} :
              client'[d] = client[d] /\ runner'[d] = runner[d] /\ (d \in since => d \in since')
        /\ \/ runner'[c] = runner[c]
           \/ client[c].pc = "send" /\ runner'[c].pc \in {"gone", "failing"}
    BY <1>14, <1>a DEF SendFails, Crash, At, Return, Idle, Runner
  <2>2. \A d \in Client : runner'[d].pc \in {"none", "gone"} \/ runner[d].pc \notin {"none", "gone"}
    BY <2>1, <1>a DEF Phases
  <2>3. RunnerAlive' => RunnerAlive
    BY <2>2, NoneRevived
  <2>4. Submitting' => Submitting
    BY <2>1 DEF Submitting
  <2>5. Alone'
    BY <2>1, <2>4, <1>0 DEF Alone, InSubmit
  <2>6. NameRead' /\ Verdicts'
    BY <2>1, <1>0 DEF NameRead, Calling, Verdicts
  <2>7. Over' /\ Kept'
    BY <2>1, <2>3, <1>0 DEF Known, Blind, Over, Kept
  <2> QED BY <2>5, <2>6, <2>7
<1>15. ASSUME Reboot PROVE Good
  <2>1. /\ \A d \in Client : client'[d].pc = "idle" /\ runner'[d].pc \in {"none", "gone"}
        /\ UNCHANGED dir
    BY <1>15, <1>a DEF Reboot, Idle, Stopped, Runner
  <2>2. ~RunnerAlive' /\ ~Submitting'
    BY <2>1 DEF RunnerAlive, Submitting
  <2> QED BY <2>1, <2>2, <1>0 DEF Alone, InSubmit, NameRead, Calling, Verdicts, Known, Blind, Over, Kept
<1>16. ASSUME GraceEnds PROVE Good
  <2>1. /\ UNCHANGED <<runner, client, since>> /\ since = {}
        /\ dir'.exists = dir.exists /\ dir'.named = dir.named /\ dir'.cancel = dir.cancel
        /\ dir'.result = dir.result /\ dir.grace = "begun" /\ dir'.grace = "over"
    BY <1>16, <1>a DEF GraceEnds, Careful, Directory
  <2>2. RunnerAlive' = RunnerAlive /\ Submitting' = Submitting
    BY <2>1 DEF RunnerAlive, Submitting
  <2>3. Alone'
    BY <2>1, <2>2, <1>0 DEF Alone, InSubmit
  <2>4. NameRead' /\ Verdicts' /\ Over'
    BY <2>1, <2>2, <1>0 DEF NameRead, Calling, Verdicts, Known, Blind, Over
  <2>5. Kept'
    BY <2>1, <1>0 DEF Known, Blind, Kept
  <2> QED BY <2>3, <2>4, <2>5
<1>17. ASSUME UNCHANGED vars PROVE Good
  BY <1>17, <1>0 DEF vars, Alone, InSubmit, Submitting, NameRead, Calling, Verdicts, Known, Blind, Over, Kept,
                     RunnerAlive
<1>18. Good
  <2> QED
    BY <1>1, <1>2, <1>3, <1>4, <1>5, <1>6, <1>7, <1>8, <1>9, <1>10, <1>11, <1>12, <1>13, <1>14,
       <1>15, <1>16, <1>17
    DEF Next, Begin, BeginSubmit, BeginStatus, BeginCancel, CallStep, RunnerStep, FaultStep
<1> QED BY <1>18 DEF Calls

LEMMA CallsAlways == ASSUME Careful PROVE Spec => [](Base /\ Calls)
<1>1. Base /\ Calls /\ [Next]_vars => (Base /\ Calls)'
  BY BaseStep, CallsStep
<1> QED BY <1>1, BaseInit, CallsInit, PTL DEF Spec

-----------------------------------------------------------------------------
(* What a step is to the abstract adapter                                    *)

Told == IF dir.result = "LOST" THEN "FAILED" ELSE dir.result

\* The execution that the files and the processes stand for.
LEMMA ExtIs ==
    ASSUME Base
    PROVE  ext = IF dir.exists
                 THEN [key \in {"key"} |->
                         [alive |-> RunnerAlive, known |-> Known, result |-> Told]]
                 ELSE [key \in {} |-> {}]
<1>1. (RunnerAlive \/ command # {}) = RunnerAlive
  BY DEF Base, Phases, RunnerAlive
<1> QED BY <1>1 DEF ext, Told, Known

LEMMA ExtIsNext ==
    ASSUME Base'
    PROVE  ext' = IF dir'.exists
                  THEN [key \in {"key"} |->
                          [alive |-> RunnerAlive', known |-> Known', result |-> Told']]
                  ELSE [key \in {} |-> {}]
<1>1. (RunnerAlive \/ command # {})' = RunnerAlive'
  BY DEF Base, Phases, RunnerAlive
<1> QED BY <1>1 DEF ext, Told, Known

One(a, k, r) == [key \in {"key"} |-> [alive |-> a, known |-> k, result |-> r]]

\* A directory that exists stands for one execution.
LEMMA ExtMoves ==
    ASSUME Base, Base', dir.exists, dir'.exists
    PROVE  ext = One(RunnerAlive, Known, Told) /\ ext' = One(RunnerAlive', Known', Told')
BY ExtIs, ExtIsNext DEF One

LEMMA Truths ==
    ASSUME Base, Base'
    PROVE  /\ RunnerAlive \in BOOLEAN /\ RunnerAlive' \in BOOLEAN
           /\ Known \in BOOLEAN /\ Known' \in BOOLEAN
           /\ Told \in {"NONE", "SUCCEEDED", "FAILED", "CANCELLED"}
           /\ Told' \in {"NONE", "SUCCEEDED", "FAILED", "CANCELLED"}
BY DEF Base, Types, Directory, Outcome, Told, RunnerAlive, Known

\* The processes of an execution end, or nothing that the adapter shows changes.
LEMMA Quiet ==
    ASSUME Base, Base', dir'.exists = dir.exists, Known' = Known, Told' = Told,
           RunnerAlive' => RunnerAlive
    PROVE  [Contract!Next]_ext
<1>0. /\ RunnerAlive \in BOOLEAN /\ RunnerAlive' \in BOOLEAN /\ dir'.exists = dir.exists
  BY Truths
<1>1. CASE ~dir.exists \/ RunnerAlive' = RunnerAlive
  BY <1>0, <1>1, ExtIs, ExtIsNext
<1>2. CASE dir.exists /\ RunnerAlive' # RunnerAlive
  <2>1. Contract!Vanish("key")
    BY <1>0, <1>2, ExtMoves DEF One, Contract!Vanish, Contract!Alive, Contract!Exists
  <2> QED BY <2>1 DEF Contract!Next, Contract!Step
<1> QED BY <1>1, <1>2

LEMMA Changes ==
    ASSUME Base, Base', dir.exists, dir'.exists, Told' = Told,
           \/ RunnerAlive' /\ Known' = Known
           \/ RunnerAlive' = RunnerAlive
    PROVE  [Contract!Next]_ext
<1>1. CASE RunnerAlive' /\ Known' = Known
  <2>1. Contract!Spawn("key")
    BY <1>1, ExtMoves, Truths DEF One, Contract!Spawn, Contract!Exists
  <2> QED BY <2>1 DEF Contract!Next, Contract!Step
<1>2. CASE RunnerAlive' = RunnerAlive /\ Known'
  <2>1. Contract!Register("key")
    BY <1>2, ExtMoves, Truths DEF One, Contract!Register, Contract!Exists
  <2> QED BY <2>1 DEF Contract!Next, Contract!Step
<1>3. CASE RunnerAlive' = RunnerAlive /\ ~Known' /\ Known
  <2>1. Contract!Forget("key")
    BY <1>3, ExtMoves, Truths DEF One, Contract!Forget, Contract!Exists
  <2> QED BY <2>1 DEF Contract!Next, Contract!Step
<1>4. CASE RunnerAlive' = RunnerAlive /\ Known' = Known
  BY <1>4, ExtMoves
<1> QED BY <1>1, <1>2, <1>3, <1>4, Truths

\* A result is written where there is none.
LEMMA FirstResult ==
    ASSUME NEW a \in BOOLEAN, NEW b \in BOOLEAN, NEW k \in BOOLEAN, NEW s,
           ext = One(a, k, "NONE"), ext' = One(b, k, s),
           \/ a /\ ~b /\ s \in {"SUCCEEDED", "FAILED"}
           \/ s = "CANCELLED" /\ (b => a /\ ~k)
           \/ s = "FAILED" /\ b = a /\ ~(a /\ k)
    PROVE  [Contract!Next]_ext
<1>0. /\ DOMAIN ext = {"key"} /\ ext["key"].alive = a
      /\ ext["key"].known = k /\ ext["key"].result = "NONE"
  BY DEF One
<1>1. ext' = [ext EXCEPT !["key"].alive = b, !["key"].result = s]
  <2> DEFINE g == [ext EXCEPT !["key"].alive = b, !["key"].result = s]
  <2>1. DOMAIN g = {"key"} /\ g["key"] \in [alive : {b}, known : {k}, result : {s}]
    BY DEF One
  <2>2. g = [key \in {"key"} |-> g["key"]]
    BY <2>1 DEF One
  <2>3. g["key"] = [alive |-> b, known |-> k, result |-> s]
    BY <2>1
  <2> QED BY <2>2, <2>3 DEF One
<1>2. CASE a /\ ~b /\ s \in {"SUCCEEDED", "FAILED"}
  <2>1. ext' = [ext EXCEPT !["key"].alive = FALSE, !["key"].result = s]
    BY <1>1, <1>2
  <2>2. Contract!Finish("key")
    BY <1>0, <1>2, <2>1 DEF Contract!Finish, Contract!Alive, Contract!Exists
  <2> QED BY <2>2 DEF Contract!Next, Contract!Step
<1>3. CASE s = "CANCELLED" /\ (b => a /\ ~k)
  <2>1. b \in {FALSE, ext["key"].alive /\ ~ext["key"].known}
    BY <1>0, <1>3
  <2>2. ext' = [ext EXCEPT !["key"].alive = b, !["key"].result = "CANCELLED"]
    BY <1>1, <1>3
  <2>3. Contract!Cancel("key")
    BY <1>0, <2>1, <2>2 DEF Contract!Cancel, Contract!Exists
  <2> QED BY <2>3 DEF Contract!Next, Contract!Step
<1>4. CASE s = "FAILED" /\ b = a /\ ~(a /\ k)
  <2>1. ext' = [ext EXCEPT !["key"].result = "FAILED"]
    BY <1>4 DEF One
  <2>2. Contract!Status("key", "FAILED")
    BY <1>0, <1>4, <2>1 DEF Contract!Status, Contract!Unaccounted, Contract!Exists
  <2> QED BY <2>2 DEF Contract!Next, Contract!Step, Contract!Answer, Contract!Result
<1> QED BY <1>2, <1>3, <1>4

\* A result is written over another.
LEMMA NextResult ==
    ASSUME NEW a \in BOOLEAN, NEW b \in BOOLEAN, NEW k \in BOOLEAN, NEW r,
           NEW s \in Contract!Result, ext = One(a, k, r), ext' = One(b, k, s),
           r # "NONE", s # "NONE", b => a,
           \/ s = "CANCELLED" /\ ~(b /\ k)
           \/ s = "FAILED" /\ r = "CANCELLED" /\ ~b
           \/ ~k
    PROVE  [Contract!Next]_ext
<1>0. /\ DOMAIN ext = {"key"} /\ ext["key"].alive = a
      /\ ext["key"].known = k /\ ext["key"].result = r
  BY DEF One
<1>1. ext' = [ext EXCEPT !["key"].result = s, !["key"].alive = b]
  <2> DEFINE g == [ext EXCEPT !["key"].result = s, !["key"].alive = b]
  <2>1. DOMAIN g = {"key"} /\ g["key"] \in [alive : {b}, known : {k}, result : {s}]
    BY DEF One
  <2>2. g = [key \in {"key"} |-> g["key"]]
    BY <2>1 DEF One
  <2>3. g["key"] = [alive |-> b, known |-> k, result |-> s]
    BY <2>1
  <2> QED BY <2>2, <2>3 DEF One
<1>2. Contract!Overtaken("key")
  BY <1>0, <1>1 DEF Contract!Overtaken, Contract!Exists
<1> QED BY <1>2 DEF Contract!Next, Contract!Step

\* Every access to a file, every step of a process and every fault is a step of
\* the adapter, or none.
LEMMA StepRefined == ASSUME Careful, Base, Base', Calls, [Next]_vars PROVE [Contract!Next]_ext
<1>p. CASE PsutilFails
  <2>1. UNCHANGED <<dir, runner, command>>
    BY <1>p DEF PsutilFails
  <2>2. RunnerAlive' = RunnerAlive /\ Told' = Told
    BY <2>1 DEF RunnerAlive, Told
  <2>3. CASE dir.exists
    BY <2>1, <2>2, <2>3, Changes
  <2>4. CASE ~dir.exists
    BY <2>1, <2>4, ExtIs, ExtIsNext
  <2> QED BY <2>3, <2>4
<1> SUFFICES ASSUME ~PsutilFails PROVE [Contract!Next]_ext
  BY <1>p
<1>0. Alone /\ NameRead /\ Verdicts /\ Over /\ Kept
  BY DEF Calls
<1>k. dir'.named = dir.named => Known' = Known
  BY PsutilStays DEF Known, Blind
<1>a. /\ client \in [Client -> Call] /\ runner \in [Client -> Runner] /\ dir \in Directory
      /\ Owned /\ Phases /\ NamedLate
  BY DEF Base, Types
<1>b. \A c \in Client : client[c].pc # "idle" \/ runner[c].pc # "none" => dir.exists
  BY <1>a DEF Owned, Owner
<1> DEFINE Good == [Contract!Next]_ext
<1>q. ASSUME dir'.exists = dir.exists, dir'.named = dir.named, dir'.result = dir.result,
             \A d \in Client :
                runner'[d].pc \in {"none", "gone"} \/ runner[d].pc \notin {"none", "gone"}
      PROVE  Good
  <2>1. Told' = Told
    BY <1>q DEF Told
  <2>2. RunnerAlive' => RunnerAlive
    BY <1>q, NoneRevived
  <2> QED BY <1>q, <1>k, <2>1, <2>2, Quiet
\* A result is written while the runners live on: by a call.
<1>w. ASSUME NEW c \in Client, Calling(c), UNCHANGED runner,
             dir'.exists = dir.exists, dir'.named = dir.named,
             \/ dir'.result = "LOST" /\ client[c].pc = "lost"
             \/ dir'.result = "CANCELLED" /\ client[c].pc = "cancelled"
      PROVE  Good
  <2>1. dir.exists /\ dir'.exists /\ RunnerAlive' = RunnerAlive
    BY <1>w, <1>b DEF Calling, RunnerAlive
  <2>2. ext = One(RunnerAlive, Known, Told) /\ ext' = One(RunnerAlive, Known, Told')
    BY <1>w, <1>k, <2>1, ExtMoves
  <2>3. RunnerAlive \in BOOLEAN /\ Known \in BOOLEAN /\ Told' \in Contract!Result
    BY Truths DEF Contract!Result
  <2>4. Known => ~RunnerAlive
    BY <1>w, <1>0 DEF Over
  <2>5. Told' = IF dir'.result = "LOST" THEN "FAILED" ELSE "CANCELLED"
    BY <1>w DEF Told
  <2>6. CASE Told = "NONE"
    BY <2>2, <2>3, <2>4, <2>5, <2>6, FirstResult
  <2>7. CASE Told # "NONE" /\ (Told' = "CANCELLED" \/ ~Known)
    BY <2>2, <2>3, <2>4, <2>5, <2>7, NextResult
  <2>8. CASE Told # "NONE" /\ Told' = "FAILED" /\ Known
    <3>1. Told # "SUCCEEDED"
      BY <1>w, <1>0, <2>5, <2>8 DEF Kept, Told
    <3>2. CASE Told = "CANCELLED"
      BY <2>2, <2>3, <2>4, <2>8, <3>2, NextResult
    <3>3. CASE Told = "FAILED"
      BY <2>2, <2>8, <3>3
    <3> QED BY <2>8, <3>1, <3>2, <3>3, Truths
  <2> QED BY <2>5, <2>6, <2>7, <2>8
\* The runner writes its result and goes.
<1>r. ASSUME NEW c \in Client, runner[c].pc \notin {"none", "gone"}, runner'[c].pc = "gone",
             \A d \in Client \ {c} : runner'[d] = runner[d],
             dir'.exists = dir.exists, dir'.named = dir.named,
             dir'.result \in {"SUCCEEDED", "FAILED", "CANCELLED"}
      PROVE  Good
  <2>1. dir.exists /\ dir'.exists /\ RunnerAlive /\ ~RunnerAlive'
    BY <1>r, <1>b, LastRunner
  <2>2. RunnerAlive' = FALSE /\ RunnerAlive = TRUE
    BY <2>1, Truths
  <2>3. ext = One(TRUE, Known, Told) /\ ext' = One(FALSE, Known, Told')
    BY <1>r, <1>k, <2>1, <2>2, ExtMoves
  <2>4. Known \in BOOLEAN /\ Told' \in Contract!Result
    BY Truths DEF Contract!Result
  <2>5. Told' \in {"SUCCEEDED", "FAILED", "CANCELLED"}
    BY <1>r DEF Told
  <2>6. CASE Told = "NONE"
    BY <2>3, <2>4, <2>5, <2>6, FirstResult
  <2>7. CASE Told # "NONE"
    <3>1. ~Known
      BY <2>1, <2>7, <1>0 DEF Over, Told
    <3> QED BY <2>3, <2>4, <2>5, <2>7, <3>1, NextResult
  <2> QED BY <2>6, <2>7

<1>1. ASSUME NEW c \in Client, NEW op \in {"submit", "status", "cancel"}, Inspect(c, op) PROVE Good
  BY <1>1, <1>a, <1>q DEF Inspect, Runner
<1>2. ASSUME NEW c \in Client, BeginSubmit(c), ~Inspect(c, "submit") PROVE Good
  <2>1. /\ ~dir.exists /\ dir'.exists /\ dir'.named = dir.named /\ dir'.result = dir.result
        /\ UNCHANGED runner
    BY <1>2, <1>a DEF BeginSubmit, Directory
  <2>2. ~dir.named /\ dir.result = "NONE" /\ \A d \in Client : runner[d].pc = "none"
    BY <2>1, <1>0, <1>a DEF Alone, NamedLate, Owned, Owner
  <2>3. ~RunnerAlive' /\ ~Known' /\ Told' = "NONE"
    BY <2>1, <2>2 DEF RunnerAlive, Told, Known
  <2>4. RunnerAlive' = FALSE /\ Known' = FALSE
    BY <2>3, Truths
  <2>5. ext = [key \in {} |-> {}]
    BY <2>1, ExtIs
  <2>6. ext' = [key \in {"key"} |-> [alive |-> FALSE, known |-> FALSE, result |-> "NONE"]]
    BY <2>1, <2>3, <2>4, ExtIsNext
  <2>7. Contract!Create("key", FALSE, FALSE, "NONE")
    BY <2>5, <2>6 DEF Contract!Create, Contract!Exists
  <2> QED BY <2>7 DEF Contract!Next, Contract!Step
<1>3. ASSUME NEW c \in Client, ReadResult(c) \/ TestRunner(c) \/ ReadPids(c) \/ KillCommand(c)
      PROVE  Good
  <2>1. UNCHANGED <<dir, runner>>
    BY <1>3 DEF ReadResult, TestRunner, ReadPids, KillCommand
  <2> QED BY <2>1, <1>a, <1>q DEF Runner
<1>4. ASSUME NEW c \in Client, ReadGrace(c) \/ Touch(c) \/ GraceEnds PROVE Good
  <2>1. /\ UNCHANGED runner /\ dir'.exists = dir.exists /\ dir'.named = dir.named
        /\ dir'.result = dir.result
    BY <1>4, <1>a DEF ReadGrace, Touch, GraceEnds, Directory
  <2> QED BY <2>1, <1>a, <1>q DEF Runner
<1>5. ASSUME NEW c \in Client, WriteLost(c) \/ WriteCancelled(c) PROVE Good
  <2>1. /\ Calling(c) /\ UNCHANGED runner
        /\ dir'.exists = dir.exists /\ dir'.named = dir.named
        /\ \/ dir'.result = "LOST" /\ client[c].pc = "lost"
           \/ dir'.result = "CANCELLED" /\ client[c].pc = "cancelled"
    BY <1>5, <1>a DEF WriteLost, WriteCancelled, At, Calling, Directory
  <2> QED BY <2>1, <1>w
<1>6. ASSUME NEW c \in Client, KillRunner(c) PROVE Good
  <2>1. /\ UNCHANGED dir
        /\ \A d \in Client : runner'[d].pc \in {"none", "gone"} \/ runner'[d] = runner[d]
    BY <1>6, <1>a DEF KillRunner, Stopped, Runner
  <2> QED BY <2>1, <1>q
<1>7. ASSUME NEW c \in Client, Popen(c) PROVE Good
  <2>1. dir.exists /\ dir'.exists /\ dir'.named = dir.named /\ Told' = Told
    BY <1>7, <1>b DEF Popen, At, Told
  <2>2. RunnerAlive'
    BY <1>7, <1>a DEF Popen, RunnerAlive
  <2> QED BY <2>1, <2>2, <1>k, Changes
<1>8. ASSUME NEW c \in Client, Send(c) \/ SendFails(c) PROVE Good
  <2>1. /\ UNCHANGED dir /\ runner[c].pc = "reading"
        /\ \A d \in Client \ {c} : runner'[d] = runner[d]
    BY <1>8, <1>a DEF Send, SendFails, At, Phases
  <2> QED BY <2>1, <1>q
<1>9. ASSUME NEW c \in Client, Name(c) PROVE Good
  <2>1. /\ UNCHANGED runner /\ dir'.exists = dir.exists /\ dir'.result = dir.result
        /\ dir.exists /\ ~dir.named /\ dir'.named \in BOOLEAN
    BY <1>9, <1>a, <1>b DEF Name, At, Directory, NamedLate, Submitting, Identified
  <2>2. RunnerAlive' = RunnerAlive /\ Told' = Told
    BY <2>1 DEF RunnerAlive, Told
  <2> QED BY <2>1, <2>2, Changes
<1>10. ASSUME NEW c \in Client,
              SpawnCommand(c) \/ Publish(c) \/ CommandEnds(c) \/ Judge(c) \/ Break(c)
       PROVE  Good
  <2>1. dir'.exists = dir.exists /\ dir'.named = dir.named /\ dir'.result = dir.result
    BY <1>10, <1>a DEF SpawnCommand, Publish, CommandEnds, Judge, Break, Directory
  <2>2. /\ \A d \in Client \ {c} : runner'[d] = runner[d]
        /\ runner'[c] = runner[c] \/ runner[c].pc \notin {"none", "gone"}
    BY <1>10, <1>a DEF SpawnCommand, Publish, CommandEnds, Judge, Break, RunnerGoes
  <2> QED BY <2>1, <2>2, <1>q
<1>11. ASSUME NEW c \in Client, WriteResult(c) \/ WriteError(c) PROVE Good
  <2>1. /\ runner[c].pc \notin {"none", "gone"} /\ runner'[c].pc = "gone"
        /\ \A d \in Client \ {c} : runner'[d] = runner[d]
        /\ dir'.exists = dir.exists /\ dir'.named = dir.named
    BY <1>11, <1>a DEF WriteResult, WriteError, RunnerGoes, Runner, Directory
  <2>2. dir'.result \in {"SUCCEEDED", "FAILED", "CANCELLED"}
    BY <1>11, <1>a, <1>0 DEF WriteResult, WriteError, RunnerGoes, Directory, Verdicts
  <2> QED BY <2>1, <2>2, <1>r
<1>12. ASSUME NEW c \in Client, Crash(c) PROVE Good
  <2>1. /\ UNCHANGED dir
        /\ \A d \in Client : runner'[d] = runner[d] \/ runner[d].pc = "reading"
    BY <1>12, <1>a DEF Crash, At, Phases
  <2> QED BY <2>1, <1>q
<1>13. ASSUME Reboot PROVE Good
  <2>1. UNCHANGED dir /\ \A d \in Client : runner'[d].pc \in {"none", "gone"}
    BY <1>13, <1>a DEF Reboot, Stopped, Runner
  <2> QED BY <2>1, <1>q
<1>14. ASSUME GraceEnds \/ UNCHANGED vars PROVE Good
  <2>1. /\ UNCHANGED runner /\ dir'.exists = dir.exists /\ dir'.named = dir.named
        /\ dir'.result = dir.result
    BY <1>14, <1>a DEF GraceEnds, vars, Directory
  <2> QED BY <2>1, <1>a, <1>q DEF Runner
<1>15. ASSUME NEW c \in Client, Begin(c) PROVE Good
  BY <1>15, <1>1, <1>2 DEF Begin, BeginSubmit, BeginStatus, BeginCancel
<1>16. ASSUME NEW c \in Client, CallStep(c) PROVE Good
  BY <1>16, <1>3, <1>4, <1>5, <1>6, <1>7, <1>8, <1>9 DEF CallStep
<1>17. ASSUME NEW c \in Client, RunnerStep(c) \/ FaultStep(c) PROVE Good
  BY <1>17, <1>8, <1>10, <1>11, <1>12 DEF RunnerStep, FaultStep
<1> QED BY <1>13, <1>14, <1>15, <1>16, <1>17 DEF Next

\* Unless a call overlaps a submission or lasts longer than the grace period, the
\* calls of any number of processes, the runner and any faults are operations of
\* the adapter that the orchestrator is modelled with, one at a time.  psutil may
\* begin to fail at any step: the contract then no longer knows the runner, and a
\* job that runs may be declared lost, or recorded as cancelled and run on.
THEOREM Refinement == ASSUME Careful PROVE Spec => ImplementsAdapter
<1>1. Init => Contract!Init
  BY BaseInit, ExtIs DEF Init, Contract!Init
<1>2. Base /\ Calls /\ Base' /\ [Next]_vars => [Contract!Next]_ext
  BY StepRefined
<1> QED BY <1>1, <1>2, CallsAlways, PTL DEF Spec, ImplementsAdapter, Contract!Spec
=================================================================================
