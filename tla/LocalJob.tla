--------------------------------- MODULE LocalJob ---------------------------------
(***************************************************************************)
(* One dispatch key of sentinel/adapters/persistent_local.py: the job      *)
(* directory, the processes that call the adapter about it, and the        *)
(* detached runner (local_runner.py) with its command.  They share nothing *)
(* but files, and every access to a file is a step.                        *)
(***************************************************************************)
EXTENDS Naturals, FiniteSets

CONSTANTS
    Client,        \* processes that call the adapter
    Faults,        \* "crash": a client dies; "reboot": all processes do;
                   \* "error": a runner fails; "nometer": psutil is missing
                   \* or fails, on all calls or on some;
                   \* "early": calls while another client is inside submit;
                   \* "stall": a call may last longer than the grace period
    MaxFaults

ASSUME LocalJobAssumption == MaxFaults \in Nat

VARIABLES
    dir,           \* the job directory
    runner,        \* the runner that a client has spawned
    command,       \* the runners whose command is running
    client,        \* where each client is in its call
    since,         \* calls that were under way when the grace period began
    faults,
    psutil         \* "works", or has begun to fail: "fails"

vars == <<dir, runner, command, client, since, faults, psutil>>

Outcome == {"NONE", "SUCCEEDED", "FAILED", "CANCELLED", "LOST"}

\* named: meta.json identifies the runner (runner_started > 0); runtime:
\* runtime.json identifies the command (child_started > 0); grace: missing-result.json, "over" after two seconds;
\* cancel: cancel.requested; result: what result.json says.
Directory ==
    [exists : BOOLEAN, named : BOOLEAN, runtime : BOOLEAN,
     grace : {"none", "begun", "over"}, cancel : BOOLEAN, result : Outcome]

\* told: the request has come through the pipe.
Runner ==
    [pc : {"none", "reading", "told", "spawned", "watching", "writing", "failing", "gone"},
     verdict : Outcome]

\* op: the call.  named, runtime: what the call has read of the files.
Call ==
    [pc : {"idle", "popen", "send", "name", "result", "alive", "grace", "lost",
           "touch", "read", "kill_command", "kill_runner", "cancelled"},
     op : {"submit", "status", "cancel"}, named : BOOLEAN, runtime : BOOLEAN]

Idle == [pc |-> "idle", op |-> "status", named |-> FALSE, runtime |-> FALSE]

At(c, pc) == client[c].pc = pc

Goto(c, pc) == client' = [client EXCEPT ![c].pc = pc]

Submitting == \E c \in Client : client[c].pc \in {"popen", "send", "name"}

RunnerAlive == \E c \in Client : runner[c].pc \notin {"none", "gone"}

Stopped ==
    [c \in Client |->
        IF runner[c].pc = "none" THEN runner[c] ELSE [runner[c] EXCEPT !.pc = "gone"]]

\* Calls under way.
Under == {c \in Client : client[c].pc # "idle"}

\* The call returns.
Return(c) ==
    /\ client' = [client EXCEPT ![c] = Idle]
    /\ since' = since \ {c}

Step(c, pc) == Goto(c, pc) /\ UNCHANGED since

Fault(f) ==
    /\ f \in Faults /\ faults < MaxFaults
    /\ faults' = faults + 1
    /\ UNCHANGED psutil

\* Without psutil no process can be identified: process_started_at returns 0, and
\* pid_alive is False for one that was identified when it was started.
Blind == psutil = "fails"

Identified == {b \in BOOLEAN : b \/ Blind}

-----------------------------------------------------------------------------
(***************************************************************************)
(* status(), by itself or inside submit() and cancel().                    *)
(***************************************************************************)
\* meta.json is read first.
Inspect(c, op) ==
    /\ dir.exists
    /\ client' = [client EXCEPT ![c] =
          [pc |-> "result", op |-> op, named |-> dir.named, runtime |-> FALSE]]
    /\ UNCHANGED <<dir, runner, command, since, faults, psutil>>

MayCall(c) == At(c, "idle") /\ (Submitting => "early" \in Faults)

BeginStatus(c) == MayCall(c) /\ Inspect(c, "status")

BeginCancel(c) == MayCall(c) /\ Inspect(c, "cancel")

\* The job has no result yet: status and submit return, cancel goes on.
Running(c) == IF client[c].op = "cancel" THEN Step(c, "touch") ELSE Return(c)

ReadResult(c) ==
    /\ At(c, "result")
    /\ IF dir.result # "NONE" THEN Return(c) ELSE Step(c, "alive")
    /\ UNCHANGED <<dir, runner, command, faults, psutil>>

\* pid_alive
TestRunner(c) ==
    /\ At(c, "alive")
    /\ \/ client[c].named /\ RunnerAlive /\ Running(c)
       \/ (Blind \/ ~client[c].named \/ ~RunnerAlive) /\ Step(c, "grace")
    /\ UNCHANGED <<dir, runner, command, faults, psutil>>

\* Mutant: every look at the job begins the grace period anew.
GraceAgain(c) ==
    /\ At(c, "grace")
    /\ dir' = [dir EXCEPT !.grace = "begun"]
    /\ Running(c)
    /\ UNCHANGED <<runner, command, faults, psutil>>

\* The first look that misses the runner begins the grace period, which is
\* never ended by one that finds it.
ReadGrace(c) ==
    /\ At(c, "grace")
    /\ \/ /\ dir.grace = "none"
          /\ dir' = [dir EXCEPT !.grace = "begun"]
          /\ IF client[c].op = "cancel"
             THEN Goto(c, "touch") /\ since' = Under
             ELSE client' = [client EXCEPT ![c] = Idle] /\ since' = Under \ {c}
       \/ dir.grace = "begun" /\ Running(c) /\ UNCHANGED dir
       \/ dir.grace = "over" /\ Step(c, "lost") /\ UNCHANGED dir
    /\ UNCHANGED <<runner, command, faults, psutil>>

WriteLost(c) ==
    /\ At(c, "lost")
    /\ dir' = [dir EXCEPT !.result = "LOST"]
    /\ Return(c)
    /\ UNCHANGED <<runner, command, faults, psutil>>

\* Two seconds pass.
GraceEnds ==
    /\ dir.grace = "begun"
    /\ since # {} => "stall" \in Faults
    /\ dir' = [dir EXCEPT !.grace = "over"]
    /\ UNCHANGED <<runner, command, client, since, faults, psutil>>

-----------------------------------------------------------------------------
(***************************************************************************)
(* submit()                                                                *)
(***************************************************************************)
\* Mutant: the directory may be there already (exist_ok).
SubmitAnyway(c) ==
    /\ MayCall(c)
    /\ dir' = [dir EXCEPT !.exists = TRUE]
    /\ client' = [client EXCEPT ![c].pc = "popen", ![c].op = "submit"]
    /\ UNCHANGED <<runner, command, since, faults, psutil>>

\* mkdir decides which call owns the dispatch key; any other is a status().
BeginSubmit(c) ==
    /\ MayCall(c)
    /\ \/ /\ ~dir.exists
          /\ dir' = [dir EXCEPT !.exists = TRUE]
          /\ client' = [client EXCEPT ![c].pc = "popen", ![c].op = "submit"]
          /\ UNCHANGED <<runner, command, since, faults, psutil>>
       \/ Inspect(c, "submit")

Popen(c) ==
    /\ At(c, "popen")
    /\ runner' = [runner EXCEPT ![c].pc = "reading"]
    /\ Step(c, "send")
    /\ UNCHANGED <<dir, command, faults, psutil>>

Send(c) ==
    /\ At(c, "send")
    /\ runner' = [runner EXCEPT ![c].pc = "told"]
    /\ Step(c, "name")
    /\ UNCHANGED <<dir, command, faults, psutil>>

\* The pipe is broken: the runner is terminated, or not found and left without a
\* request that it can parse; and submit raises.
SendFails(c) ==
    /\ Fault("error")
    /\ At(c, "send")
    /\ \/ runner' = [runner EXCEPT ![c].pc = "gone"]
       \/ Blind /\ runner' = [runner EXCEPT ![c].pc = "failing"]
    /\ Return(c)
    /\ UNCHANGED <<dir, command>>

\* meta.json
Name(c) ==
    /\ At(c, "name")
    /\ \E named \in Identified : dir' = [dir EXCEPT !.named = named]
    /\ Return(c)
    /\ UNCHANGED <<runner, command, faults, psutil>>

-----------------------------------------------------------------------------
(***************************************************************************)
(* cancel(), when status() has found no result.                            *)
(***************************************************************************)
Touch(c) ==
    /\ At(c, "touch")
    /\ dir' = [dir EXCEPT !.cancel = TRUE]
    /\ Step(c, "read")
    /\ UNCHANGED <<runner, command, faults, psutil>>

\* meta.json and runtime.json
ReadPids(c) ==
    /\ At(c, "read")
    /\ client' = [client EXCEPT ![c] =
          [@ EXCEPT !.pc = "kill_command", !.named = dir.named, !.runtime = dir.runtime]]
    /\ UNCHANGED <<dir, runner, command, since, faults, psutil>>

\* terminate_tree(child_pid), which kills only what pid_alive finds
KillCommand(c) ==
    /\ At(c, "kill_command")
    /\ \/ client[c].runtime /\ command' = {}
       \/ (Blind \/ ~client[c].runtime) /\ UNCHANGED command
    /\ Step(c, "kill_runner")
    /\ UNCHANGED <<dir, runner, faults, psutil>>

\* Mutant: the command has been killed, the runner will see to the rest.
RunnerLeft(c) ==
    /\ At(c, "kill_runner")
    /\ Step(c, "cancelled")
    /\ UNCHANGED <<dir, runner, command, faults, psutil>>

\* terminate_tree(runner_pid), with the command below it
KillRunner(c) ==
    /\ At(c, "kill_runner")
    /\ \/ client[c].named /\ runner' = Stopped /\ command' = {}
       \/ (Blind \/ ~client[c].named) /\ UNCHANGED <<runner, command>>
    /\ Step(c, "cancelled")
    /\ UNCHANGED <<dir, faults, psutil>>

WriteCancelled(c) ==
    /\ At(c, "cancelled")
    /\ dir' = [dir EXCEPT !.result = "CANCELLED"]
    /\ Return(c)
    /\ UNCHANGED <<runner, command, faults, psutil>>

-----------------------------------------------------------------------------
(***************************************************************************)
(* The runner                                                              *)
(***************************************************************************)
RunnerGoes(c, from, to) ==
    /\ runner[c].pc = from
    /\ runner' = [runner EXCEPT ![c].pc = to]

SpawnCommand(c) ==
    /\ RunnerGoes(c, "told", "spawned")
    /\ command' = command \cup {c}
    /\ UNCHANGED <<dir, client, since, faults, psutil>>

\* runtime.json
Publish(c) ==
    /\ RunnerGoes(c, "spawned", "watching")
    /\ \E identified \in Identified : dir' = [dir EXCEPT !.runtime = identified]
    /\ UNCHANGED <<command, client, since, faults, psutil>>

\* By itself, or killed at its deadline.
CommandEnds(c) ==
    /\ c \in command
    /\ command' = command \ {c}
    /\ UNCHANGED <<dir, runner, client, since, faults, psutil>>

\* The verdict, for which cancel.requested is looked at once.
Judge(c) ==
    /\ runner[c].pc = "watching" /\ c \notin command
    /\ \E v \in {"SUCCEEDED", "FAILED"} :
          runner' = [runner EXCEPT ![c] =
              [pc |-> "writing", verdict |-> IF dir.cancel THEN "CANCELLED" ELSE v]]
    /\ UNCHANGED <<dir, command, client, since, faults, psutil>>

\* result.json, over one that is there.
WriteResult(c) ==
    /\ RunnerGoes(c, "writing", "gone")
    /\ dir' = [dir EXCEPT !.result = runner[c].verdict]
    /\ UNCHANGED <<command, client, since, faults, psutil>>

\* Mutant: the command is not terminated.
BreakOnly(c) ==
    /\ Fault("error")
    /\ runner[c].pc \in {"told", "spawned", "watching", "writing"}
    /\ runner' = [runner EXCEPT ![c].pc = "failing"]
    /\ UNCHANGED <<dir, command, client, since>>

\* An exception in the runner: the command is terminated first.
Break(c) ==
    /\ Fault("error")
    /\ runner[c].pc \in {"told", "spawned", "watching", "writing"}
    /\ runner' = [runner EXCEPT ![c].pc = "failing"]
    /\ command' = command \ {c}
    /\ UNCHANGED <<dir, client, since>>

\* RUNNER_ERROR
WriteError(c) ==
    /\ RunnerGoes(c, "failing", "gone")
    /\ dir' = [dir EXCEPT !.result = "FAILED"]
    /\ UNCHANGED <<command, client, since, faults, psutil>>

-----------------------------------------------------------------------------
(***************************************************************************)
(* Faults                                                                  *)
(***************************************************************************)
\* A runner whose pipe closes before the request has come cannot parse it.
Crash(c) ==
    /\ Fault("crash")
    /\ ~At(c, "idle")
    /\ runner' = IF At(c, "send") THEN [runner EXCEPT ![c].pc = "failing"] ELSE runner
    /\ Return(c)
    /\ UNCHANGED <<dir, command>>

Reboot ==
    /\ Fault("reboot")
    /\ runner' = Stopped
    /\ command' = {}
    /\ client' = [c \in Client |-> Idle]
    /\ since' = {}
    /\ UNCHANGED dir

\* psutil begins to fail; after that a call may find a process, or miss it.
PsutilFails ==
    /\ "nometer" \in Faults
    /\ ~Blind
    /\ psutil' = "fails"
    /\ UNCHANGED <<dir, runner, command, client, since, faults>>

-----------------------------------------------------------------------------
Init ==
    /\ dir = [exists |-> FALSE, named |-> FALSE, runtime |-> FALSE, grace |-> "none",
              cancel |-> FALSE, result |-> "NONE"]
    /\ runner = [c \in Client |-> [pc |-> "none", verdict |-> "NONE"]]
    /\ command = {}
    /\ client = [c \in Client |-> Idle]
    /\ since = {}
    /\ faults = 0
    /\ psutil = "works"

\* A call that has begun.
CallStep(c) ==
    \/ ReadResult(c) \/ TestRunner(c) \/ ReadGrace(c) \/ WriteLost(c)
    \/ Popen(c) \/ Send(c) \/ Name(c)
    \/ Touch(c) \/ ReadPids(c) \/ KillCommand(c) \/ KillRunner(c) \/ WriteCancelled(c)

Begin(c) == BeginSubmit(c) \/ BeginStatus(c) \/ BeginCancel(c)

RunnerStep(c) ==
    \/ SpawnCommand(c) \/ Publish(c) \/ CommandEnds(c) \/ Judge(c) \/ WriteResult(c)
    \/ WriteError(c)

FaultStep(c) == Break(c) \/ SendFails(c) \/ Crash(c)

Next ==
    \/ \E c \in Client : Begin(c) \/ CallStep(c) \/ RunnerStep(c) \/ FaultStep(c)
    \/ Reboot
    \/ PsutilFails
    \/ GraceEnds

Spec == Init /\ [][Next]_vars

(***************************************************************************)
(* Processes run, commands end by themselves or at their deadline, time    *)
(* passes, and every tick asks for the status of each job it knows.        *)
(***************************************************************************)
Fairness ==
    /\ WF_vars(GraceEnds)
    /\ \A c \in Client :
          WF_vars(BeginStatus(c)) /\ WF_vars(CallStep(c)) /\ WF_vars(RunnerStep(c))

FairSpec == Spec /\ Fairness

-----------------------------------------------------------------------------
(***************************************************************************)
(* Properties                                                              *)
(***************************************************************************)

\* Type invariant; a command runs under a runner that watches it.
TypeOK ==
    /\ dir \in Directory
    /\ runner \in [Client -> Runner]
    /\ client \in [Client -> Call]
    /\ since \subseteq Client
    /\ faults \in 0..MaxFaults
    /\ psutil \in {"works", "fails"}
    /\ command \subseteq {c \in Client : runner[c].pc \in {"spawned", "watching"}}

\* However often a dispatch key is submitted, and whoever crashes meanwhile, it
\* has one runner.
OneRunner == Cardinality({c \in Client : runner[c].pc # "none"}) <= 1

\* The adapter's calls, which touch the files one at a time, are the operations
\* that the orchestrator is modelled with.  Once psutil fails these allow more (the
\* runner is no longer known): a job that runs may be declared lost, and one that
\* is recorded as cancelled may run on.
ext ==
    IF dir.exists
    THEN [key \in {"key"} |->
             [alive |-> RunnerAlive \/ command # {},
              known |-> dir.named /\ ~Blind,
              result |-> IF dir.result = "LOST" THEN "FAILED" ELSE dir.result]]
    ELSE [key \in {} |-> {}]

Contract == INSTANCE ExecutionContract WITH JobId <- {"key"}

ImplementsAdapter == Contract!Spec

\* A job that was submitted has a result in the end, whoever has died.
Reported == dir.exists ~> dir.result # "NONE"

\* What the runner has written of a finished command is not declared lost.
ResultKept == [][dir.result \in {"SUCCEEDED", "FAILED"} => dir'.result # "LOST"]_vars
=================================================================================
