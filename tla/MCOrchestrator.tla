----------------------------- MODULE MCOrchestrator -----------------------------
(* Small instances of Orchestrator for TLC. *)
EXTENDS Orchestrator, TLC

\* Tasks a and b, the verification v of a; a laptop with the local adapter and
\* a cloud with a remote one; desk has the manual adapter, attic none.
CONSTANTS a, b, v, src, laptop, cloud, desk, attic

MCJobId == Task \X (1..MaxJobs)

\* Only a is tried more than once.
MCRetriesOfA == {j \in MCJobId : j[2] > 1 => j[1] = a}

MCFold == [s \in {src} |-> s]

\* All tasks write the same files of the same commit.
MCScopes == [t \in Task |-> {<<src>>}]

MCBaseOf == [t \in Task |-> CHOOSE c \in Base : TRUE]

MCNoChild == [t \in Task |-> NoTask]

MCChild == [t \in Task |-> IF t = a THEN v ELSE NoTask]

MCNoDeps == [t \in Task |-> {}]

MCDeps == [t \in Task |-> IF t = b THEN {a} ELSE {}]

\* A verification is LOCAL_REQUIRED.
MCFits == [t \in Task |-> IF t = v THEN Worker \cap {laptop} ELSE Worker]

MCKind == [w \in Worker |-> CASE w = laptop -> "local"
                              [] w = cloud -> "remote"
                              [] w = desk -> "manual"
                              [] w = attic -> "none"]

MCConcurrency == [w \in Worker |-> 1]

TickerSymmetry == Permutations(Ticker)
=================================================================================
