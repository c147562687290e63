SPECIFICATION Spec
CONSTANTS
    a = a b = b src = src s1 = s1 s2 = s2 x1 = x1 y1 = y1 x2 = x2 laptop = laptop
    Task = {a, b}
    NoTask = NoTask NoSession = NoSession NoProcess = NoProcess NoArea = NoArea
    Session = {s1, s2}
    Takes <- MCTakes
    WorkerOf <- MCWorkerOf
    Worker = {laptop}
    MaxInflight <- MCInflight
    Agent = {x1, x2}
    AgentOf <- MCAgentOf
    Ticker = {p1}
    DependsOn <- MCNoDeps
    MaxAttempts = 2
    Concurrency <- MCTwoSlots
    Base = {c1}
    BaseOf <- MCBaseOf
    ScopesOf <- MCAllWrite
    Segment = {src}
    Fold <- MCFold
    Commands = {"complete", "close", "pulse"}
    Mortal = {}
    Faults = {}
    MaxFaults = 0
    MaxAssigned = 2
INVARIANTS
    ScopeExclusion
    AssignedClaimed
