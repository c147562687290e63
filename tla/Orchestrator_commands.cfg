SPECIFICATION Spec
CONSTANTS
    a = a b = b v = v src = src
    laptop = laptop cloud = cloud desk = desk attic = attic
    Segment = {src}
    Fold <- MCFold
    ScopesOf <- MCScopes
    BaseOf <- MCBaseOf
    Base = {c1}
    Task = {a, v}
    NoTask = NoTask NoJob = NoJob KeepJob = KeepJob NoRow = NoRow
    NoProcess = NoProcess NoArea = NoArea
    ChildOf <- MCChild
    DependsOn <- MCNoDeps
    Worker = {laptop, desk, cloud, attic}
    Fits <- MCFits
    Kind <- MCKind
    Concurrency <- MCConcurrency
    MaxAttempts = 1
    Ticker = {p1}
    Operator = {p2}
    Commands = {"retry", "complete"}
    Faults = {"outage", "adapter", "stall", "nometer"}
    MaxJobs = 2
    MaxCrashes = 1
    JobId <- MCJobId
INVARIANTS
    AttemptBudget
    VerifiedBeforeDone
