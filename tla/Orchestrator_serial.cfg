SPECIFICATION FairSpec
CONSTANTS
    a = a b = b v = v src = src
    laptop = laptop cloud = cloud desk = desk attic = attic
    Segment = {src}
    Fold <- MCFold
    ScopesOf <- MCScopes
    BaseOf <- MCBaseOf
    Base = {c1}
    Task = {a, b, v}
    NoTask = NoTask NoJob = NoJob KeepJob = KeepJob NoRow = NoRow
    NoProcess = NoProcess NoArea = NoArea
    ChildOf <- MCChild
    DependsOn <- MCNoDeps
    Worker = {laptop, cloud}
    Fits <- MCFits
    Kind <- MCKind
    Concurrency <- MCConcurrency
    MaxAttempts = 2
    Ticker = {p1}
    Operator = {}
    Commands = {}
    Faults = {"vanish", "stall"}
    MaxJobs = 2
    MaxCrashes = 0
    JobId <- MCJobId
INVARIANTS
    TypeOK
    ScopeExclusion
    ReleasedWhenOver
    ExecutionAccounted
PROPERTIES
    Settles
