SPECIFICATION Spec
CONSTANTS
    a = a b = b v = v src = src
    laptop = laptop cloud = cloud desk = desk attic = attic
    Segment = {src}
    Fold <- MCFold
    ScopesOf <- MCScopes
    BaseOf <- MCBaseOf
    Base = {c1}
    Task = {a, b}
    NoTask = NoTask NoJob = NoJob KeepJob = KeepJob NoRow = NoRow
    NoProcess = NoProcess NoArea = NoArea
    ChildOf <- MCNoChild
    DependsOn <- MCNoDeps
    Worker = {laptop}
    Fits <- MCFits
    Kind <- MCKind
    Concurrency <- MCConcurrency
    MaxAttempts = 1
    Ticker = {p1}
    Operator = {p2}
    Commands = {"cancel"}
    Faults = {}
    MaxJobs = 1
    MaxCrashes = 0
    JobId <- MCJobId
INVARIANTS
    ScopeExclusion
