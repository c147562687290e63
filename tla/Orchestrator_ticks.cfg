SPECIFICATION Spec
CONSTANTS
    a = a b = b v = v src = src
    laptop = laptop cloud = cloud desk = desk attic = attic
    Segment = {src}
    Fold <- MCFold
    ScopesOf <- MCScopes
    BaseOf <- MCBaseOf
    Base = {c1}
    Task = {a, b, v}
    NoTask = NoTask NoJob = NoJob KeepJob = KeepJob NoRow = NoRow
    NoProcess = NoProcess NoArea = NoArea
    ChildOf <- MCChild
    DependsOn <- MCDeps
    Worker = {laptop}
    Fits <- MCFits
    Kind <- MCKind
    Concurrency <- MCConcurrency
    MaxAttempts = 1
    Ticker = {p1, p2}
    Operator = {}
    Commands = {}
    Faults = {}
    MaxJobs = 2
    MaxCrashes = 0
    JobId <- MCRetriesOfA
SYMMETRY TickerSymmetry
INVARIANTS
    OneLiveExecution
    DependenciesRanFirst
