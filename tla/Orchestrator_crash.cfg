SPECIFICATION FairSpec
CONSTANTS
    a = a b = b v = v src = src
    laptop = laptop cloud = cloud desk = desk attic = attic
    Segment = {src}
    Fold <- MCFold
    ScopesOf <- MCScopes
    BaseOf <- MCBaseOf
    Base = {c1}
    Task = {a}
    NoTask = NoTask NoJob = NoJob KeepJob = KeepJob NoRow = NoRow
    NoProcess = NoProcess NoArea = NoArea
    ChildOf <- MCNoChild
    DependsOn <- MCNoDeps
    Worker = {cloud}
    Fits <- MCFits
    Kind <- MCKind
    Concurrency <- MCConcurrency
    MaxAttempts = 2
    Ticker = {p1}
    Operator = {p2}
    Commands = {"resolve", "cancel"}
    Faults = {"crash", "vanish", "outage"}
    MaxJobs = 3
    MaxCrashes = 2
    JobId <- MCJobId
INVARIANTS
    OneLiveExecution
PROPERTIES
    RoutingEnds
