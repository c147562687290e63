SPECIFICATION MCWaitSpec
CONSTANTS
    src = src  SRC = SRC  api = api  docs = docs
    Segment = {src, SRC, api, docs}
    Fold <- MCFold
    ScopeSet <- MCTwoScopes
    Path <- MCPath
    Task = {t1, t2}
    Base = {c1}
    Owner = {o1}
    Worker = {w1}
    Process = {p1}
    NoProcess = NoProcess
    Ttl = {1}
    MaxLag = 1
    NoArea = NoArea
    waiter = t1
INVARIANTS
    TypeOK
    LeasesDisjoint
    OneWriterPerPath
PROPERTIES
    CrashedOwnerReleases
    NoPreemption
    ImplementsPathLease
