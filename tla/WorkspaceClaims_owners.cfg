SPECIFICATION MCWaitSpec
CONSTANTS
    src = src  SRC = SRC  api = api  docs = docs
    Segment = {src, SRC, api, docs}
    Fold <- MCFold
    ScopeSet <- MCTwoScopes
    Path <- MCPath
    Task = {t1, t2}
    Base = {c1}
    Owner = {o1, o2}
    Worker = {w1}
    Process = {p1}
    NoProcess = NoProcess
    Ttl = {2}
    MaxLag = 0
    NoArea = NoArea
    waiter = t1
PROPERTIES
    CrashedOwnerReleases
    NoPreemption
    IdentityFixed
    ImplementsPathLease
