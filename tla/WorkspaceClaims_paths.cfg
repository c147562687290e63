SPECIFICATION Spec
CONSTANTS
    src = src  SRC = SRC  api = api  docs = docs
    Segment = {src, SRC, api, docs}
    Fold <- MCFold
    ScopeSet <- MCScopeSet
    Path <- MCPath
    Task = {t1, t2, t3}
    Base = {c1}
    Owner = {orchestrator}
    Worker = {w1}
    Process = {}
    NoProcess = NoProcess
    Ttl = {2}
    MaxLag = 1
    NoArea = NoArea
    waiter = t1
SYMMETRY TaskSymmetry
INVARIANTS
    TypeOK
    LeasesDisjoint
    OneWriterPerPath
