SPECIFICATION FairSpec
CONSTANTS
    laptop = laptop  grok1 = grok1  grok2 = grok2  cloud = cloud
    home = home  grok = grok  vms = vms  mine = mine  account = account  other = other
    t1 = t1  t2 = t2  t3 = t3  gpu = gpu
    Task = {t1, t2, t3}
    Worker = {laptop, grok1, grok2, cloud}
    Pool = {home, grok, vms}
    Quota = {mine, account, other}
    Feature = {gpu}
    Configs <- MCConfigs
    SpecsOf <- MCSpecsOf
    Command = {c1, c2}
    CommandNeed <- MCCommandNeed
    NoLimit = NoLimit
INVARIANTS
    TypeOK
    PoolWithinCapacity
    PoolJobsBounded
    QuotaBounded
PROPERTIES
    LocalHeadroomSpentOnce
    LeakedReservationEnds
