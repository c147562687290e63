SPECIFICATION FairSpec
CONSTANTS
    x1 = x1
    x2 = x2
    y = y
    agent = agent
    other = other
    build = build
    test = test
    Use = {x1, x2, y}
    Wrapped = {y}
    Owner = {agent, other}
    OwnerOf <- MCOwnerOf
    Command = {build, test}
    CommandOf <- MCCommandOf
    RankOf <- MCRankOf
    Heavy = {build, test}
    Waiter = {w1}
    Slots = 1
    NoUse = NoUse
    MaxGrants = 3
    Faults = {"abandon", "die", "overstay", "exempt", "stop"}
INVARIANTS TypeOK SlotBound RunsReserved HeavyRunsBounded
PROPERTY Served
