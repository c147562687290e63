SPECIFICATION FairSpec
CONSTANTS
    Client = {c1, c2}
    Faults = {"crash", "reboot", "error", "nometer"}
    MaxFaults = 2
INVARIANTS
    TypeOK
    OneRunner
PROPERTIES
    ImplementsAdapter
    Reported
