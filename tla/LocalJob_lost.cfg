SPECIFICATION Spec
CONSTANTS
    Client = {c1, c2}
    Faults = {"early"}
    MaxFaults = 0
PROPERTIES ResultKept
CHECK_DEADLOCK FALSE
