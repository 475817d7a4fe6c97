SPECIFICATION FairSpec
CONSTANTS
    Profiles = {p1, p2}
    None = None
    MaxId = 2
    Faults = {"late", "interrupt"}
    MaxFaults = 1
PROPERTIES
    DeletionsComplete
    EverythingSent
\* When nobody acts any more, nothing is owed and the system rests.
CHECK_DEADLOCK FALSE
