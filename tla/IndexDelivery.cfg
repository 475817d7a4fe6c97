SPECIFICATION Spec
CONSTANTS
    Profiles = {p1, p2}
    None = None
    MaxId = 4
    Faults = {"evict", "late"}
    MaxFaults = 1
SYMMETRY Symmetric
INVARIANTS
    TypeOK
    IndexMirrors
    PurgedStaysOut
PROPERTIES
    ImplementsParticipation
\* When nobody acts any more, nothing is owed and the system rests.
CHECK_DEADLOCK FALSE
