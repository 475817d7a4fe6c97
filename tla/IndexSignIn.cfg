SPECIFICATION Spec
CONSTANTS
    Profiles = {p1, p2}
    None = None
    MaxId = 3
    Faults = {}
    MaxFaults = 0
SYMMETRY Symmetric
PROPERTIES
    SignInMovesAccess
\* When nobody acts any more, nothing is owed and the system rests.
CHECK_DEADLOCK FALSE
