SPECIFICATION FairSpec
CONSTANTS
    App = app
    Handlers = {handler}
    None = None
    MaxWrites = 1
    MaxChanges = 1
    PageSize = 1
    MaxMessages = 1
    Faults = {"suspend", "kill", "offline", "retire", "signout"}
    MaxFaults = 1
INVARIANTS
    TypeOK
    CopyIsWhole
    RestsWhenDone
PROPERTIES
    EditsArrive
