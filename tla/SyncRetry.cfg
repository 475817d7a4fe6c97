SPECIFICATION Spec
CONSTANTS
    App = app
    Handlers = {handler}
    None = None
    MaxWrites = 1
    MaxChanges = 1
    PageSize = 1
    MaxMessages = 0
    Faults = {"offline"}
    MaxFaults = 1
INVARIANTS
    RestsOnceSynced
