SPECIFICATION Spec
CONSTANTS
    Accounts = {r, s}
    Reader = r
    Names = {x, z}
    Malformed = {z}
    None = None
    PageSize = 1
    MaxEvents = 4
INVARIANTS
    TypeOK
    NamesArrive
