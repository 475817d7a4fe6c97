CONSTANTS
    e = e
    m = m
    x = x
    y = y
    gone = gone
    None = None
    Entries = {e}
    Members = {m}
    EntryTexts = {x, gone}
    MemberTexts = {x, y}
    Deleted = gone
    PageSize = 1
    MaxSeq = 3
    MaxEdits = 2
    MaxFaults = 1
    MaxDiscards = 1
SPECIFICATION Spec
PROPERTIES NothingRemote
