CONSTANTS
    Upload = {u}
    Key = {k}
    Body = {x, y}
    MaxPart = 2
    NameSpace = 3
    Listing <- Lists
    MaxFaults = 0
    None = None
SPECIFICATION Spec
INVARIANT
    CompletesUploadedParts
CHECK_DEADLOCK FALSE
