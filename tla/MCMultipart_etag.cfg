CONSTANTS
    Upload = {u}
    Key = {k}
    Body = {x, y}
    MaxPart = 2
    NameSpace = 3
    Listing <- Lists
    MaxFaults = 1
    None = None
SPECIFICATION Spec
INVARIANT
    MultipartETagIsOfParts
CHECK_DEADLOCK FALSE
