CONSTANTS
    Upload = {u, v}
    Key = {k}
    Body = {x, y}
    MaxPart = 2
    NameSpace = 3
    Listing <- Lists
    MaxFaults = 2
    None = None
SPECIFICATION Spec
SYMMETRY Symmetry
INVARIANTS
    TypeOK
    AckedPartsKept
    ObjectsDescribed
    UploadsRemovable
CHECK_DEADLOCK FALSE
