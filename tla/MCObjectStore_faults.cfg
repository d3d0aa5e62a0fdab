CONSTANTS
    Req = {r1, r2}
    Bucket = {b1}
    Key = {k1}
    Body = {x, y}
    Partial = Partial
    Info = {i, j}
    None = None
    IOErrors = TRUE
    Crashes = TRUE
    Slow = {}
SPECIFICATION Spec
SYMMETRY SafetySymmetry
INVARIANTS
    TypeOK
    LockSafety
    WholeBodies
    CoherentUnlessTorn
    ReadsAreCoherent
    AckMeansStored
    RejectedLeavesObject
PROPERTIES
    NoTempLeft
    ImplementsMap
