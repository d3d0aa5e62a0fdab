CONSTANTS
    Piece <- Pieces
    Key <- MCKeys
    Body = {x}
    DotBase <- Dots
    MaxCrashes = 2
    None = None
    Dir = Dir
SPECIFICATION Spec
INVARIANTS
    TypeOK
    AckedObjectsKept
    DeletedStaysGone
