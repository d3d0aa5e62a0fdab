CONSTANTS
    Piece <- Pieces
    Key <- TidyKeys
    Body = {x}
    DotBase <- Dots
    MaxCrashes = 0
    None = None
    Dir = Dir
SPECIFICATION Spec
INVARIANT DeletesExactlyEmptyBuckets
