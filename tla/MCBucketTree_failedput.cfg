CONSTANTS
    Piece <- Pieces
    Key <- MeetingKeys
    Body = {x, y}
    DotBase <- Dots
    MaxCrashes = 0
    None = None
    Dir = Dir
SPECIFICATION Spec
INVARIANT FailedUploadKeepsObject
