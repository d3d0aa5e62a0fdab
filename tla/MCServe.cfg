CONSTANTS
    x = x
    y = y
    Datum <- MCDatum
    Frames <- MCFrames
    Limits <- MCLimits
    MaxChunk = 2
    Second = 2
    Word = 32
    MaxPresign = 6
    Skew = 2
    Day = 8
    Addr <- MCAddr
    Public <- MCPublic
    Key <- MCKey
    MaxStarts = 3
    Broken = Broken
    Unset = Unset
    None = None
    Trips <- MCTrips
SPECIFICATION FairSpec
CHECK_DEADLOCK FALSE
INVARIANTS
    TypeOK
    AcceptedIsWhole
    CutIsNoticed
    RefusedForCause
    ServedIffSigned
    ShownKeysWork
    PreflightsTell
PROPERTIES
    VerdictStands
    ReadingEnds
