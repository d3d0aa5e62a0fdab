CONSTANTS
    Req = {r1, r2}
    Bucket = {b1, b2}
    Key = {k1}
    Body = {x, y}
    Partial = Partial
    Info = {i}
    None = None
    IOErrors = FALSE
    Crashes = FALSE
    Slow = {b2}
SPECIFICATION FairSpec
PROPERTIES
    ImplementsMap
    OtherBucketsAnswer
