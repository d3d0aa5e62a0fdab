CONSTANTS
    r1 = r1
    r2 = r2
    x = x
    Req = {r1, r2}
    Bucket <- MCBucket
    Rules <- MCRules
    Unset = Unset
    CallsOf <- MCCallsOf
    MaxBirths = 2
    MaxCrashes = 1
    None = None
SPECIFICATION FairSpec
INVARIANTS
    TypeOK
    AnswersTrue
    AckedBucketsKept
PROPERTIES
    WaitsOnlyForUploads
