CONSTANTS
    Req = {r1}
    Key <- Keys
    x = x
    y = y
    Body = {x, y}
    Calls <- MCCalls
    Query = {}
    Star = Star
    None = None
SPECIFICATION Spec
INVARIANT UploadsHonourConditions
