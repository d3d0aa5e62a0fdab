CONSTANTS
    Req = {r1}
    Key <- Keys
    x = x
    y = y
    Body = {x, y}
    Calls <- MCCalls
    Query <- Queries
    Star = Star
    None = None
SPECIFICATION Spec
INVARIANTS
    TypeOK
    HonouredUnlessRaced
    StableKeysListed
PROPERTIES
    PagesAdvance
