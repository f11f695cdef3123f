\* One session at a time: what the handlers guarantee when nothing races.
CONSTANTS
    u1 = u1
    u2 = u2
    r1 = r1
    r2 = r2
    s1 = s1
    NoRoll = NoRoll
    None = None
    Users = {u1, u2}
    Rolls = {r1, r2}
    Requests = {s1}
    WeeklyCap = 1
    MaxRecords = 3
SPECIFICATION Spec
CONSTRAINT OneSession
SYMMETRY Symmetry
INVARIANTS
    TypeOK
    VerifiedByReviewer
    RejectedClaimReleasesRoll
PROPERTIES
    VerifiedKeepsTier
