\* Two members, two overlapping sessions, two uploads, skill rows and takedowns, three marks.
CONSTANTS
    u1 = u1
    u2 = u2
    s1 = s1
    s2 = s2
    Members = {u1, u2}
    Resources = {"r1", "r2"}
    Listings = {1, 2}
    MarkIds = {1, 2, 3}
    Takedowns = {1, 2}
    Slots = 2
    MaxCredits = 2
    Sessions = {s1, s2}
    Unique = {}
    Booked = {"credits"}
SPECIFICATION Spec
CONSTRAINT OneConcern
SYMMETRY Symmetry
INVARIANTS
    TypeOK
    TakenDownIsHidden
    MarksCount
