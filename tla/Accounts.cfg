\* Two sessions of one account under two passwords; two members with roles.
CONSTANTS
    t1 = t1
    t2 = t2
    p1 = p1
    p2 = p2
    s1 = s1
    s2 = s2
    Tokens = {t1, t2}
    Limit = 2
    Windows = {1, 2}
    MaxWord = 2
    People = {p1, p2}
    Sessions = {s1, s2}
    Unique = {"handle"}
    Booked = {"passed"}
SPECIFICATION Spec
CONSTRAINT OneConcern
SYMMETRY Symmetry
INVARIANTS
    TypeOK
    ChangeEndsSessions
    Throttled
    AnAdminRemains
