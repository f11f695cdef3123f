\* Two sessions and the job overlap, as at READ COMMITTED.
CONSTANTS
    u1 = u1
    u2 = u2
    r1 = r1
    s1 = s1
    s2 = s2
    NoRoll = NoRoll
    None = None
    Users = {u1, u2}
    Rolls = {r1}
    Requests = {s1, s2}
    WeeklyCap = 1
    MaxRecords = 2
SPECIFICATION Spec
CONSTRAINT Racing
SYMMETRY Symmetry
INVARIANTS
    OneAccountPerRoll
    AttemptsOvershoot
