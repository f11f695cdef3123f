\* One report of the post, four voters, two overlapping sessions.
CONSTANTS
    m1 = m1
    m2 = m2
    m3 = m3
    m4 = m4
    s1 = s1
    s2 = s2
    author = author
    r1 = r1
    brigaded = brigaded
    Author = author
    Reporters = {r1}
    AutoReport = brigaded
    Moderators = {m1, m2, m3, m4, author}
    Staff = {m1}
    Admins = {}
    Sessions = {s1, s2}
    Unique = {"report", "vote"}
    Booked = {"penalty"}
    Actions = {1, 2}
    MaxPenalties = 1
SPECIFICATION Spec
CONSTRAINT Small
SYMMETRY Symmetry
INVARIANTS
    TypeOK
    ConsensusDecides
    DownUnderAnAction
PROPERTIES
    VerdictBacked
