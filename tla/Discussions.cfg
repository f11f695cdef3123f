\* Three questions, two answers, two comments, two voters, two overlapping sessions.
CONSTANTS
    a1 = a1
    a2 = a2
    u1 = u1
    u2 = u2
    asker = asker
    m = m
    s1 = s1
    s2 = s2
    Questions = {q1, q2, q3}
    Thread = q1
    Asker = asker
    Answers = {a1, a2}
    Comments = {c1, c2}
    AuthorOf <- MCAuthorOf
    Moderators = {m}
    Voters = {u1, u2}
    Options = {o1, o2}
    Awards = {1, 2}
    Sessions = {s1, s2}
    Unique = {"ballot"}
    Booked = {}
SPECIFICATION Spec
CONSTRAINT Small
SYMMETRY Symmetry
INVARIANTS
    TypeOK
    DuplicatesEnd
    OneAccepted
    TalliesExact
