\* One request at a time and a disk that never fails.
CONSTANTS
    f1 = f1
    f2 = f2
    f3 = f3
    s1 = s1
    nightly = nightly
    None = None
    Files = {f1, f2, f3}
    Handlers = {s1}
    Purgers = {nightly}
    Stuck = {}
    MaxRecords = 1
SPECIFICATION RetentionSpec
INVARIANTS
    PurgedLeavesNothing
