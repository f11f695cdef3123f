\* Two requests and the nightly pass overlap, with crashes and a failing disk.
CONSTANTS
    f1 = f1
    f2 = f2
    f3 = f3
    s1 = s1
    s2 = s2
    nightly = nightly
    None = None
    Files = {f1, f2, f3}
    Handlers = {s1, s2}
    Purgers = {nightly}
    Stuck = {f1, f2, f3}
    MaxRecords = 1
SPECIFICATION RetentionSpec
INVARIANTS
    RetentionTypeOK
    UndecidedImagesKept
PROPERTIES
    OverdueIsPurged
