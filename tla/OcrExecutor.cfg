\* Four cards, with crashes of the worker and timeouts.
CONSTANTS
    c1 = c1
    c2 = c2
    c3 = c3
    c4 = c4
    NoPool = NoPool
    Calls = {c1, c2, c3, c4}
SPECIFICATION OcrSpec
\* Every card has been read: the run is bounded, the server is not.
CHECK_DEADLOCK FALSE
INVARIANTS
    OcrTypeOK
    InflightExact
    NoPoolLeaked
PROPERTIES
    WorkersEnd
