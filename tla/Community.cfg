SPECIFICATION Spec
CONSTANTS
    Cap <- MCCap
    Thresholds <- MCThresholds
    DecayPercent = 2
    Posts = {"p1"}
    Answers = {"a1"}
    Voters = {"v1", "v2"}
    Weights = {100}
    MaxEvents = 4
    MaxScore = 1
    MaxActions = 1
CONSTRAINT Small
INVARIANTS
    TypeOK
    CacheMatchesLedger
    MonthlyCap
    ConductFloor
    RestoredCarriesNoPenalty
    WithdrawnVoteEarnsNothing
