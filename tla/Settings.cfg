\* Three requests, two values, an entry that lives two ticks.
CONSTANTS
    q1 = q1
    q2 = q2
    q3 = q3
    Requests = {q1, q2, q3}
    Values = {"seed", "edited"}
    Seed = "seed"
    TTL = 2
SPECIFICATION SettingsSpec
INVARIANT SettingsTypeOK
PROPERTY Editable
