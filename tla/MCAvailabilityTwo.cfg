SPECIFICATION AvailabilitySpec
CONSTANTS
    Users = {a}
    TgUsers = {a}
    Skus = {s, t}
    Stores = {}
    Online = Online
    Directions = {TRUE, FALSE}
    MaxBatch = 1
    MaxEvents = 0
    MaxLate = 0
    MaxCrashes = 0
INVARIANTS TableMatchesAnswer AlarmsExplained
SYMMETRY SkuSymmetry
