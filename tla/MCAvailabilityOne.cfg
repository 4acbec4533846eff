SPECIFICATION AvailabilitySpec
CONSTANTS
    Users = {a}
    TgUsers = {a}
    Skus = {s}
    Stores = {m}
    Online = Online
    Directions = {TRUE, FALSE}
    MaxBatch = 1
    MaxEvents = 2
    MaxLate = 0
    MaxCrashes = 0
INVARIANTS AvailabilityTypeOK AlarmsExplained
