SPECIFICATION AvailabilitySpec
CONSTANTS
    Users = {a}
    TgUsers = {a}
    Skus = {s}
    Stores = {m}
    Online = Online
    Directions = {TRUE, FALSE}
    MaxBatch = 1
    MaxEvents = 1
    MaxLate = 0
    MaxCrashes = 0
PROPERTY TransitionsDetected
