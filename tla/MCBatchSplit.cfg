SPECIFICATION PipelineSpec
CONSTANTS
    Users = {a, b}
    TgUsers = {a, b}
    Skus = {s}
    Stores = {}
    Online = Online
    Directions = {FALSE}
    MaxBatch = 1
    MaxEvents = 1
    MaxLate = 0
    MaxCrashes = 0
INVARIANT EveryWatcherMessaged
