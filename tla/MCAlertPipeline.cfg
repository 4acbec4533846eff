SPECIFICATION PipelineSpec
CONSTANTS
    Users = {a}
    TgUsers = {a}
    Skus = {s}
    Stores = {}
    Online = Online
    Directions = {FALSE}
    MaxBatch = 1
    MaxEvents = 2
    MaxLate = 1
    MaxCrashes = 1
INVARIANTS PipelineTypeOK DelistedMatchesSitemap DelistAnnounced
PROPERTIES DeliversAlerts
