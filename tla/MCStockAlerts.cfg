SPECIFICATION FairSpec
CONSTANTS
    Users = {a}
    TgUsers = {a}
    Skus = {s}
    Stores = {m}
    Online = Online
    Directions = {FALSE}
    MaxBatch = 1
    MaxEvents = 2
    MaxLate = 1
    MaxCrashes = 1
INVARIANTS TypeOK FanOutComplete ResendsExplained
PROPERTIES EventuallyMessaged PollEnds
