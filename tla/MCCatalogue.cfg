SPECIFICATION CatalogueSpec
CONSTANTS
    Skus = {s1}
    Undated = {}
    Contents = {"blank", "a"}
    Blank = "blank"
    Wines = {"w"}
    Weekly = weekly
    Manual = {manual}
    MaxDay = 1
    MaxEdits = 2
    MaxFailures = 1
INVARIANTS CatalogueTypeOK VectorMatchesHash
PROPERTIES MissedExplained CatalogueHeals
CHECK_DEADLOCK FALSE
