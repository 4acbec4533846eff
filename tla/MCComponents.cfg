SPECIFICATION Spec
CONSTANTS
    Skus = {"a", "b", "c", "d", "e"}
    Wines = {"w"}
    RankOf <- MCRankOf
    Subcategories <- MCSubcategories
    Countries = {"France"}
    SubcategoryOf <- MCSubcategoryOf
    CountryOf <- MCCountryOf
    Prices = {1, 9}
    FirstAttributes <- MCAttributes
    FirstPrice <- MCPrice
    PriceRanges <- MCRanges
    PageSize = 1
    MaxPage = 2
    MaxChanges = 1
    Stores = {"a", "b", "c"}
    Facts = {"f", "g"}
    SeedStores = {"c", "z"}
    SeedProducts = {"p", "q"}
    RealProducts = {"r"}
    PageLength = 2
    MaxMoves = 2
    People = {u1}
    Sessions = {s1}
    Cellarman = {w1}
    Slots = {r1, r2}
    ContextTurns = 1
    MaxSends = 3
    Attributes = {"producer", "grape"}
    Weight <- MCWeight
    Values = {"x", "y"}
    Unknown = "?"
    PoolSize = 4
    Limit = 3
    Screens = {r1, r2}
    Most = 2
    MaxEntries = 2
    Products = {"p1", "p2", "p3", "p4"}
    Ranks = {0, 1}
    PageLimit = 2
    MaxWrites = 2
    Editors = {e1, e2}
    Fields = {"rating", "notes"}
    FieldValues = {"x", "y"}
    MaxDrafts = 3
    Ttl = 3
    Patience = 1
    MaxCalls = 2
    Window = 2
    MaxTime = 5
    MaxUpdates = 3
    Items = {"s1", "s2"}
    MaxTaps = 3
    MaxWeb = 2
INVARIANTS ComponentsTypeOK SeededWhole TurnsWhole RepeatsExplained NoWorseTwin WalkExplained StaleYesBounded LimitExact
PROPERTIES CoverageExplained KeepsPromise DirectoryWhole PenaltyAccumulates CellarIsAtomic EditsMerge MarksTrue
SYMMETRY RequestSymmetry
CHECK_DEADLOCK FALSE
