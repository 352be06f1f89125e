SPECIFICATION Spec
CONSTANTS
    b1 = b1  b2 = b2  r1 = r1  r2 = r2
    Replicas = {b1}
    Requests = {r1}
    Keys <- KeysPQ
    Rows <- RowsPQ
    Targets <- TargetsPQ
    Registered <- KnownPQ
    Orders <- OrdersPQ
    Answers <- NoInvalid
    MaxAttempts = 3
    Flaky = TRUE
    MaxEvents = 2
    None = None
    Catalogs <- CatalogsPQ
    Preferences <- MCPreferences
    Cursors <- MCCursors
    WeightCap = 3
    NoRoute = 0
INVARIANTS TypeOK BudgetRespected
PROPERTIES EveryKeyTried
CHECK_DEADLOCK FALSE
