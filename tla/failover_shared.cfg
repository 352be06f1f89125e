SPECIFICATION FairSpec
CONSTANTS
    b1 = b1  b2 = b2  r1 = r1  r2 = r2
    Replicas = {b1, b2}
    Requests = {r1, r2}
    Keys <- KeysOne
    Rows <- RowsOne
    Targets <- TargetsP
    Registered <- TargetsP
    Orders <- OrdersP
    Answers <- Sharp
    MaxAttempts = 2
    Flaky = FALSE
    MaxEvents = 1
    None = None
    Catalogs <- CatalogsP
    Preferences <- MCPreferences
    Cursors <- MCCursors
    WeightCap = 3
    NoRoute = 0
INVARIANTS DisabledStaysOut
PROPERTIES Answered
CHECK_DEADLOCK FALSE
