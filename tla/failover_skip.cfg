SPECIFICATION Spec
CONSTANTS
    b1 = b1  b2 = b2  r1 = r1  r2 = r2
    Replicas = {b1}
    Requests = {r1}
    Keys <- KeysABC
    Rows <- RowsABC
    Targets <- TargetsP
    Registered <- TargetsP
    Orders <- OrdersP
    Answers <- AllAnswers
    MaxAttempts = 4
    Flaky = TRUE
    MaxEvents = 0
    None = None
    Catalogs <- CatalogsP
    Preferences <- MCPreferences
    Cursors <- MCCursors
    WeightCap = 3
    NoRoute = 0
PROPERTIES EveryKeyTried
CHECK_DEADLOCK FALSE
