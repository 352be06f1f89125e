CONSTANTS
    r1 = r1
    r2 = r2
    alice = alice
    bob = bob
    carol = carol
    k1 = k1
    k2 = k2
    All = All
    None = None
    Replicas <- MCReplicas
    Scripts <- MCScripts
    MaxRecords = 4
    QueueCap = 1
    BatchCap = 2
    Budgets <- MCBudgets
    HourLen = 2
    DayLen = 4
    RawSpan = 2
    HourlySpan = 4
    Offset = 1
    AnyKey = All
    NoTime = None
    Queries <- MCQueries
    Pages <- MCPages
SPECIFICATION Spec
INVARIANTS
    TypeOK
    TablesAgree
    SummaryExact
    SummaryOrdered
    OrderKept
    DeadlockNeedsBatch
PROPERTY CountedOnceOrLost
