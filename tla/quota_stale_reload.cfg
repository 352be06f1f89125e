SPECIFICATION Spec
CONSTANTS
    b1 = b1  b2 = b2  r1 = r1  r2 = r2  r3 = r3  a1 = a1  a2 = a2
    Replicas = {b1}
    Requests = {r1}
    Admins = {a1, a2}
    NoReplica = NoReplica
    Grants <- BackedGrants
    MaxCost = 1
    MaxMicro = 2
    MaxAnchor = 1
    MaxAge = 0
INVARIANTS SnapshotCurrent
CHECK_DEADLOCK FALSE
