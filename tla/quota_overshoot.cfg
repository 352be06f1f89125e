SPECIFICATION Spec
CONSTANTS
    b1 = b1  b2 = b2  r1 = r1  r2 = r2  r3 = r3  a1 = a1  a2 = a2
    Replicas = {b1, b2}
    Requests = {r1, r2}
    Admins = {a1}
    NoReplica = NoReplica
    Grants <- MixedGrants
    MaxCost = 1
    MaxMicro = 4
    MaxAnchor = 1
    MaxAge = 1
SYMMETRY Symmetry
INVARIANTS OvershootBounded SnapshotCurrent
CHECK_DEADLOCK FALSE
