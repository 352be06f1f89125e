SPECIFICATION Spec
CONSTANTS
    u1 = u1  u2 = u2  t1 = t1  t2 = t2  h1 = h1  h2 = h2
    Users = {u1, u2}
    Tokens = {t1, t2}
    Handlers = {h1}
    Seeds <- Two
    Wants <- OffOrUser
    TTL = 1
    RenewBefore = 0
    MaxClock = 3
    MaxDay = 0
    None = None
PROPERTIES ConfirmedChangeHolds
CHECK_DEADLOCK FALSE
