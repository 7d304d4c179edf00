SPECIFICATION Spec
CONSTANTS
    a = a
    b = b
    c = c
    g = g
    a1 = a1
    a2 = a2
    b1 = b1
    c1 = c1
    g1 = g1
    Accounts = {a, b, c}
    Staff = {}
    Sessions = {a1, a2, b1, c1}
    Players = {a1, a2, b1}
    AccountOf <- MCAccountOf
    Kickable = {a1, a2, b1, c1}
    NoSession = NoSession
    Limits = {1}
    Tolerance = FALSE
    ExpireTime = 2
    MaxDiff = 2
INVARIANTS
    QueueSound
    OnePlayerPerAccount
    PositionsShown
    NoIdleSlot
    ShutdownLeavesNoPlayer
PROPERTIES
    FirstComeFirstServed
