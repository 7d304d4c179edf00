SPECIFICATION FairSpec
CONSTANTS
    a = a
    b = b
    c = c
    g = g
    a1 = a1
    a2 = a2
    b1 = b1
    c1 = c1
    g1 = g1
    Accounts = {a, b, g}
    Staff = {a}
    Sessions = {a1, a2, b1, g1}
    Players = {}
    AccountOf <- MCAccountOf
    Kickable = {}
    NoSession = NoSession
    Limits = {0, 1}
    Tolerance = TRUE
    ExpireTime = 2
    MaxDiff = 2
PROPERTIES
    AdmissionRespectsLimit
    SessionsExpire
