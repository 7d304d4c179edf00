SPECIFICATION Spec
CONSTANTS
    p1 = p1
    p2 = p2
    k = k
    h = h
    k1 = k1
    k2 = k2
    k3 = k3
    h1 = h1
    h2 = h2
    c = c
    Players = {p1, p2}
    Items = {k1, k2, k3, h1, h2, c}
    NoItem = NoItem
    Nowhere = Nowhere
    Unmade = Unmade
    Spells = {s}
    NoSpell = NoSpell
    TradedCount = 2
    MAX_MONEY_AMOUNT = 1
    Room <- MCRoom
    KindOf <- MCKindOf
    Limit <- MCLimit
    AllowedGUIDs <- MCAllowed
    InitialState <- MCState
    AccountBound = {h}
    InitialPlace <- MCPlace
    Amounts = {0, 1}
    MaxTrades = 1
    MaxEvents = 1
SYMMETRY Symmetry
INVARIANTS
    Mutual
    AcceptedTermsStand
PROPERTIES
    ExchangeComplete
    MoneyKept
