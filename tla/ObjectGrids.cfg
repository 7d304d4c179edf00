SPECIFICATION FairSpec
CONSTANTS
    NumGrids = 2
    CellsPerGrid = 1
    Sight = 0
    Expiry = 2
    ShortExpiry = 1
    c1 = c1
    c2 = c2
    s = s
    p = p
    Creatures = {c1, c2}
    Summons = {s}
    Pets = {p}
    home <- MCHome
    Eager = {}
    MaxMoves = 1
INVARIANTS
    NothingLeftBehind
    SpawnsPresent
PROPERTIES
    GridsExpire
