SPECIFICATION FairSpec
CONSTANTS
    NumGrids = 2
    CellsPerGrid = 2
    Sight = 0
    Expiry = 2
    ShortExpiry = 1
    c1 = c1
    c2 = c2
    s = s
    p = p
    Creatures = {c1}
    Summons = {}
    Pets = {}
    home <- MCHome
    Eager = {c1}
    MaxMoves = 1
PROPERTIES
    GridsExpire
