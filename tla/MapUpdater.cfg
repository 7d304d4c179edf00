SPECIFICATION FairSpec
CONSTANTS
    World = World
    Workers = {w1, w2}
    plain = plain
    dungeon = dungeon
    i1 = i1
    i2 = i2
    BaseMaps <- MCBaseMaps
    Instances <- MCInstances
    ParentOf <- MCParentOf
    QueueCap = 1
    NoThread = NoThread
    NoMap = NoMap
INVARIANTS
    TypeOK
    BarrierHolds
    NoFinishBug
    RequestsReferToLiveMaps
    UpdatedOncePerTick
PROPERTIES
    ImplementsTick
    TickEnds
    ShutdownEnds
