SPECIFICATION FairSpec
CONSTANTS
    Workers = {w1}
    Synch = {s1}
    Callers = {k1, k2}
    NoCaller = NoCaller
    Size = 2
    QueueCap = 2
    Kinds = {"stmt", "query", "holder", "trans", "empty"}
    Errors = {"deadlock", "other", "lost"}
    MaxFaults = 2
    MaxOps = 2
INVARIANTS
    Truthful
    NoStrayTransaction
    InOrder
    NoUseAfterClose
PROPERTIES
    WholeOperations
    QueuedEnds
    LocksReleased
    CloseEnds
