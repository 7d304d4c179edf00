SPECIFICATION Spec
CONSTANTS
    Workers = {w1}
    Synch = {s1}
    Callers = {k1}
    NoCaller = NoCaller
    Size = 2
    QueueCap = 1
    Kinds = {"trans"}
    Errors = {"lost"}
    MaxFaults = 1
    MaxOps = 1
PROPERTIES
    TransactionsAtomic
