CONSTANTS
    c1 = c1
    c2 = c2
    ide_lock = ide_lock
    proc_table_lock = proc_table_lock
    CPU = {c1, c2}
    Lock = {ide_lock, proc_table_lock}
    Rank <- MCRank
    NoLock = NoLock
    NoCPU = NoCPU
    MaxNest = 1
SPECIFICATION Spec
INVARIANTS
    MutualExclusion
    NoInterruptWhileHolding
    NoPanic
    CliMatched
