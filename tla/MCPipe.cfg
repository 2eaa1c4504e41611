CONSTANTS
    r1 = r1
    w1 = w1
    w2 = w2
    Reader = {r1}
    Writer = {w1, w2}
    Byte = {0, 1}
    PIPESIZE = 2
    UINT = 4
    MaxN <- MCMaxN
    MayKill = {r1, w1}
    None = None
SPECIFICATION FairSpec
INVARIANTS
    PageFreed
    SleepersWait
PROPERTIES
    FifoSpec
    CallsReturn
