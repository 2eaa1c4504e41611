CONSTANTS
    NPROC = 3
    NCPU = 2
    MaxPid = 4
    MaxSleep = 1
    MemFails = TRUE
SPECIFICATION FairSpec
INVARIANTS
    ParentAlive
    MemoryAccounted
PROPERTIES
    KilledExits
    ZombieReaped
