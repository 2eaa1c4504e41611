CONSTANTS
    c1 = c1
    c2 = c2
    CPU = {c1, c2}
    NPROC = 3
    None = None
    MaxFrames = 2
SPECIFICATION Spec
INVARIANTS
    OneCPUPerStack
    StackNotFreed
    NoPanic
    NoLostWakeup
PROPERTIES
    MonitorSpec
