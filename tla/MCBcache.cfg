CONSTANTS
    p1 = p1
    p2 = p2
    Proc = {p1, p2}
    NBUF = 2
    Sector = {0, 1, 2}
    Indirect = {1, 2}
    Bad = {0}
    Value = {0, 1}
    Nobody = Nobody
    Lost = Lost
SPECIFICATION FairSpec
INVARIANTS
    SleeperHasHolder
    OnlyBgetPanics
PROPERTIES
    StoreSpec
    RequestsFinish
