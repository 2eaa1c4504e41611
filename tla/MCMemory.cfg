CONSTANTS
  NPAGES = 6
  Proc = {1,2,3}
  ExecSizes = {2}
  MaxPipes = 2
  UPP = 4
  MaxUnits = 20
  NALLOC = 4
  Requests = {2,3}
SPECIFICATION Spec
INVARIANTS
  PagesOwnedOnce
  FreeListCombined
  MemoryKept
  HeapPartitioned
PROPERTIES
  HeapCallsReturn
