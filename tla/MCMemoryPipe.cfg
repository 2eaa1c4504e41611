CONSTANTS
  NPAGES = 7
  Proc = {1,2}
  ExecSizes = {2}
  MaxPipes = 1
  UPP = 4
  MaxUnits = 24
  NALLOC = 4
  Requests = {2}
SPECIFICATION Spec
INVARIANTS
  FreesAllocated
