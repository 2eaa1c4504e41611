CONSTANTS
  BSIZE = 3
  NDIRECT = 1
  DIRSIZ = 2
  BPB = 24
  FSSIZE = 24
  NINODES = 10
  Zero = Zero
  Proc = {1, 2, 3}
  NOFILE = 3
  NFILE = 4
  NINODE = 5
  Image <- MCImage
  Workloads <- MCCreateDelete
SPECIFICATION Spec
INVARIANT
  TestsPass
