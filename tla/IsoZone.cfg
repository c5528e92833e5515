SPECIFICATION FairSpec
CONSTANTS
  NCells = 5
  Iso = 1
  PageSize = 2
  Request <- Wrappers
  Client = {c1, c2}
  None = None
INVARIANTS
  IsoInv
  ScanReadsAllocated
  AskedFits
  MemoryAccounted
PROPERTIES
  DetectorSpec
  OverflowReported
  ExitEnds
