SPECIFICATION FairSpec
CONSTANTS
  NCells = 4
  Iso = 1
  PageSize = 2
  Request <- Wrappers
  Client = {c1, c2}
  None = None
INVARIANTS
  ZoneOfBlock
  RearInv
PROPERTIES
  DetectorSpec
  OverflowReported
