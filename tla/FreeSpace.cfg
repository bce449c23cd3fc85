CONSTANTS
  Base = 8
  Sizes = {13, 25, 38}
  Header = 12
  Slack = 24
  Disk = 112
  NoBlock = NoBlock
  MaxRecords = 3
  MaxCrashes = 1
  MaxMapFails = 1
SPECIFICATION Spec
INVARIANTS NoOverlap InFile SpaceAccounted PointersFresh
