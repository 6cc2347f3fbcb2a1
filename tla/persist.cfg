SPECIFICATION Spec
CONSTANTS
  Modules <- TwoModules
  Created <- ShortOnly
  MAX_FILES = 3
  TableSectors = 2
  SectorUnits = 4
  NameUnits = 2
  DATA_START_SECTOR = 3
  CountRange = 4
  MaxSize = 4
  MaxSaves = 3
  MaxCalls = 3
CHECK_DEADLOCK FALSE
INVARIANTS SavedIsFound OwnSectors FirstSaveWhole
