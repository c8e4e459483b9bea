SPECIFICATION DrawerSpec
CONSTANTS
  Entries = {"je"}
  MaxTicks = 1
  MaxSaves = 1
  MaxMarks = 0
  MaxGets = 1
INVARIANT OpeningFlipsNothing
CHECK_DEADLOCK FALSE
