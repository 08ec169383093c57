SPECIFICATION RotationSpec
CONSTANTS
  MaxAges = {2}
  Zones = {"west"}
  MaxDay = 3
  MaxBack = 0
  MaxLines = 2
  MaxBreaks = 1
CHECK_DEADLOCK FALSE
INVARIANT ArchivesKeptFullAge
