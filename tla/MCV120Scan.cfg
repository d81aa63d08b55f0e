SPECIFICATION FairSpec
CONSTANTS
  NumCrates = 2
  Known = {"v210", "v545"}
  Foreign = {"other"}
  Spacing <- MCSpacing
  Base <- MCBase
  Length <- MCLen
  Scanned = {1, 2}
  MaxCards = 2
  Chassis <- MCChassis
INVARIANTS
  FindsEveryBoard
  NamesAreUnique
  LinesAreTrue
  OverrunNeedsBoards
PROPERTY ScanEnds
\* The program exits when the file is written.
CHECK_DEADLOCK FALSE
