SPECIFICATION PagesSpec
CONSTANTS
  Writers = {w1, w2}
  AppendLimit = 3
  StartupLimit = 2
  BatchSize = 2
  ByteChoices = {TRUE, FALSE}
  MaxImport = 2
  MaxCursor = 5
  MaxTime = 2
  PageSizes = {1, 2, 5}
SYMMETRY WriterSymmetry
INVARIANTS
  RevisionNamesOneState
  PagesReadableWithoutDisconnect
PROPERTIES
  CursorNeverReused
  DroppedHistoryIsMarked
