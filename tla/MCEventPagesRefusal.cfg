SPECIFICATION PagesSpec
CONSTANTS
  Writers = {w1, w2}
  AppendLimit = 3
  StartupLimit = 2
  BatchSize = 2
  ByteChoices = {FALSE}
  MaxImport = 2
  MaxCursor = 6
  MaxTime = 2
  PageSizes = {1, 2, 5}
SYMMETRY WriterSymmetry
INVARIANTS
  AppendNeverRefused
