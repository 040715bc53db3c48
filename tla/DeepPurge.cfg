SPECIFICATION PurgeSpec
CONSTANTS
  Threads = {P, Q}
  None = None
  MaxProposals = 2
  MaxRecords = 2
  MaxPurges = 2
CHECK_DEADLOCK FALSE
SYMMETRY Symmetry
INVARIANTS
  PurgeIsWhole
  RefusedOnlyByForeigners
PROPERTIES
  MeaningOfOthersStays
