SPECIFICATION ViewSpec
CONSTANTS
  Claims = {1, 2, 3}
  Commitments = {5}
  OpenLoops = {4}
  CommitmentKeys = {k1}
  Null = Null
  PassBatch = 1
  MaxTime = 1
  MaxVersion = 2
  Proposals = {6}
  SubjectOf <- MCSubject
  Here = Here
  There = There
  Threads = {Here, There}
  Turns = {t1}
  OriginOf <- MCOrigin
  KindOf <- MCKind
  ThreadOf <- MCThreadOf
  SizeOf <- MCSize
  Intact <- MCIntact
  ScanLimit = 2
  MaxRecords = 2
  MaxBytes = 4
  EvidenceLimit = 2
  Filters <- MCFilters
  MaxOffset = 1
  MaxLimit = 1
  MaxWrites = 4
CONSTRAINT Interesting
INVARIANTS
  ListsAreWhole
  CurrentAgrees
  ReplayIsCurrent
PROPERTIES
  SelectionIsSound
CHECK_DEADLOCK FALSE
