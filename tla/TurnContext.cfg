SPECIFICATION CallSpec
CONSTANTS
  Turns = {1, 2}
  Calls = {1, 2}
  Records = {"here", "elsewhere"}
  Here = {"here"}
  Null = Null
  MaxRevision = 2
  MaxVersion = 2
  MaxFaults = 1
  MaxParts = 2
  Bypass = TRUE
CONSTRAINTS
  InOrder
  FewChanges
  SilentTogether
INVARIANTS
  MemoryKeepsToAdmission
  InjectedIsRight
  StreamsAreHonest
PROPERTIES
  FirstRecordStands
  EveryCallEnds
CHECK_DEADLOCK FALSE
