SPECIFICATION FairSpec
CONSTANTS
  Conversations = {c1, c2}
  None = None
  Items = {i1, i2}
  Deletes = {"with", "retry", "only"}
  ModeOf <- MCModeOf
  KeyOf <- MCKeyOf
  Turns = {t1}
  MaxCrashes = 1
  MaxFaults = 1
  MaxBootFaults = 1
CHECK_DEADLOCK FALSE
CONSTRAINT FewAtOnce
INVARIANTS
  CompletedIsTruthful
  ScopeNeverBroadened
  TranscriptStaysDeleted
PROPERTIES
  PromiseKept
  DeletionsEnd
