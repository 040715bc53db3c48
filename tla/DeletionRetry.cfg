SPECIFICATION Spec
CONSTANTS
  Conversations = {c1, c2}
  None = None
  Items = {}
  Deletes = {"with", "retry"}
  ModeOf <- MCModeOf
  KeyOf <- MCKeyOf
  Turns = {t1}
  MaxCrashes = 0
  MaxFaults = 1
  MaxBootFaults = 0
CHECK_DEADLOCK FALSE
PROPERTIES
  OriginalIntentDriven
