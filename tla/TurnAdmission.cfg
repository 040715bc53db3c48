SPECIFICATION FairSpec
CONSTANTS
  Conversations = {"c1", "c2"}
  Keys = {"k1", "k2"}
  Requests = {"first", "retry", "edited", "distinct", "elsewhere"}
  ConvOf <- MCConvOf
  KeyOf <- MCKeyOf
  InputOf <- MCInputOf
  MaxCrashes = 1
INVARIANTS
  AnswersAreTrue
PROPERTIES
  RetryNotRefused
  PromiseKept
  NothingIsStuck
CHECK_DEADLOCK FALSE
