SPECIFICATION Spec
CONSTANTS
  Requests = {q1, q2, q3}
  Keys = {k1, k2, k3}
  Ids = {i1, i2, i3}
  Titles = {old, new}
  StableId <- MCStableId
  Asks <- MCAsks
  Null = Null
  Malformed = Malformed
  k1 = k1
  k2 = k2
  k3 = k3
  i1 = i1
  i2 = i2
  i3 = i3
  old = old
  new = new
SYMMETRY Interchangeable
INVARIANTS
  AnswersAreTrue
PROPERTIES
  RemovedStaysRemoved
