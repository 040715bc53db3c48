SPECIFICATION Spec
CONSTANTS
  Claims = {c1, c2, c3}
  Commitments = {m1, m2, m3}
  OpenLoops = {l1, l2}
  CommitmentKeys = {k1, k2}
  Null = Null
  PassBatch = 1
  MaxTime = 2
  MaxVersion = 3
SYMMETRY Symmetry
CONSTRAINT ClaimsAlone
INVARIANTS
  IInv
PROPERTIES
  NothingComesBack
  ChangesAreVersioned
  EarliestDeadlinesFirst
  KeyHeldUntilReleased
  NoGhostDerivative
CHECK_DEADLOCK FALSE
