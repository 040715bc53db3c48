SPECIFICATION Spec
CONSTANTS
  Claims = {c1, c2}
  Commitments = {m1, m2}
  OpenLoops = {l1, l2}
  CommitmentKeys = {k1}
  Null = Null
  PassBatch = 1
  MaxTime = 1
  MaxVersion = 1
INVARIANT
  CurrentIsCorrectable
CHECK_DEADLOCK FALSE
