SPECIFICATION CeremonySpec
CONSTANTS
  Claims = {}
  Commitments = {m1, m2}
  OpenLoops = {}
  CommitmentKeys = {k1}
  Null = Null
  PassBatch = 1
  MaxTime = 0
  MaxVersion = 1
  Proposals = {p1, p2}
  Turns = {t1, t2}
  Requests = {r1, r2}
  Keys = {a, b}
SYMMETRY Symmetry
CONSTRAINTS
  FewChanges
  OneTurnOrOneKey
INVARIANTS
  ConfirmedMadeOneRecord
  AmendmentsReplace
  AnswersAreTrue
  ChallengesAreTruthful
PROPERTIES
  JudgmentsAreFinal
CHECK_DEADLOCK FALSE
