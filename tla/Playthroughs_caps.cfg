SPECIFICATION Spec
CONSTANTS
  p1 = p1
  p2 = p2
  p3 = p3
  w1 = w1
  w2 = w2
  guilty = guilty
  innocent = innocent
  None = None
  Ids <- MCIds3
  Versions = {1}
  Charges = {guilty}
  Candidates <- OneCandidate
  Workers <- MCWorkers
  Stores = {"app"}
  StoreOf <- OneStore
  MaxActive = 1
  MaxRetained = 2
  TokenTTL = 1
  MaxTime = 2
SYMMETRY IdSymmetry
INVARIANT WithinBothCaps
PROPERTIES OnlyOldestCompletedPruned ImplementsContract
CHECK_DEADLOCK FALSE
