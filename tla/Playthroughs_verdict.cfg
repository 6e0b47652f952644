SPECIFICATION FairSpec
CONSTANTS
  p1 = p1
  p2 = p2
  p3 = p3
  w1 = w1
  w2 = w2
  guilty = guilty
  innocent = innocent
  None = None
  Ids <- MCIds2
  Versions = {1, 2}
  Charges <- MCCharges
  Candidates <- TwoVersionsCandidates
  Workers <- MCWorkers
  Stores = {"app"}
  StoreOf <- OneStore
  MaxActive = 1
  MaxRetained = 2
  TokenTTL = 1
  MaxTime = 1
INVARIANTS VerdictsAgree TruthAfterVerdict
PROPERTY RequestsEnd
CHECK_DEADLOCK FALSE
