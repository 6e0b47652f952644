SPECIFICATION SpecInvestigation
CONSTANTS
  p1 = p1
  w1 = w1
  w2 = w2
  guilty = guilty
  knife = knife
  letter = letter
  study = study
  garden = garden
  None = None
  Ids = {p1}
  Versions = {1}
  Charges = {guilty}
  Candidates <- OneCandidate
  Workers <- MCWorkers
  Stores = {"app"}
  StoreOf <- OneStore
  MaxActive = 1
  MaxRetained = 1
  TokenTTL = 2
  MaxTime = 1
  Subjects <- AllOperations
  Evidence <- MCEvidence
  Locations <- MCLocations
  Objects <- MCObjects
  Linked <- MCLinked
  PlacedAt <- MCPlacedAt
  LocationsOf <- MCLocationsOf
  Questions <- MCQuestions
  Grounding <- MCGrounding
SYMMETRY ThreadSymmetry
INVARIANTS TypeOKInvestigation KnowledgeIsGrounded AnswersStand
PROPERTY KeepsLifecycle
CHECK_DEADLOCK FALSE
