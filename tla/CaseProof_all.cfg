CONSTANTS
  anna = anna  boris = boris  victor = victor
  greed = greed  envy = envy  spite = spite
  knife = knife  rope = rope  vase = vase
  hall = hall  attic = attic  scene = scene
  Suspects = {anna}
  Witnesses = {boris}
  Victim = victor
  Motives = {greed, envy, spite}
  Candidates = {greed, envy}
  Objects = {knife, rope, vase}
  Weapons = {knife, rope}
  Sharp = {knife, "saw"}
  Scene = scene
  Normal <- MCNormal
  PlaceOrder <- MCPlaceOrder
  TimeMin <- MCTimeMin
  TimeMax = 8
  Timeline <- MCTimeline
  MinOpportunity = 6
  DefaultDistant = 9
  Answers <- MCAnswers
  Repaired <- MCRepaired
  Crimes <- MCCrimes
  Roads <- MCRoads
  Flaws = {"none", "universe", "locked"}
SPECIFICATION Spec
INVARIANTS
  TypeOK
  SolverIsExact
  CitedEvidenceSuffices
  ValidMeansSolved
  CompletionCloses
CHECK_DEADLOCK FALSE
