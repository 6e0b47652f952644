SPECIFICATION Spec
CONSTANTS
  t1 = t1
  t2 = t2
  p1 = p1
  p2 = p2
  l1 = l1
  l2 = l2
  w1 = w1
  w2 = w2
  None = None
  Truths <- MCTruths
  People <- MCPeople
  Logs <- MCLogs
  Weapons <- MCWeapons
  LogsOf <- MCLogsOf
  WeaponOf <- MCWeaponOf
  Unfit <- MCUnfit
  LogRetries = 1
  MaxRepairs = 2
  MaxRegenerations = 1
INVARIANTS
  TypeOK
  DraftPartsFit
  NeverStarved
PROPERTY TruthIsKept
