SPECIFICATION Spec
CONSTANTS
  weapon = weapon
  lamp = lamp
  lantern = lantern
  torch = torch
  statue = statue
  rug = rug
  vase = vase
  gun = gun
  a1 = a1
  a2 = a2
  g1 = g1
  g2 = g2
  None = None
  Names <- MCNames
  Assets <- MCAssets
  Procedural <- MCProcedural
  Match <- MCMatch
  CatalogAsset <- MCCatalogAsset
  Base = {}
  Weapon = weapon
  Unsafe = {}
  Answers <- MCAnswers
  MaxRequests = 4
  CallLimit = 2
  MaxSpecRepairs = 1
  MaxCalls = 10
  MaxAssetCalls = 2
  MaxProcedural = 3
  MaxFailed = 1
  MaxVisible = 2
  MaxPasses = 4
  CoreStep = 2
INVARIANTS
  TypeOK
  RequiredAccounted
  GenerationIsBounded
