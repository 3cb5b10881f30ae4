SPECIFICATION WorldLedgers
CONSTANTS
  p1 = p1
  p2 = p2
  t1 = t1
  t2 = t2
  t3 = t3
  None = None
  Principals <- MCPrincipals
  Tokens <- MCTokens
  MaxTick = 2
  MaxDecisionSequence = 3
  MaxEntropyDraws = 2
  MaxRecoveries = 1
  Principal <- MCPrincipals
  MaxEntries = 2
  Capacity = 4
  MaxBatch = 2
  MaxAction = 4
  MaxRestores = 1
  Surfaces <- MCSurfaces
  Authorings <- MCAuthorings
  Bindings <- MCBindings
  Worlds = {1, 2}
  DecisionRun = 1
  Moods <- MCMoods
  LastVersion = 1
  RawSchemas <- MCSchemas
  Inputs <- MCInputs
  KeyOrder <- MCKeys
  JsonNodes = 24
  JsonUnits = 32
  JsonDepth = 6
  JsonString = 16
INVARIANTS
  ActiveIndexExact
  ReservationCurrent
  SnapshotFaithful
  RetainedExact
  Gapless
  SurfaceExact
CHECK_DEADLOCK FALSE
SYMMETRY MCSymmetry
