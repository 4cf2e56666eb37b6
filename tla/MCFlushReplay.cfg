CONSTANTS
  G = G
  A1 = A1
  A2 = A2
  B1 = B1
  B2 = B2
  x = x
  y = y
  z = z
  Block = {G, A1, A2, B1, B2}
  Genesis = G
  Parent <- MCParent
  Outpoint = {x, y, z}
  Vtx <- MCVtx
  Spent = Spent
  Null = Null
  BlocksPerFile = 5
  PowerLoss = TRUE
  MaxCrashes = 2
SPECIFICATION Spec
INVARIANTS
  TypeOK
  RecoveryNeverFails
  TipCoinsExact
  MarkersTruthful
  IndexCoversCoins
PROPERTY Recovers
