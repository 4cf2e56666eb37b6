CONSTANTS
  G = G
  A1 = A1
  A2 = A2
  B1 = B1
  B2 = B2
  B3 = B3
  Block = {G, A1, A2, B1, B2}
  Genesis = G
  Parent <- MCParent
  Null = Null
  FirstTip = A1
  MaxTipChanges = 2
  MaxFlushes = 0
  MaxRestarts = 0
  MayFail = {}
SPECIFICATION Spec
INVARIANT RewindFromBest
