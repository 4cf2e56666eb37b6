CONSTANTS
  G = G
  A1 = A1
  A2 = A2
  B1 = B1
  B2 = B2
  B3 = B3
  B4 = B4
  C2 = C2
  Block = {G, A1, B1, B2, C2}
  Genesis = G
  Parent <- MCParent
  Work <- MCWork
  CtxInvalid = {A1}
  ConnectInvalid = {C2}
  Addresses <- MCAddresses
  Thread = {t1, t2}
  Null = Null
  ConnectBatch = 32
  MinBlocksToKeep = 1
  MinimumChainWork = 2
  Commands = {"invalidateblock", "reconsiderblock"}
  MaxCommands = 3
  MaxRestarts = 0
SPECIFICATION Spec
SYMMETRY MCSymmetry
INVARIANTS
  FailedBlocksMarked
  ActiveChainValid
  MostWorkUsable
