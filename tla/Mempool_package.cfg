SPECIFICATION Spec
CONSTANTS
  t1 = t1
  t2 = t2
  t3 = t3
  t4 = t4
  t5 = t5
  t6 = t6
  t7 = t7
  t8 = t8
  c1 = c1
  o1 = o1
  o2 = o2
  o3 = o3
  o4 = o4
  o5 = o5
  o6 = o6
  Tx = {t1, t2, t3, t4, t5, t6, t7, t8}
  Outpoint = {c1, o1, o2, o3, o4, o5, o6}
  vin <- MCvin
  Outputs <- MCOutputs
  Size <- MCSize
  Fee <- MCFee
  AncestorCount = 4
  AncestorSize = 132
  DescendantCount = 4
  DescendantSize = 132
  ExtraDescendantSize = 16
  Packages <- MCPackage
  MaxEntries = 5
  MaxDisconnected = 4
  HeightBound = {t3}
  Delta <- MCDelta
  MaxDelta = 256
  MaxHeight = 3
  MaxBlockTx = 3
  NoEntry = NoEntry
  NoTx = NoTx
INVARIANT PackageWithinLimits
