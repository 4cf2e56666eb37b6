SPECIFICATION Spec
CONSTANTS
  h = h
  s = s
  t1 = t1
  t2 = t2
  Peer = {h, s}
  TxHash = {t1, t2}
  Rank <- MCRank
  PreferredBit = 3
  Idle = Idle
  Time <- MCTime
  Honest = {h}
  Offers <- MCOffers
  Preferred = {s}
  MaxAnnouncements = 2
  MaxInFlight = 1
  NonPrefDelay = 1
  OverloadedDelay = 1
  GetDataInterval = 1
  MaxConnects = 1
  Nobody = Nobody
PROPERTIES
  Downloaded
  Forgotten
