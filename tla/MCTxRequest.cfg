SPECIFICATION Spec
CONSTANTS
  p1 = p1
  p2 = p2
  p3 = p3
  t1 = t1
  t2 = t2
  Peer = {p1, p2, p3}
  TxHash = {t1, t2}
  Rank <- MCRank
  PreferredBit = 3
  Time <- MCTime
  MaxSize = 3
  Preference <- MCPreference
  Idle = Idle
INVARIANTS
  SanityCheck
PROPERTIES
  PostGetRequestableSanityCheck
  RefinesAnnouncements
