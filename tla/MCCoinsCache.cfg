CONSTANTS
  o1 = o1
  o2 = o2
  c1 = c1
  c2 = c2
  burn = burn
  Outpoint = {o1, o2}
  Coin = {c1, c2, burn}
  Unspendable = {burn}
  Spent = Spent
  NoEntry = NoEntry
  Hash = {h1}
  NullHash = NullHash
  ScriptUsage <- MCScriptUsage
SPECIFICATION Spec
INVARIANTS
  TypeOK
  FreshSound
  CleanSound
  SanityCheck
  UsageExact
PROPERTY RefinesUtxoSet

