---------------------------- MODULE MCCoinsCache ----------------------------
\* Two outpoints and two spendable coin values, so that a coin can be spent
\* and another one added at its outpoint, and one unspendable coin.
EXTENDS CoinsCache, TLC

CONSTANTS o1, o2, c1, c2, burn

MCScriptUsage == c1 :> 1 @@ c2 :> 3 @@ burn :> 2
=============================================================================
