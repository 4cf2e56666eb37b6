---------------------------- MODULE MCTxDownload ----------------------------
\* An honest peer that is not preferred announces two transactions, a preferred
\* one that need not answer announces one of them.
EXTENDS TxDownload, TLC

CONSTANTS h, s, t1, t2

MCRank == [t \in TxHash |-> h :> 0 @@ s :> 1]
MCOffers == [p \in Peer |-> IF p = h THEN TxHash ELSE {t1}]
MCTime == 0 .. 2
=============================================================================
