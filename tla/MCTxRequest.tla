---------------------------- MODULE MCTxRequest ----------------------------
\* Three peers that announce two transactions.  The peers' ranks differ between
\* the transactions, so that the same peers win one and lose the other.
EXTENDS TxRequest, TLC

CONSTANTS p1, p2, p3, t1, t2

MCRank == t1 :> (p1 :> 0 @@ p2 :> 1 @@ p3 :> 2) @@ t2 :> (p1 :> 2 @@ p2 :> 1 @@ p3 :> 0)
MCPreference == p1 :> {TRUE} @@ p2 :> {FALSE} @@ p3 :> {FALSE}
MCTime == 0 .. 1
=============================================================================
