----------------------------- MODULE MCBaseIndex -----------------------------
\* A chain of the genesis block and two more, and a branch of three that
\* forks from the genesis block.
EXTENDS BaseIndex, TLC

CONSTANTS G, A1, A2, B1, B2, B3

Tree == A1 :> G @@ A2 :> A1 @@ B1 :> G @@ B2 :> B1 @@ B3 :> B2
MCParent == [b \in Block \ {G} |-> Tree[b]]
=============================================================================
