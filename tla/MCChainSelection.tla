-------------------------- MODULE MCChainSelection --------------------------
\* Two branches from the genesis block, the second of which forks again; a
\* configuration uses the part of this tree that is in Block.
EXTENDS ChainSelection, TLC

CONSTANTS G, A1, A2, B1, B2, B3, B4, C2

Tree8 == A1 :> G @@ A2 :> A1 @@ B1 :> G @@ B2 :> B1 @@ B3 :> B2 @@ B4 :> B3 @@ C2 :> B1
Work8 == G :> 1 @@ A1 :> 2 @@ A2 :> 3 @@ B1 :> 2 @@ B2 :> 3 @@ B3 :> 4 @@ B4 :> 5 @@ C2 :> 3
Place == G :> 1 @@ A1 :> 2 @@ A2 :> 3 @@ B1 :> 4 @@ B2 :> 5 @@ B3 :> 6 @@ B4 :> 7 @@ C2 :> 8

MCParent == [b \in Block \ {G} |-> Tree8[b]]
MCWork == [b \in Block |-> Work8[b]]
\* The index entries lie in memory in one order, or in the opposite one.
MCAddresses == {[b \in Block |-> Place[b]], [b \in Block |-> 9 - Place[b]]}
\* The threads run the same code.
MCSymmetry == Permutations(Thread)
=============================================================================
