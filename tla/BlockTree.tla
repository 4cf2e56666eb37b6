----------------------------- MODULE BlockTree -----------------------------
(***************************************************************************)
(* The tree of blocks (CBlockIndex, chain.h) that the chain, the block     *)
(* files and the indexes are about: pprev leads from every block to the    *)
(* genesis block.                                                          *)
(***************************************************************************)
EXTENDS Integers, Sequences, FiniteSetsExt

CONSTANTS Block, Genesis,
          Parent           \* pprev, for every block but Genesis

\* p leads from every node of N to r.
Rooted(N, r, p) ==
    /\ r \in N
    /\ p \in [N \ {r} -> N]
    /\ \A S \in SUBSET N :
          r \in S /\ (\A b \in N \ {r} : p[b] \in S => b \in S) => S = N

\* A header is accepted only if the one before it is in the index.
ASSUME BlockTreeRooted == Rooted(Block, Genesis, Parent)

\* nHeight.
Height[b \in Block] == IF b = Genesis THEN 0 ELSE Height[Parent[b]] + 1

\* The block and its ancestors, in order and as a set.
Path[b \in Block] == IF b = Genesis THEN <<b>> ELSE Append(Path[Parent[b]], b)
Chain[b \in Block] == IF b = Genesis THEN {b} ELSE Chain[Parent[b]] \cup {b}

\* LastCommonAncestor, CChain::FindFork: the height where two chains part.
ForkHeight(a, b) ==
    Max({h \in 0 .. Height[a] : h <= Height[b] /\ Path[a][h + 1] = Path[b][h + 1]})
=============================================================================
