---------------------------- MODULE MCFlushReplay ----------------------------
\* Two branches from the genesis block.  The transaction that creates x is in
\* both, so that x is a different coin in each; B2 spends an output created
\* earlier in the same block; A2 and B2 spend x.
EXTENDS FlushReplay

CONSTANTS G, A1, A2, B1, B2, x, y, z

Tx(in, out) == [in |-> in, out |-> out]

MCParent == A1 :> G @@ B1 :> G @@ A2 :> A1 @@ B2 :> B1
MCVtx == G  :> <<Tx({}, {y})>>
      @@ A1 :> <<Tx({}, {x})>>
      @@ B1 :> <<Tx({}, {x})>>
      @@ A2 :> <<Tx({}, {z}), Tx({x}, {y})>>
      @@ B2 :> <<Tx({x}, {z}), Tx({z}, {y})>>
=============================================================================
