------------------------------- MODULE UtxoSet -------------------------------
(***************************************************************************)
(* What the stack of coins views promises to the rest of the node: a map   *)
(* from outpoints to unspent coins together with the hash of the block it  *)
(* is the state of, and one scratch view on top of it that is either       *)
(* committed as a whole or thrown away.  Caching, flags and flushing are   *)
(* invisible here.                                                         *)
(***************************************************************************)
CONSTANTS Outpoint,   \* outpoints (txid, index)
          Coin,       \* unspent coins
          Spent,      \* the null coin: absent or spent
          Hash,       \* block hashes
          NullHash    \* uint256(), no block

VARIABLES utxo,       \* the coins of the chain tip
          best,       \* the block utxo is the state of
          scratch,    \* the coins of the scratch view (utxo while closed)
          scratchBest,
          open        \* does a scratch view exist?

avars == <<utxo, best, scratch, scratchBest, open>>

AInit == /\ utxo \in [Outpoint -> Coin \cup {Spent}]
         /\ best \in Hash \cup {NullHash}
         /\ scratch = utxo
         /\ scratchBest = best
         /\ open = FALSE

Open == /\ ~open
        /\ open' = TRUE
        /\ UNCHANGED <<utxo, best, scratch, scratchBest>>

\* A write goes to the scratch view while one is open, else to the tip view.
Put(o, c) == /\ scratch' = [scratch EXCEPT ![o] = c]
             /\ utxo' = IF open THEN utxo ELSE scratch'
             /\ UNCHANGED <<best, scratchBest, open>>

SetBest(h) == /\ scratchBest' = h
              /\ best' = IF open THEN best ELSE h
              /\ UNCHANGED <<utxo, scratch, open>>

\* The coins and the block they belong to become visible in one step.
Commit == /\ open
          /\ utxo' = scratch
          /\ best' = scratchBest
          /\ UNCHANGED <<scratch, scratchBest, open>>

Discard == /\ open
           /\ open' = FALSE
           /\ scratch' = utxo
           /\ scratchBest' = best
           /\ UNCHANGED <<utxo, best>>

ANext == \/ Open \/ Commit \/ Discard
         \/ \E o \in Outpoint, c \in Coin \cup {Spent} : Put(o, c)
         \/ \E h \in Hash : SetBest(h)

ASpec == AInit /\ [][ANext]_avars
=============================================================================
