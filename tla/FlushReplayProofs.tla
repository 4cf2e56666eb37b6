------------------------- MODULE FlushReplayProofs -------------------------
(***************************************************************************)
(* For any tree of blocks that connect, the coins that the node works with *)
(* are those of its tip, whatever crashes interrupt the flushes and the    *)
(* recoveries from earlier crashes.                                        *)
(*                                                                         *)
(* The first part is about the coins.  RollforwardBlock and                *)
(* DisconnectBlock change only the outpoints that the block touches, and   *)
(* what they leave there does not depend on what was there before; and     *)
(* DisconnectBlock takes back what RollforwardBlock did.  Hence a map of   *)
(* coins that holds, for every outpoint, the coin of a block c or that of  *)
(* a block new, can be taken from c to its parent, and from the parent of  *)
(* c to c, without losing that property: Mixed.  A half-written database   *)
(* is such a map, and when ReplayBlocks has gone down to the fork and up   *)
(* to new, nothing but the coins of new is left.                           *)
(*                                                                         *)
(* The second part is the inductive invariant of the specification.        *)
(***************************************************************************)
EXTENDS FlushReplay, TreeTheorems

\* The constants, as the proofs use them.
LEMMA TreeFacts ==
    /\ Genesis \in Block
    /\ \A b \in Block \ {Genesis} : Parent[b] \in Block
    /\ Spent \notin Block /\ Null \notin Block
    /\ \A b \in Block : /\ Len(Vtx[b]) \in Nat
                        /\ DOMAIN Vtx[b] = 1 .. Len(Vtx[b])
                        /\ \A i \in 1 .. Len(Vtx[b]) : /\ Vtx[b][i].in \subseteq Outpoint
                                                       /\ Vtx[b][i].out \subseteq Outpoint
<1>1. Genesis \in Block /\ \A b \in Block \ {Genesis} : Parent[b] \in Block
  BY BlockTreeRooted DEF Rooted
<1>2. Spent \notin Block /\ Null \notin Block
  BY FlushReplayConstants
<1>3. ASSUME NEW b \in Block
      PROVE  /\ Len(Vtx[b]) \in Nat
             /\ DOMAIN Vtx[b] = 1 .. Len(Vtx[b])
             /\ \A i \in 1 .. Len(Vtx[b]) : /\ Vtx[b][i].in \subseteq Outpoint
                                            /\ Vtx[b][i].out \subseteq Outpoint
  <2> DEFINE T == [in : SUBSET Outpoint, out : SUBSET Outpoint]
  <2>1. Vtx[b] \in Seq(T)
    BY FlushReplayConstants
  <2>2. /\ Len(Vtx[b]) \in Nat /\ DOMAIN Vtx[b] = 1 .. Len(Vtx[b])
        /\ \A i \in 1 .. Len(Vtx[b]) : Vtx[b][i] \in T
    <3> HIDE DEF T
    <3> QED BY <2>1
  <2> QED BY <2>2
<1> QED
  BY <1>1, <1>2, <1>3

\* A transaction leaves a map of coins.
LEMMA UpdateType ==
    ASSUME NEW b \in Block, NEW v \in View, NEW tx
    PROVE  UpdateCoins(b, v, tx) \in View
BY DEF UpdateCoins, View

\* The maps of coins that RollforwardBlock goes through.
LEMMA RolledFacts ==
    ASSUME NEW b \in Block, NEW v \in View
    PROVE  /\ RolledTxs(b, v) \in [0 .. Len(Vtx[b]) -> View]
           /\ RolledTxs(b, v)[0] = v
           /\ \A i \in 1 .. Len(Vtx[b]) :
                RolledTxs(b, v)[i] = UpdateCoins(b, RolledTxs(b, v)[i - 1], Vtx[b][i])
<1> DEFINE n == Len(Vtx[b])
           step == [i \in 1 .. n |-> [w \in View |-> UpdateCoins(b, w, Vtx[b][i])]]
           Eq(h) == h = [i \in 0 .. n |-> IF i = 0 THEN v ELSE UpdateCoins(b, h[i - 1], Vtx[b][i])]
<1>0. n \in Nat
  BY TreeFacts
<1>1. step \in [1 .. n -> [View -> View]]
  BY UpdateType
<1>2. \A i \in 1 .. n : \A w \in View : step[i][w] = UpdateCoins(b, w, Vtx[b][i])
  OBVIOUS
<1>3. RolledTxs(b, v) = CHOOSE h : Eq(h)
  BY DEF RolledTxs
<1> HIDE DEF step, n
<1>4. PICK g : Iterates(n, View, v, step, g)
  BY <1>0, <1>1, IntervalRecursion
<1>5. Eq(g)
  <2>1. /\ g = [i \in 0 .. n |-> g[i]] /\ g[0] = v
        /\ \A i \in 1 .. n : g[i] = step[i][g[i - 1]] /\ g[i - 1] \in View
    BY <1>0, <1>4 DEF Iterates
  <2>2. ASSUME NEW i \in 0 .. n
        PROVE  g[i] = IF i = 0 THEN v ELSE UpdateCoins(b, g[i - 1], Vtx[b][i])
    <3>1. CASE i = 0
      BY <3>1, <2>1
    <3>2. CASE i # 0
      <4>1. i \in 1 .. n
        BY <1>0, <3>2
      <4>2. g[i] = step[i][g[i - 1]] /\ g[i - 1] \in View
        BY <4>1, <2>1
      <4>3. step[i][g[i - 1]] = UpdateCoins(b, g[i - 1], Vtx[b][i])
        BY <4>1, <4>2, <1>2
      <4> QED BY <3>2, <4>2, <4>3
    <3> QED BY <3>1, <3>2
  <2> QED BY <2>1, <2>2
<1>6. Eq(RolledTxs(b, v))
  BY <1>3, <1>5
<1> DEFINE R == RolledTxs(b, v)
<1> HIDE DEF R
<1>7. /\ R = [i \in 0 .. n |-> R[i]] /\ R[0] = v
      /\ \A i \in 1 .. n : R[i] = UpdateCoins(b, R[i - 1], Vtx[b][i])
  BY <1>0, <1>6 DEF R
<1>8. \A i \in 0 .. n : R[i] \in View
  <2> DEFINE S == {i \in 0 .. n : R[i] \in View}
  <2>1. 0 \in S
    BY <1>0, <1>7
  <2>2. \A i \in 1 .. n : i - 1 \in S => i \in S
    BY <1>0, <1>7, UpdateType
  <2> HIDE DEF S
  <2>3. \A i \in 0 .. n : i \in S
    BY <1>0, <2>1, <2>2, IntervalInduction
  <2> QED BY <2>3 DEF S
<1> QED
  BY <1>7, <1>8 DEF R, n

\* RollforwardBlock leaves a map of coins.
LEMMA RollType ==
    ASSUME NEW b \in Block, NEW v \in View
    PROVE  RollforwardBlock(b, v) \in View
BY RolledFacts, TreeFacts DEF RollforwardBlock

\* The outpoints that the transactions k to m of b spend or create.
TouchedBy(b, k, m) == {o \in Outpoint : \E i \in k .. m : o \in Vtx[b][i].in \cup Vtx[b][i].out}
Touched(b) == TouchedBy(b, 1, Len(Vtx[b]))

\* RollforwardBlock changes only what the block touches, ...
LEMMA RollLocal ==
    ASSUME NEW b \in Block, NEW v \in View, NEW o \in Outpoint, o \notin Touched(b)
    PROVE  RollforwardBlock(b, v)[o] = v[o]
<1> DEFINE R == RolledTxs(b, v)
           n == Len(Vtx[b])
           S == {i \in 0 .. n : R[i][o] = v[o]}
<1>0. n \in Nat
  BY TreeFacts
<1>1. 0 \in S
  BY <1>0, RolledFacts
<1>2. ASSUME NEW i \in 1 .. n, i - 1 \in S PROVE i \in S
  <2>1. o \notin Vtx[b][i].in /\ o \notin Vtx[b][i].out
    BY DEF Touched, TouchedBy
  <2>2. R[i] = UpdateCoins(b, R[i - 1], Vtx[b][i])
    BY RolledFacts
  <2>3. R[i][o] = R[i - 1][o]
    BY <2>1, <2>2 DEF UpdateCoins
  <2> QED BY <1>2, <2>3
<1>3. n \in S
  <2> HIDE DEF S, n
  <2>1. \A i \in 0 .. n : i \in S
    BY <1>0, <1>1, <1>2, IntervalInduction
  <2> QED BY <1>0, <2>1
<1> HIDE DEF S
<1>4. R[n][o] = v[o]
  <2> HIDE DEF R, n
  <2> QED BY <1>3 DEF S
<1> QED
  BY <1>4 DEF RollforwardBlock

\* ... and leaves there what does not depend on what was there.
LEMMA RollDetermined ==
    ASSUME NEW b \in Block, NEW v \in View, NEW w \in View, NEW o \in Outpoint, o \in Touched(b)
    PROVE  RollforwardBlock(b, v)[o] = RollforwardBlock(b, w)[o]
<1> DEFINE R == RolledTxs(b, v)
           Q == RolledTxs(b, w)
           n == Len(Vtx[b])
           S == {i \in 0 .. n : o \in TouchedBy(b, 1, i) => R[i][o] = Q[i][o]}
<1>0. n \in Nat
  BY TreeFacts
<1>1. 0 \in S
  BY <1>0 DEF TouchedBy
<1>2. ASSUME NEW i \in 1 .. n, i - 1 \in S PROVE i \in S
  <2>1. R[i] = UpdateCoins(b, R[i - 1], Vtx[b][i]) /\ Q[i] = UpdateCoins(b, Q[i - 1], Vtx[b][i])
    BY RolledFacts
  <2>2. CASE o \in Vtx[b][i].in \cup Vtx[b][i].out
    <3>1. R[i][o] = Q[i][o]
      BY <2>1, <2>2 DEF UpdateCoins
    <3> QED BY <1>0, <3>1
  <2>3. CASE o \notin Vtx[b][i].in \cup Vtx[b][i].out
    <3>1. R[i][o] = R[i - 1][o] /\ Q[i][o] = Q[i - 1][o]
      BY <2>1, <2>3 DEF UpdateCoins
    <3>2. o \in TouchedBy(b, 1, i) => o \in TouchedBy(b, 1, i - 1)
      BY <2>3 DEF TouchedBy
    <3> QED BY <1>0, <1>2, <3>1, <3>2
  <2> QED BY <2>2, <2>3
<1>3. n \in S
  <2> HIDE DEF S, n
  <2>1. \A i \in 0 .. n : i \in S
    BY <1>0, <1>1, <1>2, IntervalInduction
  <2> QED BY <1>0, <2>1
<1> HIDE DEF S
<1>4. R[n][o] = Q[n][o]
  <2>1. o \in TouchedBy(b, 1, n) => R[n][o] = Q[n][o]
    <3> HIDE DEF R, Q, n
    <3> QED BY <1>3 DEF S
  <2> QED BY <2>1 DEF Touched
<1> QED
  BY <1>4 DEF RollforwardBlock

\* The coins of every block's chain, by recursion along the tree.
LEMMA UtxoFacts ==
    /\ Utxo \in [Block -> View]
    /\ Utxo[Genesis] = EmptyView
    /\ \A b \in Block \ {Genesis} : Utxo[b] = RollforwardBlock(b, Utxo[Parent[b]])
<1> DEFINE Eq(h) == h = [b \in Block |-> IF b = Genesis THEN EmptyView
                                         ELSE RollforwardBlock(b, h[Parent[b]])]
           step == [b \in Block \ {Genesis} |-> [v \in View |-> RollforwardBlock(b, v)]]
<1>0. EmptyView \in View
  BY DEF EmptyView, View
<1>1. step \in [Block \ {Genesis} -> [View -> View]]
  BY RollType
<1>2. \A b \in Block \ {Genesis} : \A v \in View : step[b][v] = RollforwardBlock(b, v)
  OBVIOUS
<1> HIDE DEF step
<1>3. PICK g : Solves(Block, Genesis, Parent, View, EmptyView, step, g)
  BY <1>0, <1>1, BlockTreeRooted, TreeRecursion
<1>4. Eq(g)
  <2>1. /\ g = [b \in Block |-> g[b]] /\ g[Genesis] = EmptyView
        /\ \A b \in Block \ {Genesis} : g[b] = step[b][g[Parent[b]]] /\ g[Parent[b]] \in View
    BY <1>3, TreeFacts DEF Solves
  <2>2. \A b \in Block : g[b] = IF b = Genesis THEN EmptyView ELSE RollforwardBlock(b, g[Parent[b]])
    BY <1>2, <2>1
  <2> QED BY <2>1, <2>2
<1>5. Utxo = CHOOSE h : Eq(h)
  BY DEF Utxo
<1>6. Eq(Utxo)
  BY <1>4, <1>5
<1>7. /\ Utxo[Genesis] = EmptyView
      /\ \A b \in Block \ {Genesis} : Utxo[b] = RollforwardBlock(b, Utxo[Parent[b]])
  BY <1>6, TreeFacts
<1>8. \A b \in Block : Utxo[b] \in View
  <2> DEFINE S == {b \in Block : Utxo[b] \in View}
  <2>1. Genesis \in S
    BY <1>0, <1>7, TreeFacts
  <2>2. ASSUME NEW b \in Block \ {Genesis}, Parent[b] \in S PROVE b \in S
    BY <1>7, <2>2, RollType
  <2>3. S \in SUBSET Block
    OBVIOUS
  <2> HIDE DEF S
  <2>4. S = Block
    BY <2>1, <2>2, <2>3, BlockTreeRooted, TreeInduction
  <2> QED BY <2>4 DEF S
<1>9. Utxo \in [Block -> View]
  BY <1>6, <1>8
<1> QED
  BY <1>7, <1>9
-----------------------------------------------------------------------------
\* The undo data that ConnectBlock writes for b: it depends only on the chain
\* that b is on.
TrueUndo(b) == BlockUndo(b, Utxo[Parent[b]])

\* What it holds, and that it is not the null pointer.
LEMMA TrueUndoFacts ==
    ASSUME NEW b \in Block \ {Genesis}
    PROVE  /\ TrueUndo(b) # Null
           /\ \A i \in 1 .. Len(Vtx[b]) : \A o \in Vtx[b][i].in :
                /\ TrueUndo(b)[i][o] = RolledTxs(b, Utxo[Parent[b]])[i - 1][o]
                /\ TrueUndo(b)[i][o] \in Block \cup {Spent}
<1> DEFINE R == RolledTxs(b, Utxo[Parent[b]])
           n == Len(Vtx[b])
<1>1. /\ n \in Nat /\ DOMAIN Vtx[b] = 1 .. n
      /\ \A i \in 1 .. n : Vtx[b][i].in \subseteq Outpoint
  BY TreeFacts
<1>2. R \in [0 .. n -> View]
  BY RolledFacts, UtxoFacts, TreeFacts
<1> HIDE DEF R, n
<1>3. TrueUndo(b) = [i \in 1 .. n |-> [o \in Vtx[b][i].in |-> R[i - 1][o]]]
  BY <1>1 DEF TrueUndo, BlockUndo, R
<1>4. \A i \in 1 .. n : \A o \in Vtx[b][i].in : R[i - 1][o] \in Block \cup {Spent}
  BY <1>1, <1>2 DEF View
<1>5. TrueUndo(b) \in CBlockUndo(b)
  <2>1. ASSUME NEW i \in 1 .. n
        PROVE  [o \in Vtx[b][i].in |-> R[i - 1][o]] \in
                   UNION {[in -> Block \cup {Spent}] : in \in SUBSET Outpoint}
    <3>1. [o \in Vtx[b][i].in |-> R[i - 1][o]] \in [Vtx[b][i].in -> Block \cup {Spent}]
      BY <1>4
    <3>2. Vtx[b][i].in \in SUBSET Outpoint
      BY <1>1
    <3> QED BY <3>1, <3>2
  <2> QED BY <1>1, <1>3, <2>1 DEF CBlockUndo
<1>6. TrueUndo(b) # Null
  BY <1>5, NullIsNoUndo
<1> QED
  BY <1>3, <1>4, <1>6 DEF n, R

\* It has a record for every transaction, with a coin for each of the inputs.
LEMMA TrueUndoFits ==
    ASSUME NEW b \in Block \ {Genesis}
    PROVE  /\ DOMAIN TrueUndo(b) = DOMAIN Vtx[b]
           /\ \A i \in DOMAIN Vtx[b] : TrueUndo(b)[i] \in [Vtx[b][i].in -> Block \cup {Spent}]
<1>1. TrueUndo(b) = [i \in DOMAIN Vtx[b] |->
                       [o \in Vtx[b][i].in |-> RolledTxs(b, Utxo[Parent[b]])[i - 1][o]]]
  BY DEF TrueUndo, BlockUndo
<1>2. DOMAIN Vtx[b] = 1 .. Len(Vtx[b])
  BY TreeFacts
<1>3. ASSUME NEW i \in DOMAIN Vtx[b]
      PROVE  TrueUndo(b)[i] \in [Vtx[b][i].in -> Block \cup {Spent}]
  <2>1. TrueUndo(b)[i] = [o \in Vtx[b][i].in |-> RolledTxs(b, Utxo[Parent[b]])[i - 1][o]]
    BY <1>1
  <2>2. \A o \in Vtx[b][i].in : TrueUndo(b)[i][o] \in Block \cup {Spent}
    BY <1>2, TrueUndoFacts
  <2>3. QED
    BY <2>1, <2>2
<1>4. QED
  BY <1>1, <1>3

\* The maps of coins that DisconnectBlock goes through.
LEMMA UndoneFacts ==
    ASSUME NEW b \in Block \ {Genesis}, NEW v \in View
    PROVE  LET U == UndoneTxs(b, v, TrueUndo(b))
               n == Len(Vtx[b])
           IN  /\ U \in [0 .. n -> View]
               /\ U[0] = v
               /\ \A i \in 1 .. n : U[i] = UndoTx(U[i - 1], Vtx[b][n + 1 - i], TrueUndo(b)[n + 1 - i])
<1> DEFINE n == Len(Vtx[b])
           u == TrueUndo(b)
           W(i, w) == UndoTx(w, Vtx[b][n + 1 - i], u[n + 1 - i])
           step == [i \in 1 .. n |-> [w \in View |-> W(i, w)]]
           Eq(h) == h = [i \in 0 .. n |-> IF i = 0 THEN v ELSE W(i, h[i - 1])]
<1>0. n \in Nat
  BY TreeFacts
<1>t. ASSUME NEW i \in 1 .. n, NEW w \in View
      PROVE  W(i, w) \in View
  <2>1. n + 1 - i \in 1 .. n
    BY <1>0
  <2>2. \A o \in Vtx[b][n + 1 - i].in : u[n + 1 - i][o] \in Block \cup {Spent}
    BY <2>1, TrueUndoFacts
  <2>3. ASSUME NEW tx, NEW txundo, \A o \in tx.in : txundo[o] \in Block \cup {Spent}
        PROVE  UndoTx(w, tx, txundo) \in View
    BY <2>3 DEF UndoTx, View
  <2> QED BY <2>2, <2>3
<1> HIDE DEF W
<1>1. step \in [1 .. n -> [View -> View]]
  BY <1>t
<1>2. \A i \in 1 .. n : \A w \in View : step[i][w] = W(i, w)
  OBVIOUS
<1>3. UndoneTxs(b, v, u) = CHOOSE h : Eq(h)
  BY DEF UndoneTxs, W
<1> HIDE DEF step, n, u
<1>4. PICK g : Iterates(n, View, v, step, g)
  BY <1>0, <1>1, IntervalRecursion
<1>5. Eq(g)
  <2>1. /\ g = [i \in 0 .. n |-> g[i]] /\ g[0] = v
        /\ \A i \in 1 .. n : g[i] = step[i][g[i - 1]] /\ g[i - 1] \in View
    BY <1>0, <1>4 DEF Iterates
  <2>2. ASSUME NEW i \in 0 .. n PROVE g[i] = IF i = 0 THEN v ELSE W(i, g[i - 1])
    <3>1. CASE i = 0
      BY <3>1, <2>1
    <3>2. CASE i # 0
      <4>1. i \in 1 .. n
        BY <1>0, <3>2
      <4>2. g[i] = step[i][g[i - 1]] /\ g[i - 1] \in View
        BY <4>1, <2>1
      <4>3. step[i][g[i - 1]] = W(i, g[i - 1])
        BY <4>1, <4>2, <1>2
      <4> QED BY <3>2, <4>2, <4>3
    <3> QED BY <3>1, <3>2
  <2> QED BY <2>1, <2>2
<1>6. Eq(UndoneTxs(b, v, u))
  BY <1>3, <1>5
<1> DEFINE R == UndoneTxs(b, v, u)
<1> HIDE DEF R
<1>7. /\ R = [i \in 0 .. n |-> R[i]] /\ R[0] = v
      /\ \A i \in 1 .. n : R[i] = W(i, R[i - 1])
  BY <1>0, <1>6 DEF R
<1>8. \A i \in 0 .. n : R[i] \in View
  <2> DEFINE S == {i \in 0 .. n : R[i] \in View}
  <2>1. 0 \in S
    BY <1>0, <1>7
  <2>2. ASSUME NEW i \in 1 .. n, i - 1 \in S PROVE i \in S
    <3>1. R[i - 1] \in View
      BY <2>2
    <3>2. W(i, R[i - 1]) \in View
      BY <3>1, <1>t
    <3>3. R[i] = W(i, R[i - 1])
      BY <1>7
    <3>4. R[i] \in View
      BY <3>2, <3>3
    <3> QED BY <3>4
  <2> HIDE DEF S
  <2>3. \A i \in 0 .. n : i \in S
    BY <1>0, <2>1, <2>2, IntervalInduction
  <2> QED BY <2>3 DEF S
<1> QED
  BY <1>7, <1>8 DEF R, n, u, W

\* DisconnectBlock leaves a map of coins.
LEMMA UndoType ==
    ASSUME NEW b \in Block \ {Genesis}, NEW v \in View
    PROVE  DisconnectBlock(b, v, TrueUndo(b)) \in View
BY UndoneFacts, TreeFacts DEF DisconnectBlock

\* DisconnectBlock changes only what the block touches, ...
LEMMA UndoLocal ==
    ASSUME NEW b \in Block \ {Genesis}, NEW v \in View, NEW o \in Outpoint, o \notin Touched(b)
    PROVE  DisconnectBlock(b, v, TrueUndo(b))[o] = v[o]
<1> DEFINE U == UndoneTxs(b, v, TrueUndo(b))
           n == Len(Vtx[b])
           S == {i \in 0 .. n : U[i][o] = v[o]}
<1>0. n \in Nat
  BY TreeFacts
<1>1. 0 \in S
  BY <1>0, UndoneFacts
<1>2. ASSUME NEW i \in 1 .. n, i - 1 \in S PROVE i \in S
  <2> DEFINE k == n + 1 - i
  <2>0. k \in 1 .. n
    BY <1>0
  <2>1. U[i] = UndoTx(U[i - 1], Vtx[b][k], TrueUndo(b)[k])
    BY UndoneFacts
  <2> HIDE DEF k
  <2>2. o \notin Vtx[b][k].in /\ o \notin Vtx[b][k].out
    BY <2>0 DEF Touched, TouchedBy
  <2>3. U[i][o] = U[i - 1][o]
    BY <2>1, <2>2 DEF UndoTx
  <2> QED BY <1>2, <2>3
<1>3. n \in S
  <2> HIDE DEF S, n
  <2>1. \A i \in 0 .. n : i \in S
    BY <1>0, <1>1, <1>2, IntervalInduction
  <2> QED BY <1>0, <2>1
<1>4. U[n][o] = v[o]
  <2> HIDE DEF U, n
  <2> QED BY <1>3
<1> QED
  BY <1>4 DEF DisconnectBlock

\* ... and leaves there what does not depend on what was there.
LEMMA UndoDetermined ==
    ASSUME NEW b \in Block \ {Genesis}, NEW v \in View, NEW w \in View,
           NEW o \in Outpoint, o \in Touched(b)
    PROVE  DisconnectBlock(b, v, TrueUndo(b))[o] = DisconnectBlock(b, w, TrueUndo(b))[o]
<1> DEFINE U == UndoneTxs(b, v, TrueUndo(b))
           Q == UndoneTxs(b, w, TrueUndo(b))
           n == Len(Vtx[b])
           S == {i \in 0 .. n : o \in TouchedBy(b, n + 1 - i, n) => U[i][o] = Q[i][o]}
<1>0. n \in Nat
  BY TreeFacts
<1>1. 0 \in S
  BY <1>0 DEF TouchedBy
<1>2. ASSUME NEW i \in 1 .. n, i - 1 \in S PROVE i \in S
  <2> DEFINE k == n + 1 - i
  <2>0. k \in 1 .. n /\ n + 1 - (i - 1) = k + 1
    BY <1>0
  <2>1. /\ U[i] = UndoTx(U[i - 1], Vtx[b][k], TrueUndo(b)[k])
        /\ Q[i] = UndoTx(Q[i - 1], Vtx[b][k], TrueUndo(b)[k])
    BY UndoneFacts
  <2>2. o \in TouchedBy(b, k + 1, n) => U[i - 1][o] = Q[i - 1][o]
    BY <1>2, <2>0
  <2>3. SUFFICES ASSUME o \in TouchedBy(b, k, n) PROVE U[i][o] = Q[i][o]
    BY <1>0
  <2> HIDE DEF k
  <2>4. CASE o \in Vtx[b][k].in \cup Vtx[b][k].out
    BY <2>1, <2>4 DEF UndoTx
  <2>5. CASE o \notin Vtx[b][k].in \cup Vtx[b][k].out
    <3>1. U[i][o] = U[i - 1][o] /\ Q[i][o] = Q[i - 1][o]
      BY <2>1, <2>5 DEF UndoTx
    <3>2. o \in TouchedBy(b, k + 1, n)
      BY <1>0, <2>0, <2>3, <2>5 DEF TouchedBy
    <3> QED BY <2>2, <3>1, <3>2
  <2> QED BY <2>4, <2>5
<1>3. n \in S
  <2> HIDE DEF S, n
  <2>1. \A i \in 0 .. n : i \in S
    BY <1>0, <1>1, <1>2, IntervalInduction
  <2> QED BY <1>0, <2>1
<1>4. U[n][o] = Q[n][o]
  <2>1. o \in TouchedBy(b, n + 1 - n, n) => U[n][o] = Q[n][o]
    <3> HIDE DEF U, Q, n
    <3> QED BY <1>3
  <2>2. n + 1 - n = 1
    BY <1>0
  <2> QED BY <2>1, <2>2 DEF Touched
<1> QED
  BY <1>4 DEF DisconnectBlock

\* Going back over the coins of b, DisconnectBlock meets what
\* RollforwardBlock met on its way.
LEMMA UndoRetraces ==
    ASSUME NEW b \in Block \ {Genesis}, NEW i \in 0 .. Len(Vtx[b])
    PROVE  UndoneTxs(b, Utxo[b], TrueUndo(b))[i] = RolledTxs(b, Utxo[Parent[b]])[Len(Vtx[b]) - i]
<1> DEFINE U == UndoneTxs(b, Utxo[b], TrueUndo(b))
           R == RolledTxs(b, Utxo[Parent[b]])
           n == Len(Vtx[b])
           S == {j \in 0 .. n : U[j] = R[n - j]}
<1>0. n \in Nat /\ Utxo[b] \in View /\ Parent[b] \in Block /\ Utxo[Parent[b]] \in View
  BY TreeFacts, UtxoFacts
<1>1. 0 \in S
  <2>1. U[0] = Utxo[b]
    BY <1>0, UndoneFacts
  <2>2. Utxo[b] = R[n]
    BY UtxoFacts DEF RollforwardBlock
  <2> HIDE DEF U, R, n
  <2>3. n - 0 = n
    BY <1>0
  <2> QED BY <1>0, <2>1, <2>2, <2>3
<1>2. ASSUME NEW j \in 1 .. n, j - 1 \in S PROVE j \in S
  <2> DEFINE k == n + 1 - j
  <2>0. k \in 1 .. n /\ n - (j - 1) = k /\ n - j = k - 1
    BY <1>0
  <2>1. U[j] = UndoTx(R[k], Vtx[b][k], TrueUndo(b)[k])
    BY <1>0, <1>2, <2>0, UndoneFacts
  <2>2. U[j] \in View /\ R[k - 1] \in View
    <3>1. U \in [0 .. n -> View]
      BY <1>0, UndoneFacts
    <3>2. R \in [0 .. n -> View]
      BY <1>0, RolledFacts
    <3> HIDE DEF U, R, n, k
    <3> QED BY <1>0, <2>0, <3>1, <3>2
  <2>3. R[k] = UpdateCoins(b, R[k - 1], Vtx[b][k])
    BY <1>0, <2>0, RolledFacts
  <2>4. \A o \in Vtx[b][k].in : TrueUndo(b)[k][o] = R[k - 1][o]
    BY <2>0, TrueUndoFacts
  <2>5. \A o \in Vtx[b][k].out : R[k - 1][o] = Spent
    BY <2>0, BlocksConnect, TreeFacts
  <2> HIDE DEF k, U, R, n
  <2>6. \A o \in Outpoint : U[j][o] = R[k - 1][o]
    <3> TAKE o \in Outpoint
    <3>1. CASE o \in Vtx[b][k].in
      BY <2>1, <2>4, <3>1 DEF UndoTx
    <3>2. CASE o \notin Vtx[b][k].in /\ o \in Vtx[b][k].out
      BY <2>1, <2>5, <3>2 DEF UndoTx
    <3>3. CASE o \notin Vtx[b][k].in /\ o \notin Vtx[b][k].out
      BY <2>1, <2>3, <3>3 DEF UndoTx, UpdateCoins
    <3> QED BY <3>1, <3>2, <3>3
  <2>7. U[j] = R[k - 1]
    BY <2>2, <2>6 DEF View
  <2> QED BY <1>0, <2>0, <2>7
<1> HIDE DEF n, U, R
<1>3. i \in S
  <2> HIDE DEF S
  <2>1. \A j \in 0 .. n : j \in S
    BY <1>0, <1>1, <1>2, IntervalInduction
  <2> QED BY <2>1 DEF n
<1> QED
  BY <1>3 DEF n, U, R

\* DisconnectBlock takes the coins of a block to those of its parent, ...
LEMMA UndoExact ==
    ASSUME NEW b \in Block \ {Genesis}
    PROVE  DisconnectBlock(b, Utxo[b], TrueUndo(b)) = Utxo[Parent[b]]
<1> DEFINE n == Len(Vtx[b])
<1>0. n \in Nat /\ n \in 0 .. n /\ n - n = 0 /\ Utxo[Parent[b]] \in View
  BY TreeFacts, UtxoFacts
<1>1. UndoneTxs(b, Utxo[b], TrueUndo(b))[n] = RolledTxs(b, Utxo[Parent[b]])[0]
  BY <1>0, UndoRetraces
<1> QED
  BY <1>0, <1>1, RolledFacts DEF DisconnectBlock

\* ... and finds every output there and every input spent.
LEMMA UndoClean ==
    ASSUME NEW b \in Block \ {Genesis}
    PROVE  DisconnectClean(b, Utxo[b], TrueUndo(b))
<1> DEFINE n == Len(Vtx[b])
           R == RolledTxs(b, Utxo[Parent[b]])
           U == UndoneTxs(b, Utxo[b], TrueUndo(b))
<1>0. n \in Nat /\ DOMAIN Vtx[b] = 1 .. n /\ Utxo[Parent[b]] \in View
  BY TreeFacts, UtxoFacts
<1>1. ASSUME NEW i \in 1 .. n
      PROVE  /\ \A o \in Vtx[b][i].out : U[n - i][o] = b
             /\ \A o \in Vtx[b][i].in : U[n - i][o] = Spent
  <2>1. n - i \in 0 .. n /\ n - (n - i) = i
    BY <1>0
  <2>2. U[n - i] = R[i]
    BY <2>1, UndoRetraces
  <2>3. R[i] = UpdateCoins(b, R[i - 1], Vtx[b][i])
    BY <1>0, RolledFacts
  <2>4. \A o \in Vtx[b][i].out : o \notin Vtx[b][i].in
    BY <1>0, BlocksConnect
  <2>5. Vtx[b][i].in \subseteq Outpoint /\ Vtx[b][i].out \subseteq Outpoint
    BY <1>0, TreeFacts
  <2> HIDE DEF n, R, U
  <2> QED BY <2>2, <2>3, <2>4, <2>5 DEF UpdateCoins
<1> QED
  BY <1>0, <1>1 DEF DisconnectClean
-----------------------------------------------------------------------------
\* Every coin of v is that of x or that of y.
Mixed(v, x, y) == \A o \in Outpoint : v[o] = x[o] \/ v[o] = y[o]

\* Disconnecting b takes the coins of b to those of its parent, ...
LEMMA MixedBack ==
    ASSUME NEW b \in Block \ {Genesis}, NEW v \in View, NEW y \in View, Mixed(v, Utxo[b], y)
    PROVE  Mixed(DisconnectBlock(b, v, TrueUndo(b)), Utxo[Parent[b]], y)
<1> DEFINE w == DisconnectBlock(b, v, TrueUndo(b))
<1>0. Utxo[b] \in View /\ Utxo[Parent[b]] \in View
  BY TreeFacts, UtxoFacts
<1>1. ASSUME NEW o \in Outpoint PROVE w[o] = Utxo[Parent[b]][o] \/ w[o] = y[o]
  <2>1. CASE o \in Touched(b)
    BY <1>0, <2>1, UndoDetermined, UndoExact
  <2>2. CASE o \notin Touched(b)
    <3>1. w[o] = v[o]
      BY <2>2, UndoLocal
    <3>2. Utxo[b][o] = Utxo[Parent[b]][o]
      BY <1>0, <2>2, RollLocal, UtxoFacts
    <3> QED BY <3>1, <3>2 DEF Mixed
  <2> QED BY <2>1, <2>2
<1> HIDE DEF w
<1> QED
  BY <1>1 DEF Mixed, w

\* ... and connecting it takes them back again.
LEMMA MixedForward ==
    ASSUME NEW b \in Block \ {Genesis}, NEW v \in View, NEW y \in View,
           Mixed(v, Utxo[Parent[b]], y)
    PROVE  Mixed(RollforwardBlock(b, v), Utxo[b], y)
<1> DEFINE w == RollforwardBlock(b, v)
<1>0. Utxo[b] \in View /\ Utxo[Parent[b]] \in View /\ Utxo[b] = RollforwardBlock(b, Utxo[Parent[b]])
  BY TreeFacts, UtxoFacts
<1>1. ASSUME NEW o \in Outpoint PROVE w[o] = Utxo[b][o] \/ w[o] = y[o]
  <2>1. CASE o \in Touched(b)
    BY <1>0, <2>1, RollDetermined
  <2>2. CASE o \notin Touched(b)
    <3>1. w[o] = v[o]
      BY <2>2, RollLocal
    <3>2. Utxo[b][o] = Utxo[Parent[b]][o]
      BY <1>0, <2>2, RollLocal
    <3> QED BY <3>1, <3>2 DEF Mixed
  <2> QED BY <2>1, <2>2
<1> HIDE DEF w
<1> QED
  BY <1>1 DEF Mixed, w

\* Going back from old to its ancestor at height fork.
LEMMA RolledBackFacts ==
    ASSUME NEW old \in Block, NEW fork \in 0 .. Height[old], db \in View, NEW y \in View,
           \A b \in Above(old, fork) : index.undo[b] = TrueUndo(b),
           Mixed(db, Utxo[old], y)
    PROVE  /\ RolledBack(old, fork) \in View
           /\ Mixed(RolledBack(old, fork), Utxo[Path[old][fork + 1]], y)
<1> DEFINE n == Height[old] - fork
           c(i) == Path[old][Height[old] + 2 - i]
           W(i, w) == DisconnectBlock(c(i), w, index.undo[c(i)])
           step == [i \in 1 .. n |-> [w \in View |-> W(i, w)]]
           Eq(h) == h = [i \in 0 .. n |-> IF i = 0 THEN db ELSE W(i, h[i - 1])]
<1>0. Height[old] \in Nat /\ n \in Nat
  BY HeightFacts
<1>a. ASSUME NEW i \in 1 .. n
      PROVE  /\ c(i) \in Block \ {Genesis}
             /\ c(i + 1) = Parent[c(i)]
             /\ index.undo[c(i)] = TrueUndo(c(i))
  <2>1. Height[old] + 2 - i \in 2 .. Height[old] + 1 /\ Height[old] + 2 - i \in fork + 2 .. Height[old] + 1
    BY <1>0
  <2>2. Height[old] + 2 - (i + 1) = (Height[old] + 2 - i) - 1
    BY <1>0
  <2>3. c(i) \in Above(old, fork)
    BY <2>1 DEF Above
  <2> QED BY <2>1, <2>2, <2>3, PathParent
<1>t. ASSUME NEW i \in 1 .. n, NEW w \in View
      PROVE  /\ W(i, w) \in View
             /\ Mixed(w, Utxo[c(i)], y) => Mixed(W(i, w), Utxo[c(i + 1)], y)
  <2>1. W(i, w) = DisconnectBlock(c(i), w, TrueUndo(c(i)))
    BY <1>a
  <2> QED BY <1>a, <2>1, UndoType, MixedBack
<1>3. RolledBack(old, fork) = (CHOOSE h : Eq(h))[n]
  BY DEF RolledBack
<1> HIDE DEF W, n
<1>1. step \in [1 .. n -> [View -> View]]
  BY <1>t
<1>2. \A i \in 1 .. n : \A w \in View : step[i][w] = W(i, w)
  OBVIOUS
<1> HIDE DEF step
<1>4. PICK g : Iterates(n, View, db, step, g)
  BY <1>0, <1>1, IntervalRecursion
<1>5. Eq(g)
  <2>1. /\ g = [i \in 0 .. n |-> g[i]] /\ g[0] = db
        /\ \A i \in 1 .. n : g[i] = step[i][g[i - 1]] /\ g[i - 1] \in View
    BY <1>0, <1>4 DEF Iterates
  <2>2. ASSUME NEW i \in 0 .. n PROVE g[i] = IF i = 0 THEN db ELSE W(i, g[i - 1])
    <3>1. CASE i = 0
      BY <3>1, <2>1
    <3>2. CASE i # 0
      <4>1. i \in 1 .. n
        BY <1>0, <3>2
      <4>2. g[i] = step[i][g[i - 1]] /\ g[i - 1] \in View
        BY <4>1, <2>1
      <4>3. step[i][g[i - 1]] = W(i, g[i - 1])
        BY <4>1, <4>2, <1>2
      <4> QED BY <3>2, <4>2, <4>3
    <3> QED BY <3>1, <3>2
  <2> QED BY <2>1, <2>2
<1> DEFINE R == CHOOSE h : Eq(h)
<1>6. Eq(R)
  BY <1>5
<1>7. RolledBack(old, fork) = R[n]
  BY <1>3
<1> HIDE DEF R
<1>8. R[0] = db /\ \A i \in 1 .. n : R[i] = W(i, R[i - 1])
  BY <1>0, <1>6
<1> DEFINE S == {i \in 0 .. n : R[i] \in View /\ Mixed(R[i], Utxo[c(i + 1)], y)}
<1>9. 0 \in S
  <2>1. c(0 + 1) = old
    BY <1>0, PathAt
  <2> QED BY <1>0, <1>8, <2>1
<1>10. ASSUME NEW i \in 1 .. n, i - 1 \in S PROVE i \in S
  <2>1. R[i - 1] \in View /\ Mixed(R[i - 1], Utxo[c((i - 1) + 1)], y)
    BY <1>10
  <2>2. (i - 1) + 1 = i
    OBVIOUS
  <2>3. Mixed(R[i - 1], Utxo[c(i)], y)
    BY <2>1, <2>2
  <2>4. W(i, R[i - 1]) \in View /\ Mixed(W(i, R[i - 1]), Utxo[c(i + 1)], y)
    BY <2>1, <2>3, <1>t
  <2>5. R[i] = W(i, R[i - 1])
    BY <1>8
  <2>6. R[i] \in View /\ Mixed(R[i], Utxo[c(i + 1)], y)
    BY <2>4, <2>5
  <2> QED BY <2>6
<1>11. n \in S
  <2> HIDE DEF S
  <2>1. \A i \in 0 .. n : i \in S
    BY <1>0, <1>9, <1>10, IntervalInduction
  <2> QED BY <1>0, <2>1
<1>12. R[n] \in View /\ Mixed(R[n], Utxo[c(n + 1)], y)
  BY <1>11
<1>13. Height[old] + 2 - (n + 1) = fork + 1
  BY <1>0 DEF n
<1> QED
  BY <1>7, <1>12, <1>13

\* Going forward from the ancestor of new at height fork.
LEMMA RolledForwardFacts ==
    ASSUME NEW new \in Block, NEW fork \in 0 .. Height[new], NEW from \in View, NEW y \in View,
           Mixed(from, Utxo[Path[new][fork + 1]], y)
    PROVE  /\ RolledForward(new, fork, from) \in View
           /\ Mixed(RolledForward(new, fork, from), Utxo[new], y)
<1> DEFINE n == Height[new] - fork
           c(i) == Path[new][fork + 1 + i]
           W(i, w) == RollforwardBlock(c(i), w)
           step == [i \in 1 .. n |-> [w \in View |-> W(i, w)]]
           Eq(h) == h = [i \in 0 .. n |-> IF i = 0 THEN from ELSE W(i, h[i - 1])]
<1>0. Height[new] \in Nat /\ n \in Nat
  BY HeightFacts
<1>a. ASSUME NEW i \in 1 .. n
      PROVE  c(i) \in Block \ {Genesis} /\ c(i - 1) = Parent[c(i)]
  <2>1. fork + 1 + i \in 2 .. Height[new] + 1
    BY <1>0
  <2>2. fork + 1 + (i - 1) = (fork + 1 + i) - 1
    BY <1>0
  <2> QED BY <2>1, <2>2, PathParent
<1>t. ASSUME NEW i \in 1 .. n, NEW w \in View
      PROVE  /\ W(i, w) \in View
             /\ Mixed(w, Utxo[c(i - 1)], y) => Mixed(W(i, w), Utxo[c(i)], y)
  BY <1>a, RollType, MixedForward
<1>3. RolledForward(new, fork, from) = (CHOOSE h : Eq(h))[n]
  BY DEF RolledForward
<1> HIDE DEF W, n
<1>1. step \in [1 .. n -> [View -> View]]
  BY <1>t
<1>2. \A i \in 1 .. n : \A w \in View : step[i][w] = W(i, w)
  OBVIOUS
<1> HIDE DEF step
<1>4. PICK g : Iterates(n, View, from, step, g)
  BY <1>0, <1>1, IntervalRecursion
<1>5. Eq(g)
  <2>1. /\ g = [i \in 0 .. n |-> g[i]] /\ g[0] = from
        /\ \A i \in 1 .. n : g[i] = step[i][g[i - 1]] /\ g[i - 1] \in View
    BY <1>0, <1>4 DEF Iterates
  <2>2. ASSUME NEW i \in 0 .. n PROVE g[i] = IF i = 0 THEN from ELSE W(i, g[i - 1])
    <3>1. CASE i = 0
      BY <3>1, <2>1
    <3>2. CASE i # 0
      <4>1. i \in 1 .. n
        BY <1>0, <3>2
      <4>2. g[i] = step[i][g[i - 1]] /\ g[i - 1] \in View
        BY <4>1, <2>1
      <4>3. step[i][g[i - 1]] = W(i, g[i - 1])
        BY <4>1, <4>2, <1>2
      <4> QED BY <3>2, <4>2, <4>3
    <3> QED BY <3>1, <3>2
  <2> QED BY <2>1, <2>2
<1> DEFINE R == CHOOSE h : Eq(h)
<1>6. Eq(R)
  BY <1>5
<1>7. RolledForward(new, fork, from) = R[n]
  BY <1>3
<1> HIDE DEF R
<1>8. R[0] = from /\ \A i \in 1 .. n : R[i] = W(i, R[i - 1])
  BY <1>0, <1>6
<1> DEFINE S == {i \in 0 .. n : R[i] \in View /\ Mixed(R[i], Utxo[c(i)], y)}
<1>9. 0 \in S
  <2>1. fork + 1 + 0 = fork + 1
    OBVIOUS
  <2>2. Mixed(from, Utxo[c(0)], y)
    BY <2>1
  <2> QED BY <1>0, <1>8, <2>2
<1>10. ASSUME NEW i \in 1 .. n, i - 1 \in S PROVE i \in S
  <2>1. R[i - 1] \in View /\ Mixed(R[i - 1], Utxo[c(i - 1)], y)
    BY <1>10
  <2>2. W(i, R[i - 1]) \in View /\ Mixed(W(i, R[i - 1]), Utxo[c(i)], y)
    BY <2>1, <1>t
  <2>3. R[i] = W(i, R[i - 1])
    BY <1>8
  <2>4. R[i] \in View /\ Mixed(R[i], Utxo[c(i)], y)
    BY <2>2, <2>3
  <2> QED BY <2>4
<1>11. n \in S
  <2> HIDE DEF S
  <2>1. \A i \in 0 .. n : i \in S
    BY <1>0, <1>9, <1>10, IntervalInduction
  <2> QED BY <1>0, <2>1
<1>12. R[n] \in View /\ Mixed(R[n], Utxo[c(n)], y)
  BY <1>11
<1>13. c(n) = new
  <2>1. fork + 1 + n = Height[new] + 1
    BY <1>0 DEF n
  <2> QED BY <2>1, PathAt
<1> QED
  BY <1>7, <1>12, <1>13

\* The coins that the old tip stands for: none if there was no tip.
CoinsOf(b) == IF b = Null THEN EmptyView ELSE Utxo[b]

\* ReplayBlocks arrives at the coins of the new tip.
LEMMA ReplayExact ==
    ASSUME NEW old \in Block \cup {Null}, NEW new \in Block, db \in View,
           Mixed(db, CoinsOf(old), Utxo[new]),
           old # Null => \A b \in Above(old, nForkHeight(old, new)) : index.undo[b] = TrueUndo(b)
    PROVE  Replayed(old, new) = Utxo[new]
<1> DEFINE f == nForkHeight(old, new)
           from == IF old = Null THEN db ELSE RolledBack(old, f)
<1>0. Utxo[new] \in View /\ Height[new] \in Nat
  BY UtxoFacts, HeightFacts
<1>1. f \in 0 .. Height[new] /\ from \in View /\ Mixed(from, Utxo[Path[new][f + 1]], Utxo[new])
  <2>1. CASE old = Null
    <3>1. f = 0
      BY <2>1 DEF nForkHeight
    <3>2. Path[new][f + 1] = Genesis
      BY <1>0, <3>1, PathAt
    <3>3. from = db
      BY <2>1
    <3>4. CoinsOf(old) = Utxo[Genesis]
      BY <2>1, UtxoFacts DEF CoinsOf
    <3> QED BY <1>0, <3>1, <3>2, <3>3, <3>4
  <2>2. CASE old # Null
    <3>1. old \in Block /\ CoinsOf(old) = Utxo[old] /\ from = RolledBack(old, f)
      BY <2>2 DEF CoinsOf
    <3>2. f \in 0 .. Height[old] /\ f \in 0 .. Height[new] /\ Path[old][f + 1] = Path[new][f + 1]
      <4>1. f = ForkHeight(old, new)
        BY <2>2 DEF nForkHeight
      <4> HIDE DEF f
      <4> QED BY <3>1, <4>1, ForkFacts
    <3> HIDE DEF f, from
    <3>3. \A b \in Above(old, f) : index.undo[b] = TrueUndo(b)
      BY <2>2 DEF f
    <3>4. RolledBack(old, f) \in View /\ Mixed(RolledBack(old, f), Utxo[Path[old][f + 1]], Utxo[new])
      BY <1>0, <3>1, <3>2, <3>3, RolledBackFacts
    <3> QED BY <3>1, <3>2, <3>4
  <2> QED BY <2>1, <2>2
<1>2. Replayed(old, new) = RolledForward(new, f, from)
  BY DEF Replayed
<1> HIDE DEF f, from
<1>3. /\ RolledForward(new, f, from) \in View
      /\ Mixed(RolledForward(new, f, from), Utxo[new], Utxo[new])
  BY <1>0, <1>1, RolledForwardFacts
<1> DEFINE w == RolledForward(new, f, from)
<1>4. \A o \in Outpoint : w[o] = Utxo[new][o]
  BY <1>3 DEF Mixed
<1> HIDE DEF w
<1>5. w = Utxo[new]
  BY <1>0, <1>3, <1>4 DEF View, w
<1> QED
  BY <1>2, <1>5 DEF w
-----------------------------------------------------------------------------
\* The node works on its chain.
Running == stage \notin {"down", "failed"}

\* Undo data, where it is kept, is that of the block.
UndoOK(u) == /\ u = [b \in Block |-> u[b]]
             /\ \A b \in Block : u[b] # Null => b # Genesis /\ u[b] = TrueUndo(b)

\* Positions f and undo data u are there for all of b's chain.
Covers(f, u, b) == \A c \in Chain[b] : f[c] # Null /\ (c # Genesis => u[c] # Null)

\* The type invariant, and the types of what it leaves open.
Typed ==
    /\ Types
    /\ index = [file |-> index.file, undo |-> index.undo]
    /\ index.file \in [Block -> Nat \cup {Null}]
    /\ UndoOK(undo) /\ UndoOK(index.undo)
    /\ durable = <<durable[1], durable[2], durable[3]>>
    /\ durable[1] \in View /\ durable[2] \in Block \cup {Null}
    /\ durable[3] = <<>> \/ durable[3] \in Block \X (Block \cup {Null})

\* What MarkersTruthful and IndexCoversCoins say of the coins database d with
\* the markers best and heads.
Truthful(d, best, heads) ==
    /\ heads = <<>> => d = CoinsOf(best)
    /\ heads # <<>> => best = Null /\ Mixed(d, CoinsOf(heads[2]), Utxo[heads[1]])
Covered(ix, best, heads) ==
    /\ best # Null => Covers(ix.file, ix.undo, best)
    /\ heads # <<>> => /\ Covers(ix.file, ix.undo, heads[1])
                       /\ heads[2] # Null => Covers(ix.file, ix.undo, heads[2])

\* The node has everything of its own chain in memory, and of what is in the
\* block index database; during a flush of the coins that database has it too.
Ready ==
    /\ tip \in Block /\ view = Utxo[tip]
    /\ Covers(file, undo, tip)
    /\ \A b \in Block : /\ index.file[b] # Null => file[b] # Null
                        /\ index.undo[b] # Null => undo[b] # Null
    /\ stage \in {"run", "index"} => dbHeads = <<>>
    /\ stage \in {"coins", "replay"} =>
          /\ Covers(index.file, index.undo, tip)
          /\ dbHeads # <<>> => dbHeads[1] = tip

\* The inductive invariant.
FlushInv ==
    /\ Typed
    /\ Truthful(db, dbBest, dbHeads) /\ Truthful(durable[1], durable[2], durable[3])
    /\ Covered(index, dbBest, dbHeads) /\ Covered(index, durable[2], durable[3])
    /\ Running => Ready
-----------------------------------------------------------------------------
\* Every block is on its own chain, below it its parent's.
LEMMA ChainSteps ==
    /\ \A b \in Block : b \in Chain[b] /\ Chain[b] \subseteq Block
    /\ \A b \in Block \ {Genesis} : Chain[b] = Chain[Parent[b]] \cup {b}
    /\ Chain[Genesis] = {Genesis}
BY ChainFacts, TreeFacts

\* The types of the coins that the markers stand for.
LEMMA CoinsOfType ==
    ASSUME NEW b \in Block \cup {Null}
    PROVE  CoinsOf(b) \in View
BY UtxoFacts DEF CoinsOf, EmptyView, View

\* The positions in a block index are bounded, so that a last file exists.
LEMMA LastFile ==
    ASSUME NEW f \in [Block -> Nat \cup {Null}]
    PROVE  Max({0} \cup {f[b] : b \in {c \in Block : f[c] # Null}}) \in Nat
<1> DEFINE B(T, n) == \A b \in T : f[b] # Null => f[b] <= n
           F == {T \in SUBSET Block : \E n \in Nat : B(T, n)}
           S == {0} \cup {f[b] : b \in {c \in Block : f[c] # Null}}
<1>1. {} \in F
  <2>1. B({}, 0)
    OBVIOUS
  <2> QED BY <2>1
<1>2. ASSUME NEW T \in SUBSET Block, NEW x \in Block, T \in F, x \notin T PROVE T \cup {x} \in F
  <2>1. PICK n \in Nat : B(T, n)
    BY <1>2
  <2>2. PICK m \in Nat : n <= m /\ (f[x] # Null => f[x] <= m)
    <3>1. CASE f[x] = Null
      BY <3>1
    <3>2. CASE f[x] # Null
      <4>1. f[x] \in Nat
        BY <3>2
      <4>2. CASE f[x] <= n
        BY <4>2
      <4>3. CASE n <= f[x]
        BY <4>1, <4>3
      <4> QED BY <4>1, <4>2, <4>3
    <3> QED BY <3>1, <3>2
  <2>3. B(T \cup {x}, m)
    BY <2>1, <2>2
  <2> HIDE DEF B
  <2> QED BY <2>3
<1>3. Block \in F
  <2>1. InductiveFamily(Block, F)
    <3> HIDE DEF B
    <3> QED BY <1>1, <1>2 DEF InductiveFamily
  <2> HIDE DEF F
  <2> QED BY <2>1, FlushReplayConstants, FiniteSetInduction
<1>4. PICK n \in Nat : B(Block, n)
  BY <1>3
<1>5. S \in SUBSET Nat /\ S # {} /\ \A h \in S : h <= n
  BY <1>4
<1>6. Max(S) \in S
  <2> HIDE DEF S
  <2> QED BY <1>5, MaxMember
<1> QED
  BY <1>5, <1>6

\* The initial state.
LEMMA FlushInvInit == Init => FlushInv
<1> SUFFICES ASSUME Init PROVE FlushInv
  OBVIOUS
<1> USE DEF Init
<1>1. /\ Genesis \in Block /\ Null \notin Block /\ Null \notin Nat /\ EmptyView \in View
      /\ Utxo[Genesis] = EmptyView /\ Chain[Genesis] = {Genesis} /\ MaxCrashes \in Nat
  BY TreeFacts, UtxoFacts, ChainSteps, FlushReplayConstants DEF EmptyView, View
<1>2. Typed
  <2>1. UndoOK(NoFiles)
    BY DEF UndoOK, NoFiles
  <2>2. Types
    BY <1>1 DEF Types, Stage, NoFiles
  <2> QED BY <1>1, <2>1, <2>2 DEF Typed, NoFiles
<1>3. Truthful(db, dbBest, dbHeads) /\ Truthful(durable[1], durable[2], durable[3])
  BY DEF Truthful, CoinsOf
<1>4. Covered(index, dbBest, dbHeads) /\ Covered(index, durable[2], durable[3])
  BY DEF Covered
<1>5. Ready
  BY <1>1 DEF Ready, Covers, NoFiles
<1> QED
  BY <1>2, <1>3, <1>4, <1>5 DEF FlushInv

\* Saving a block only adds to what the node has.
LEMMA SaveBlockInv ==
    ASSUME FlushInv, NEW b \in Block, SaveBlockToDisk(b)
    PROVE  FlushInv'
<1> USE DEF FlushInv
<1>0. Null \notin Nat
  BY FlushReplayConstants
<1>1. /\ UNCHANGED <<stage, tip, view, undo, index, db, dbBest, dbHeads, durable, crashes, undoLost>>
      /\ stage = "run"
  BY DEF SaveBlockToDisk, coinsdb
<1>2. PICK n \in Nat : file' = [file EXCEPT ![b] = n]
  <2> DEFINE m == IF FileFull THEN cursor.file_num + 1 ELSE cursor.file_num
  <2>1. m \in Nat
    BY DEF Typed, Types
  <2>2. file' = [file EXCEPT ![b] = m]
    BY DEF SaveBlockToDisk
  <2> HIDE DEF m
  <2> QED BY <2>1, <2>2
<1>3. cursor' \in [file_num : Nat, undo_height : Nat]
  BY DEF SaveBlockToDisk, Typed, Types
<1>4. /\ file' \in [Block -> Nat \cup {Null}]
      /\ \A c \in Block : file[c] # Null => file'[c] # Null
  BY <1>0, <1>2 DEF Typed, Types
<1>5. blkUnsynced' \subseteq Block /\ undoUnsynced' \subseteq Block /\ blkLost' \subseteq Block
  BY DEF SaveBlockToDisk, Typed, Types
<1>6. Typed'
  BY <1>1, <1>3, <1>4, <1>5 DEF Typed, Types
<1>7. Ready'
  BY <1>1, <1>4, ChainSteps DEF Ready, Running, Covers
<1> QED
  BY <1>1, <1>6, <1>7

\* Connecting a block leaves the coins of that block, and its undo data.
LEMMA ConnectTipInv ==
    ASSUME FlushInv, NEW b \in Block, ConnectTip(b)
    PROVE  FlushInv'
<1> USE DEF FlushInv
<1>1. /\ UNCHANGED <<file, blkUnsynced, blkLost, index, db, dbBest, dbHeads, durable, crashes>>
      /\ stage = "run" /\ stage' \in {"run", "failed"} /\ b # Genesis
      /\ Parent[b] = tip /\ file[b] # Null /\ tip' = b /\ Ready
  BY DEF ConnectTip, coinsdb, Running
<1>2. view' = Utxo[b] /\ view' \in View
  BY <1>1, UtxoFacts DEF ConnectTip, ConnectBlock, Ready
<1>3. BlockUndo(b, view) = TrueUndo(b) /\ TrueUndo(b) # Null
  BY <1>1, TrueUndoFacts DEF TrueUndo, Ready
<1>4. /\ UndoOK(undo') /\ undo'[b] # Null
      /\ \A c \in Block : undo[c] # Null => undo'[c] # Null
  <2>1. CASE undo[b] # Null
    BY <2>1 DEF ConnectTip, WriteUndoDataForBlock, Typed
  <2>2. CASE undo[b] = Null
    <3>1. undo' = [undo EXCEPT ![b] = TrueUndo(b)]
      BY <1>3, <2>2 DEF ConnectTip, WriteUndoDataForBlock
    <3> DEFINE t == TrueUndo(b)
    <3>2. t = TrueUndo(b) /\ t # Null
      BY <1>3
    <3> HIDE DEF t
    <3>3. undo' = [undo EXCEPT ![b] = t]
      BY <3>1, <3>2
    <3> QED BY <1>1, <3>2, <3>3 DEF UndoOK, Typed
  <2> QED BY <2>1, <2>2
<1>5. /\ cursor' \in [file_num : Nat, undo_height : Nat]
      /\ undoUnsynced' \subseteq Block /\ undoLost' \subseteq Block
  <2>1. Height[b] \in Nat /\ cursor \in [file_num : Nat, undo_height : Nat]
    BY HeightFacts DEF Typed, Types
  <2>2. cursor' = cursor \/ cursor' = [cursor EXCEPT !.undo_height = Height[b]]
    BY DEF ConnectTip, WriteUndoDataForBlock
  <2>3. undoUnsynced' \subseteq Block /\ undoLost' \subseteq Block
    BY DEF ConnectTip, WriteUndoDataForBlock, Typed, Types
  <2> QED BY <2>1, <2>2, <2>3
<1>6. Typed'
  BY <1>1, <1>2, <1>4, <1>5 DEF Typed, Types, Stage
<1>7. Ready'
  BY <1>1, <1>2, <1>4, ChainSteps, TreeFacts DEF Ready, Covers
<1> QED
  BY <1>1, <1>6, <1>7

\* Disconnecting the tip leaves the coins of its parent.
LEMMA DisconnectTipInv ==
    ASSUME FlushInv, DisconnectTip
    PROVE  FlushInv'
<1> USE DEF FlushInv
<1>1. /\ UNCHANGED <<file, undo, cursor, blkUnsynced, undoUnsynced, blkLost, undoLost,
                     index, db, dbBest, dbHeads, durable, crashes>>
      /\ stage = "run" /\ stage' \in {"run", "failed"} /\ tip # Genesis /\ Ready
  BY DEF DisconnectTip, coinsdb, files, Running
<1>2. tip \in Block \ {Genesis} /\ Parent[tip] \in Block
  BY <1>1, TreeFacts DEF Ready
<1>3. undo[tip] # Null /\ undo[tip] = TrueUndo(tip)
  BY <1>1, <1>2, ChainSteps DEF Ready, Covers, Typed, UndoOK
<1>4. tip' = Parent[tip] /\ view' = Utxo[Parent[tip]]
  BY <1>1, <1>2, <1>3, UndoExact DEF DisconnectTip, Ready
<1>5. view' \in View
  BY <1>2, <1>4, UtxoFacts
<1>6. Typed'
  BY <1>1, <1>2, <1>4, <1>5 DEF Typed, Types, Stage
<1>7. Ready'
  BY <1>1, <1>2, <1>4, ChainSteps DEF Ready, Covers
<1> QED
  BY <1>1, <1>6, <1>7

\* FlushStateToDisk begins.
LEMMA FlushBlockFileInv ==
    ASSUME FlushInv, FlushChainstateBlockFile
    PROVE  FlushInv'
<1> USE DEF FlushInv
<1>1. /\ UNCHANGED <<tip, view, file, undo, cursor, blkLost, undoLost,
                     index, db, dbBest, dbHeads, durable, crashes>>
      /\ blkUnsynced' \subseteq blkUnsynced /\ undoUnsynced' \subseteq undoUnsynced
      /\ stage = "run" /\ stage' = "index" /\ Ready
  BY DEF FlushChainstateBlockFile, coinsdb, memory, Running
<1>2. Typed'
  BY <1>1 DEF Typed, Types, Stage
<1>3. Ready'
  BY <1>1 DEF Ready
<1> QED
  BY <1>1, <1>2, <1>3

\* Writing the block index adds to what the database knows: all that the coins
\* database refers to stays, and the tip that a full flush writes is there.
LEMMA WriteIndexInv ==
    ASSUME FlushInv, NEW full \in BOOLEAN, WriteBlockIndexDB(full)
    PROVE  FlushInv'
<1> USE DEF FlushInv
<1>1. /\ UNCHANGED <<tip, view, file, undo, cursor, blkUnsynced, undoUnsynced, blkLost, undoLost,
                     db, dbBest, dbHeads, durable, crashes>>
      /\ stage = "index" /\ stage' \in {"run", "coins"} /\ Ready
      /\ index' = [file |-> file, undo |-> undo]
  BY DEF WriteBlockIndexDB, FlushStateToDisk, coinsdb, memory, files, Running
<1>2. index'.file = file /\ index'.undo = undo
  BY <1>1
<1>3. Typed'
  BY <1>1, <1>2 DEF Typed, Types, Stage
<1>4. ASSUME NEW b \in Block, Covers(index.file, index.undo, b)
      PROVE  Covers(index'.file, index'.undo, b)
  BY <1>1, <1>2, <1>4, ChainSteps DEF Covers, Ready
<1>5. ASSUME NEW best \in Block \cup {Null}, NEW heads,
             heads = <<>> \/ heads \in Block \X (Block \cup {Null}),
             Covered(index, best, heads)
      PROVE  Covered(index', best, heads)
  <2>1. heads # <<>> => heads[1] \in Block /\ heads[2] \in Block \cup {Null}
    BY <1>5
  <2> QED BY <1>4, <1>5, <2>1 DEF Covered
<1>6. Covered(index', dbBest, dbHeads) /\ Covered(index', durable[2], durable[3])
  BY <1>5 DEF Typed, Types
<1>7. Ready'
  BY <1>1, <1>2, ChainSteps DEF Ready, Covers
<1> QED
  BY <1>1, <1>3, <1>6, <1>7

\* The old tip that a transition is marked with.
LEMMA OldTipFacts ==
    ASSUME FlushInv, stage \in {"coins", "replay"}
    PROVE  /\ HeadsAssert
           /\ OldTip \in Block \cup {Null}
           /\ Mixed(db, CoinsOf(OldTip), Utxo[tip])
           /\ OldTip # Null => Covers(index.file, index.undo, OldTip)
<1> USE DEF FlushInv
<1>0. Ready /\ Typed
  BY DEF Running
<1>1. HeadsAssert
  BY <1>0 DEF HeadsAssert, Ready
<1>2. CASE dbHeads = <<>>
  <2>1. OldTip = dbBest
    BY <1>2 DEF OldTip
  <2>2. db = CoinsOf(dbBest)
    BY <1>2 DEF Truthful
  <2> QED BY <1>0, <1>1, <2>1, <2>2 DEF Mixed, Covered, Typed, Types
<1>3. CASE dbHeads # <<>>
  <2>1. dbBest = Null /\ OldTip = dbHeads[2]
    BY <1>3 DEF OldTip, Truthful
  <2>2. dbHeads[1] = tip
    BY <1>0, <1>3 DEF Ready
  <2>3. dbHeads[2] \in Block \cup {Null}
    BY <1>0, <1>3 DEF Typed, Types
  <2> QED BY <1>1, <1>3, <2>1, <2>2, <2>3 DEF Truthful, Covered
<1> QED
  BY <1>2, <1>3

\* A partial batch leaves coins of the old tip and of the new one, and says so.
LEMMA PartialBatchInv ==
    ASSUME FlushInv, NEW s \in SUBSET Outpoint, WritePartialBatch(s)
    PROVE  FlushInv'
<1> USE DEF FlushInv
<1>1. /\ UNCHANGED <<tip, view, file, undo, cursor, blkUnsynced, undoUnsynced, blkLost, undoLost,
                     index, durable, crashes>>
      /\ stage \in {"coins", "replay"} /\ stage' \in {stage, "failed"} /\ Ready
      /\ db' = Written(s) /\ dbBest' = Null /\ dbHeads' = <<tip, OldTip>>
  BY DEF WritePartialBatch, memory, files, Running
<1>2. /\ tip \in Block /\ OldTip \in Block \cup {Null} /\ Utxo[tip] = view
      /\ Mixed(db, CoinsOf(OldTip), Utxo[tip])
      /\ OldTip # Null => Covers(index.file, index.undo, OldTip)
      /\ Covers(index.file, index.undo, tip)
  BY <1>1, OldTipFacts DEF Ready
<1>3. db' \in View
  BY <1>1 DEF Written, View, Typed, Types
<1>4. dbHeads' # <<>> /\ dbHeads'[1] = tip /\ dbHeads'[2] = OldTip
  BY <1>1
<1>5. Typed'
  <2>1. dbHeads' \in Block \X (Block \cup {Null})
    BY <1>1, <1>2
  <2> QED BY <1>1, <1>2, <1>3, <2>1 DEF Typed, Types, Stage
<1>6. Truthful(db', dbBest', dbHeads')
  <2>1. \A o \in Outpoint : db'[o] = CoinsOf(OldTip)[o] \/ db'[o] = Utxo[tip][o]
    BY <1>1, <1>2 DEF Written, Mixed
  <2> QED BY <1>1, <1>4, <2>1 DEF Truthful, Mixed
<1>7. Covered(index', dbBest', dbHeads')
  BY <1>1, <1>2, <1>4 DEF Covered
<1>8. Ready'
  BY <1>1, <1>4 DEF Ready
<1> QED
  BY <1>1, <1>5, <1>6, <1>7, <1>8

\* The final batch leaves the coins of the tip, and says so.
LEMMA FinalBatchInv ==
    ASSUME FlushInv, WriteFinalBatch
    PROVE  FlushInv'
<1> USE DEF FlushInv
<1>1. /\ UNCHANGED <<tip, view, file, undo, cursor, blkUnsynced, undoUnsynced, blkLost, undoLost,
                     index, durable, crashes>>
      /\ stage \in {"coins", "replay"} /\ stage' \in {"run", "failed"} /\ Ready
      /\ db' = Written(Dirty) /\ dbBest' = tip /\ dbHeads' = <<>>
  BY DEF WriteFinalBatch, memory, files, Running
<1>2. /\ tip \in Block /\ tip # Null /\ Utxo[tip] = view
      /\ Covers(index.file, index.undo, tip)
  BY <1>1, TreeFacts DEF Ready
<1>3. db' = view
  BY <1>1 DEF Written, Dirty, View, Typed, Types
<1>4. Typed'
  BY <1>1, <1>2, <1>3 DEF Typed, Types, Stage
<1>5. Truthful(db', dbBest', dbHeads')
  BY <1>1, <1>2, <1>3 DEF Truthful, CoinsOf
<1>6. Covered(index', dbBest', dbHeads')
  BY <1>1, <1>2 DEF Covered
<1>7. Ready'
  BY <1>1 DEF Ready
<1> QED
  BY <1>1, <1>4, <1>5, <1>6, <1>7

\* What reaches the disk is a state the coins database was in.
LEMMA WriteBackInv ==
    ASSUME FlushInv, WriteBack
    PROVE  FlushInv'
<1> USE DEF FlushInv
<1>1. /\ UNCHANGED <<stage, tip, view, file, undo, cursor, blkUnsynced, undoUnsynced, blkLost,
                     undoLost, index, db, dbBest, dbHeads, crashes>>
      /\ durable' = <<db, dbBest, dbHeads>>
  BY DEF WriteBack, memory, files
<1>2. durable'[1] = db /\ durable'[2] = dbBest /\ durable'[3] = dbHeads
  BY <1>1
<1>3. Typed'
  BY <1>1, <1>2 DEF Typed, Types
<1>4. Running => Ready'
  BY <1>1 DEF Ready
<1> QED
  BY <1>1, <1>2, <1>3, <1>4 DEF Running

\* A crash leaves the coins database as it was or as the disk had it.
LEMMA CrashInv ==
    ASSUME FlushInv, Crash
    PROVE  FlushInv'
<1> USE DEF FlushInv
<1>1. /\ UNCHANGED <<index, durable>>
      /\ stage' = "down" /\ tip' = Null /\ view' = EmptyView /\ file' = NoFiles /\ undo' = NoFiles
      /\ cursor' = [file_num |-> 0, undo_height |-> 0]
      /\ crashes < MaxCrashes /\ crashes' = crashes + 1
  BY DEF Crash
<1>2. \/ UNCHANGED <<db, dbBest, dbHeads>>
      \/ db' = durable[1] /\ dbBest' = durable[2] /\ dbHeads' = durable[3]
  BY DEF Crash
<1>3. /\ blkUnsynced' \subseteq Block /\ undoUnsynced' \subseteq Block
      /\ blkLost' \subseteq Block /\ undoLost' \subseteq Block
  BY DEF Crash, Typed, Types, Indexed
<1>4. Typed'
  <2>1. UndoOK(NoFiles) /\ NoFiles \in [Block -> Nat \cup {Null}]
    BY DEF UndoOK, NoFiles
  <2>2. EmptyView \in View
    BY DEF EmptyView, View
  <2>3. crashes' \in 0 .. MaxCrashes /\ cursor' \in [file_num : Nat, undo_height : Nat]
    BY <1>1, FlushReplayConstants DEF Typed, Types
  <2>4. /\ db' \in View /\ dbBest' \in Block \cup {Null}
        /\ dbHeads' = <<>> \/ dbHeads' \in Block \X (Block \cup {Null})
    BY <1>2 DEF Typed, Types
  <2> QED BY <1>1, <1>3, <2>1, <2>2, <2>3, <2>4 DEF Typed, Types, Stage
<1>5. Truthful(db', dbBest', dbHeads') /\ Covered(index', dbBest', dbHeads')
  BY <1>1, <1>2
<1> QED
  BY <1>1, <1>4, <1>5 DEF Running

\* What LoadBlockIndex puts into memory.
LEMMA LoadFacts ==
    ASSUME FlushInv, LoadBlockIndex
    PROVE  /\ file' \in [Block -> Nat \cup {Null}] /\ undo' = index.undo
           /\ file'[Genesis] # Null
           /\ \A b \in Block : index.file[b] # Null => file'[b] # Null
           /\ cursor' \in [file_num : Nat, undo_height : Nat]
           /\ blkUnsynced' \subseteq Block
<1> USE DEF FlushInv
<1>0. Null \notin Nat /\ Genesis \in Block
  BY FlushReplayConstants, TreeFacts
<1>1. cursor' \in [file_num : Nat, undo_height : Nat]
  BY LastFile DEF LoadBlockIndex, Indexed, Typed
<1>2. blkUnsynced' \subseteq Block
  BY <1>0 DEF LoadBlockIndex, Typed, Types
<1>3. undo' = index.undo
  BY DEF LoadBlockIndex
<1> DEFINE f == index.file
<1>4. f \in [Block -> Nat \cup {Null}]
  BY DEF Typed
<1>5. file' = IF f[Genesis] = Null THEN [f EXCEPT ![Genesis] = 0] ELSE f
  BY DEF LoadBlockIndex
<1> HIDE DEF f
<1>6. /\ file' \in [Block -> Nat \cup {Null}]
      /\ file'[Genesis] # Null
      /\ \A b \in Block : f[b] # Null => file'[b] # Null
  BY <1>0, <1>4, <1>5
<1> QED
  BY <1>1, <1>2, <1>3, <1>6 DEF f

\* A clean start finds the coins of the tip that the database names.
LEMMA StartCleanInv ==
    ASSUME FlushInv, StartClean
    PROVE  FlushInv'
<1> USE DEF FlushInv
<1>1. /\ UNCHANGED <<undoUnsynced, blkLost, undoLost, index, db, dbBest, dbHeads, durable, crashes>>
      /\ stage = "down" /\ stage' \in {"run", "failed"} /\ dbHeads = <<>> /\ LoadBlockIndex
      /\ tip' = (IF dbBest = Null THEN Genesis ELSE dbBest) /\ view' = db
  BY DEF StartClean, coinsdb
<1>2. dbBest \in Block \cup {Null} /\ Genesis \in Block /\ db \in View
  BY TreeFacts DEF Typed, Types
<1>3. tip' \in Block /\ view' = Utxo[tip']
  BY <1>1, <1>2, UtxoFacts DEF Truthful, CoinsOf
<1>4. Typed'
  BY <1>1, <1>2, <1>3, LoadFacts DEF Typed, Types, Stage
<1>5. Covers(file', undo', tip')
  <2>1. CASE dbBest = Null
    BY <1>1, <2>1, LoadFacts, ChainSteps DEF Covers
  <2>2. CASE dbBest # Null
    <3>1. Covers(index.file, index.undo, tip') /\ Chain[tip'] \subseteq Block
      BY <1>1, <1>3, <2>2, ChainSteps DEF Covered
    <3> QED BY <1>1, <3>1, LoadFacts DEF Covers
  <2> QED BY <2>1, <2>2
<1>6. Ready'
  BY <1>1, <1>3, <1>5, LoadFacts DEF Ready
<1> QED
  BY <1>1, <1>4, <1>6

\* What ReplayBlocks reads on a chain that the block index database covers.
LEMMA AboveFacts ==
    ASSUME NEW b \in Block, NEW h \in Nat, NEW c \in Above(b, h)
    PROVE  c \in Block \ {Genesis} /\ c \in Chain[b]
<1>1. PICK i \in h + 2 .. Height[b] + 1 : c = Path[b][i]
  BY DEF Above
<1>2. Height[b] \in Nat
  BY HeightFacts
<1>3. i \in 2 .. Height[b] + 1 /\ i \in 1 .. Height[b] + 1
  BY <1>1, <1>2
<1> QED
  BY <1>1, <1>3, PathParent, ChainIsPath

\* The height where two chains part is a number.
LEMMA ForkType ==
    ASSUME NEW old \in Block \cup {Null}, NEW new \in Block
    PROVE  nForkHeight(old, new) \in Nat
<1>1. CASE old = Null
  BY <1>1 DEF nForkHeight
<1>2. CASE old # Null
  <2>1. old \in Block
    BY <1>2
  <2>2. ForkHeight(old, new) \in 0 .. Height[old] /\ Height[old] \in Nat
    BY <2>1, ForkFacts, HeightFacts
  <2> QED BY <1>2, <2>2 DEF nForkHeight
<1> QED
  BY <1>1, <1>2

\* A replay finds the undo data it needs, and arrives at the coins of the new tip.
LEMMA StartReplayInv ==
    ASSUME FlushInv, StartReplay
    PROVE  FlushInv'
<1> USE DEF FlushInv
<1> DEFINE new == dbHeads[1]
           old == dbHeads[2]
<1>1. /\ UNCHANGED <<undoUnsynced, blkLost, undoLost, index, db, dbBest, dbHeads, durable, crashes>>
      /\ stage = "down" /\ stage' \in {"replay", "failed"} /\ dbHeads # <<>> /\ LoadBlockIndex
      /\ tip' = new
      /\ view' = (IF CanReplay(old, new) THEN Replayed(old, new) ELSE db)
      /\ stage' = (IF CanReplay(old, new) THEN "replay" ELSE "failed")
  BY DEF StartReplay, coinsdb
<1>2. new \in Block /\ old \in Block \cup {Null} /\ db \in View
  BY <1>1 DEF Typed, Types
<1>3. /\ Covers(index.file, index.undo, new) /\ Mixed(db, CoinsOf(old), Utxo[new])
      /\ old # Null => Covers(index.file, index.undo, old)
  BY <1>1 DEF Covered, Truthful
<1> HIDE DEF new, old
<1>4. ASSUME old # Null, NEW b \in Above(old, nForkHeight(old, new))
      PROVE  index.undo[b] = TrueUndo(b)
  <2>1. b \in Block \ {Genesis} /\ b \in Chain[old]
    BY <1>2, <1>4, ForkType, AboveFacts
  <2> QED BY <1>3, <1>4, <2>1 DEF Covers, Typed, UndoOK
<1>5. Replayed(old, new) = Utxo[new] /\ Utxo[new] \in View
  BY <1>2, <1>3, <1>4, ReplayExact, UtxoFacts
<1>6. Typed'
  BY <1>1, <1>2, <1>5, LoadFacts DEF Typed, Types, Stage
<1>7. Covers(file', undo', tip')
  <2>1. Chain[new] \subseteq Block
    BY <1>2, ChainSteps
  <2> QED BY <1>1, <1>3, <2>1, LoadFacts DEF Covers
<1>8. Running' => Ready'
  <2>1. tip' \in Block /\ Covers(index'.file, index'.undo, tip') /\ (dbHeads' # <<>> => dbHeads'[1] = tip')
    BY <1>1, <1>2, <1>3 DEF new
  <2>2. Running' => view' = Utxo[tip'] /\ stage' = "replay"
    BY <1>1, <1>5 DEF Running
  <2> QED BY <1>1, <1>7, <2>1, <2>2, LoadFacts DEF Ready
<1> QED
  BY <1>1, <1>6, <1>8

\* Every step keeps the invariant.
LEMMA FlushInvNext == FlushInv /\ [Next]_vars => FlushInv'
<1> SUFFICES ASSUME FlushInv, [Next]_vars PROVE FlushInv'
  OBVIOUS
<1>1. CASE UNCHANGED vars
  BY <1>1 DEF FlushInv, Typed, Types, Running, Ready, vars
<1>2. CASE Next
  BY <1>2, SaveBlockInv, ConnectTipInv, DisconnectTipInv, FlushBlockFileInv, WriteIndexInv,
     PartialBatchInv, FinalBatchInv, WriteBackInv, CrashInv, StartCleanInv, StartReplayInv
     DEF Next
<1> QED
  BY <1>1, <1>2

\* The inductive invariant holds throughout.
THEOREM FlushInvariant == Spec => []FlushInv
BY FlushInvInit, FlushInvNext, PTL DEF Spec

\* The node's memory, files and databases keep their types: what is written,
\* lost in a crash and read back is always of the same form, and every undo
\* record has a coin for each input of each transaction of its block.
THEOREM FlushTypes == Spec => []TypeOK
<1>1. ASSUME FlushInv PROVE TypeOK
  <2>1. ASSUME NEW b \in Block, undo[b] # Null
        PROVE  /\ DOMAIN undo[b] = DOMAIN Vtx[b]
               /\ \A i \in DOMAIN Vtx[b] : undo[b][i] \in [Vtx[b][i].in -> Block \cup {Spent}]
    <3>1. b # Genesis /\ undo[b] = TrueUndo(b)
      BY <1>1, <2>1 DEF FlushInv, Typed, UndoOK
    <3>2. QED
      BY <3>1, TrueUndoFits
  <2>2. Types
    BY <1>1 DEF FlushInv, Typed
  <2>3. QED
    BY <2>1, <2>2 DEF TypeOK, UndoFits
<1> QED
  BY <1>1, FlushInvariant, PTL

\* The coins the node works with are those of its tip, in every tree of blocks
\* that connect, however many crashes come between the writes of a flush or of
\* a recovery, and whatever a power loss takes: ReplayBlocks arrives at the
\* coins of the new tip from any half-written database.
THEOREM TipCoinsAreExact == Spec => []TipCoinsExact
<1>1. FlushInv => TipCoinsExact
  BY DEF FlushInv, TipCoinsExact, Running, Ready
<1> QED
  BY <1>1, FlushInvariant, PTL

\* DB_BEST_BLOCK and DB_HEAD_BLOCKS never say of the coins database what is not
\* so, whichever of its writes were the last to be made or to reach the disk.
THEOREM MarkersAreTruthful == Spec => []MarkersTruthful
<1>1. FlushInv => MarkersTruthful
  <2> SUFFICES ASSUME FlushInv PROVE MarkersTruthful
    OBVIOUS
  <2>1. Truthful(db, dbBest, dbHeads)
    BY DEF FlushInv
  <2>2. dbHeads = <<>> => db = IF dbBest = Null THEN EmptyView ELSE Utxo[dbBest]
    BY <2>1 DEF Truthful, CoinsOf
  <2>3. dbHeads # <<>> => dbBest = Null
    BY <2>1 DEF Truthful
  <2>4. ASSUME dbHeads # <<>>, NEW o \in Outpoint
        PROVE  \/ db[o] = Utxo[dbHeads[1]][o]
               \/ db[o] = IF dbHeads[2] = Null THEN Spent ELSE Utxo[dbHeads[2]][o]
    BY <2>1, <2>4 DEF Truthful, Mixed, CoinsOf, EmptyView
  <2> QED BY <2>2, <2>3, <2>4 DEF MarkersTruthful
<1> QED
  BY <1>1, FlushInvariant, PTL

\* The coins database refers to no block that the block index database lacks,
\* with all of its chain and its undo data, because FlushStateToDisk writes the
\* index first and a crash loses only coins that were written later.
THEOREM IndexCoversTheCoins == Spec => []IndexCoversCoins
<1>1. FlushInv => IndexCoversCoins
  <2> SUFFICES ASSUME FlushInv, NEW b \in Referenced, NEW c \in Chain[b]
               PROVE  index.file[c] # Null /\ (c # Genesis => index.undo[c] # Null)
    BY DEF IndexCoversCoins
  <2>1. Covered(index, dbBest, dbHeads) /\ Covered(index, durable[2], durable[3]) /\ Typed
    BY DEF FlushInv
  <2>2. ASSUME NEW heads, heads = <<>> \/ heads \in Block \X (Block \cup {Null}),
               NEW best, Covered(index, best, heads), b \in {best} \cup ToSet(heads)
        PROVE  Covers(index.file, index.undo, b)
    <3>0. b # Null
      BY DEF Referenced
    <3>1. CASE b = best
      BY <2>2, <3>0, <3>1 DEF Covered
    <3>2. CASE b \in ToSet(heads)
      <4>1. heads # <<>>
        BY <3>2 DEF ToSet
      <4>2. heads \in Block \X (Block \cup {Null})
        BY <2>2, <4>1
      <4>3. b = heads[1] \/ b = heads[2]
        BY <3>2, <4>2 DEF ToSet
      <4> QED BY <2>2, <3>0, <4>1, <4>3 DEF Covered
    <3> QED BY <2>2, <3>1, <3>2
  <2>3. CASE b \in {dbBest} \cup ToSet(dbHeads)
    <3>1. Covers(index.file, index.undo, b)
      BY <2>1, <2>2, <2>3 DEF Typed, Types
    <3> QED BY <3>1 DEF Covers
  <2>4. CASE b \in {durable[2]} \cup ToSet(durable[3])
    <3>1. Covers(index.file, index.undo, b)
      BY <2>1, <2>2, <2>4 DEF Typed
    <3> QED BY <3>1 DEF Covers
  <2> QED BY <2>3, <2>4 DEF Referenced
<1> QED
  BY <1>1, FlushInvariant, PTL
-----------------------------------------------------------------------------
\* No crash takes anything that is still needed: a process that dies leaves
\* what it wrote to the system, and while there is only one block file every
\* flush syncs all of it.
Lossless == ~PowerLoss \/ Cardinality(Block) <= BlocksPerFile

\* The second inductive invariant, under that assumption: nothing the block
\* index database knows of is lost, because nothing it knows of is unsynced.
SafeInv ==
    /\ blkLost = {}
    /\ \A b \in undoLost : undo[b] = Null /\ index.undo[b] = Null
    /\ PowerLoss =>
         /\ cursor.file_num = 0
         /\ \A b \in Block : file[b] \in {0, Null} /\ index.file[b] \in {0, Null}
         /\ blkUnsynced \cup undoUnsynced \subseteq InFile(0)
         /\ blkUnsynced \cap Indexed = {}
         /\ \A b \in undoUnsynced : index.undo[b] = Null
         /\ stage \in {"index", "down"} => blkUnsynced = {} /\ undoUnsynced = {}
    /\ stage # "failed"

\* The initial state: only the genesis block is there, and not synced.
LEMMA SafeInvInit == Init => SafeInv
<1> SUFFICES ASSUME Init PROVE SafeInv
  OBVIOUS
<1>1. Genesis \in Block /\ Null \notin Nat
  BY TreeFacts, FlushReplayConstants
<1> QED
  BY <1>1 DEF Init, SafeInv, NoFiles, InFile, Indexed

\* The only block file is not full while a block is missing from it.
LEMMA RoomInFile ==
    ASSUME FlushInv, SafeInv, Lossless, PowerLoss, NEW b \in Block, file[b] = Null
    PROVE  ~FileFull
<1>0. Null \notin Nat /\ IsFiniteSet(Block) /\ cursor.file_num = 0 /\ BlocksPerFile \in Nat
  BY FlushReplayConstants DEF SafeInv
<1>1. InFile(0) \subseteq Block \ {b}
  BY <1>0 DEF InFile
<1>2. IsFiniteSet(Block \ {b}) /\ Cardinality(Block \ {b}) = Cardinality(Block) - 1
  BY <1>0, FS_RemoveElement
<1>3. Cardinality(InFile(0)) <= Cardinality(Block \ {b}) /\ Cardinality(InFile(0)) \in Nat
  BY <1>1, <1>2, FS_Subset, FS_CardinalityType
<1>4. Cardinality(Block) \in Nat /\ Cardinality(Block) <= BlocksPerFile
  BY <1>0, FS_CardinalityType DEF Lossless
<1> QED
  BY <1>0, <1>2, <1>3, <1>4 DEF FileFull

\* A saved block is unsynced, and unknown to the block index database.
LEMMA SaveBlockSafe ==
    ASSUME FlushInv, SafeInv, Lossless, NEW b \in Block, SaveBlockToDisk(b)
    PROVE  SafeInv'
<1>1. /\ UNCHANGED <<stage, undo, index, undoLost>> /\ stage = "run" /\ file[b] = Null
      /\ blkLost' = blkLost \ {b}
  BY DEF SaveBlockToDisk
<1>2. SUFFICES ASSUME PowerLoss
               PROVE  /\ cursor'.file_num = 0
                      /\ \A c \in Block : file'[c] \in {0, Null} /\ index'.file[c] \in {0, Null}
                      /\ blkUnsynced' \cup undoUnsynced' \subseteq InFile(0)'
                      /\ blkUnsynced' \cap Indexed' = {}
                      /\ \A c \in undoUnsynced' : index'.undo[c] = Null
  BY <1>1 DEF SafeInv
<1>3. ~FileFull /\ cursor.file_num = 0
  BY <1>1, <1>2, RoomInFile DEF SafeInv
<1>4. /\ cursor' = cursor /\ file' = [file EXCEPT ![b] = 0]
      /\ blkUnsynced' = blkUnsynced \cup {b} /\ undoUnsynced' = undoUnsynced
  BY <1>3 DEF SaveBlockToDisk
<1>5. index.file[b] = Null
  BY <1>1 DEF FlushInv, Running, Ready
<1>6. DOMAIN file = Block /\ file \in [Block -> Nat \cup {Null}]
  BY DEF FlushInv, Typed, Types
<1> QED
  BY <1>1, <1>2, <1>3, <1>4, <1>5, <1>6 DEF SafeInv, InFile, Indexed

\* Undo data that is written now is unknown to the block index database.
LEMMA ConnectTipSafe ==
    ASSUME FlushInv, SafeInv, Lossless, NEW b \in Block, ConnectTip(b)
    PROVE  SafeInv'
<1>1. /\ UNCHANGED <<file, blkUnsynced, blkLost, index>> /\ stage = "run" /\ stage' = "run"
      /\ file[b] # Null /\ WriteUndoDataForBlock(b)
  BY DEF ConnectTip, SafeInv, BlockReadable
<1>2. CASE undo[b] # Null
  BY <1>1, <1>2 DEF SafeInv, WriteUndoDataForBlock, InFile, Indexed
<1>3. CASE undo[b] = Null
  <2>1. index.undo[b] = Null
    BY <1>1, <1>3 DEF FlushInv, Running, Ready
  <2>2. undoLost' = undoLost \ {b} /\ \A c \in Block : c # b => undo'[c] = undo[c]
    BY <1>1, <1>3 DEF WriteUndoDataForBlock, FlushInv, Typed, UndoOK
  <2>3. undoLost \subseteq Block
    BY DEF FlushInv, Typed, Types
  <2>4. ASSUME PowerLoss PROVE undoUnsynced' = undoUnsynced \cup {b} /\ cursor'.file_num = 0
    <3>1. file[b] = 0 /\ cursor.file_num = 0
      BY <1>1, <2>4 DEF SafeInv
    <3>2. cursor \in [file_num : Nat, undo_height : Nat]
      BY DEF FlushInv, Typed, Types
    <3>3. undoUnsynced' = undoUnsynced \cup {b}
      BY <1>1, <1>3, <3>1 DEF WriteUndoDataForBlock
    <3>4. cursor' = cursor \/ cursor' = [cursor EXCEPT !.undo_height = Height[b]]
      BY <1>1, <1>3 DEF WriteUndoDataForBlock
    <3> QED BY <3>1, <3>2, <3>3, <3>4
  <2>5. ASSUME PowerLoss PROVE b \in InFile(0)
    BY <1>1, <2>5 DEF SafeInv, InFile
  <2> QED BY <1>1, <2>1, <2>2, <2>3, <2>4, <2>5 DEF SafeInv, InFile, Indexed
<1> QED
  BY <1>2, <1>3

\* The undo data of the tip can be read, and fits.
LEMMA DisconnectTipSafe ==
    ASSUME FlushInv, SafeInv, Lossless, DisconnectTip
    PROVE  SafeInv'
<1>1. /\ UNCHANGED <<file, undo, cursor, blkUnsynced, undoUnsynced, blkLost, undoLost, index>>
      /\ stage = "run" /\ tip # Genesis /\ Ready
  BY DEF DisconnectTip, files, FlushInv, Running
<1>2. tip \in Block \ {Genesis} /\ view = Utxo[tip]
  BY <1>1 DEF Ready
<1>3. undo[tip] # Null /\ undo[tip] = TrueUndo(tip)
  BY <1>1, <1>2, ChainSteps DEF Ready, Covers, FlushInv, Typed, UndoOK
<1>4. DisconnectClean(tip, view, undo[tip])
  BY <1>2, <1>3, UndoClean
<1>5. BlockReadable(tip) /\ UndoReadable(tip)
  BY <1>3 DEF SafeInv, BlockReadable, UndoReadable
<1>6. stage' = "run"
  BY <1>3, <1>4, <1>5 DEF DisconnectTip
<1> QED
  BY <1>1, <1>6 DEF SafeInv, InFile, Indexed

\* FlushStateToDisk syncs everything before it writes the index.
LEMMA FlushBlockFileSafe ==
    ASSUME FlushInv, SafeInv, Lossless, FlushChainstateBlockFile
    PROVE  SafeInv'
<1>1. /\ UNCHANGED <<file, undo, cursor, blkLost, undoLost, index>> /\ stage' = "index"
      /\ blkUnsynced' = blkUnsynced \ InFile(cursor.file_num)
      /\ undoUnsynced' = undoUnsynced \ InFile(cursor.file_num)
  BY DEF FlushChainstateBlockFile, memory
<1>2. PowerLoss => blkUnsynced' = {} /\ undoUnsynced' = {}
  BY <1>1 DEF SafeInv
<1> QED
  BY <1>1, <1>2 DEF SafeInv, InFile, Indexed

\* What the block index database gets to know has been synced.
LEMMA WriteIndexSafe ==
    ASSUME FlushInv, SafeInv, Lossless, NEW full \in BOOLEAN, WriteBlockIndexDB(full)
    PROVE  SafeInv'
<1>1. /\ UNCHANGED <<file, undo, cursor, blkUnsynced, undoUnsynced, blkLost, undoLost>>
      /\ stage = "index" /\ stage' \in {"run", "coins"}
      /\ index'.file = file /\ index'.undo = undo
  BY DEF WriteBlockIndexDB, FlushStateToDisk, memory, files
<1> QED
  BY <1>1 DEF SafeInv, InFile, Indexed

\* Steps that change neither the block files nor what is known of them.
LEMMA OtherSafe ==
    ASSUME SafeInv, stage' = stage \/ stage' = "run",
           UNCHANGED <<file, undo, cursor, blkUnsynced, undoUnsynced, blkLost, undoLost, index>>
    PROVE  SafeInv'
BY DEF SafeInv, InFile, Indexed

\* No assertion of BatchWrite fails.
LEMMA BatchSafe ==
    ASSUME FlushInv, SafeInv, (\E s \in SUBSET Outpoint : WritePartialBatch(s)) \/ WriteFinalBatch
    PROVE  SafeInv'
<1>1. stage \in {"coins", "replay"}
  BY DEF WritePartialBatch, WriteFinalBatch
<1>2. HeadsAssert
  BY <1>1, OldTipFacts
<1> QED
  BY <1>1, <1>2, OtherSafe DEF WritePartialBatch, WriteFinalBatch, memory, files

\* What a crash takes is unknown to the block index database.
LEMMA CrashSafe ==
    ASSUME FlushInv, SafeInv, Lossless, Crash
    PROVE  SafeInv'
<1>1. /\ index' = index /\ stage' = "down" /\ file' = NoFiles /\ undo' = NoFiles
      /\ cursor'.file_num = 0
  BY DEF Crash
<1>2. CASE ~PowerLoss
  BY <1>1, <1>2 DEF Crash, SafeInv, NoFiles, FlushInv, Typed, Types
<1>3. CASE PowerLoss
  <2>1. PICK lost \in SUBSET blkUnsynced : blkLost' = (blkLost \cup lost) \cap Indexed
    BY <1>3 DEF Crash
  <2>2. PICK gone \in SUBSET undoUnsynced : undoLost' = (undoLost \cup gone) \cap Indexed
    BY <1>3 DEF Crash
  <2>3. blkUnsynced' = {} /\ undoUnsynced' = {}
    BY <1>3 DEF Crash
  <2>4. blkLost' = {}
    BY <1>3, <2>1 DEF SafeInv
  <2>5. \A b \in undoLost' : b \in Block /\ index.undo[b] = Null
    BY <1>3, <2>2 DEF SafeInv, Indexed
  <2> QED BY <1>1, <2>3, <2>4, <2>5 DEF SafeInv, NoFiles, Indexed
<1> QED
  BY <1>2, <1>3

\* A start reads back the one file and what the index knows of it.
LEMMA LoadSafe ==
    ASSUME FlushInv, SafeInv, LoadBlockIndex, stage = "down", stage' \in {"run", "replay"},
           UNCHANGED <<undoUnsynced, blkLost, undoLost, index>>
    PROVE  SafeInv'
<1>0. Genesis \in Block /\ Null \notin Nat
  BY TreeFacts, FlushReplayConstants
<1> DEFINE f == index.file
<1>1. f \in [Block -> Nat \cup {Null}]
  BY DEF FlushInv, Typed
<1>2. undo' = index.undo /\ file' = IF f[Genesis] = Null THEN [f EXCEPT ![Genesis] = 0] ELSE f
  BY DEF LoadBlockIndex
<1>3. SUFFICES ASSUME PowerLoss
               PROVE  /\ cursor'.file_num = 0
                      /\ \A c \in Block : file'[c] \in {0, Null} /\ index'.file[c] \in {0, Null}
                      /\ blkUnsynced' \cup undoUnsynced' \subseteq InFile(0)'
                      /\ blkUnsynced' \cap Indexed' = {}
                      /\ \A c \in undoUnsynced' : index'.undo[c] = Null
  BY <1>2 DEF SafeInv
<1>4. cursor'.file_num = 0
  <2> DEFINE S == {0} \cup {index.file[b] : b \in Indexed}
  <2>1. S = {0}
    BY <1>3 DEF SafeInv, Indexed
  <2>2. Max(S) \in S
    <3>1. S \in SUBSET Nat /\ S # {} /\ \A h \in S : h <= 0
      BY <2>1
    <3> HIDE DEF S
    <3> QED BY <3>1, MaxMember
  <2>3. cursor'.file_num = Max(S)
    BY DEF LoadBlockIndex
  <2> QED BY <2>1, <2>2, <2>3
<1>5. /\ \A c \in Block : f[c] \in {0, Null}
      /\ blkUnsynced = {} /\ undoUnsynced = {}
  BY <1>3 DEF SafeInv
<1>6. blkUnsynced' = IF f[Genesis] = Null THEN {Genesis} ELSE {}
  BY <1>5 DEF LoadBlockIndex
<1>7. Indexed' = {b \in Block : f[b] # Null}
  BY DEF Indexed
<1>8. InFile(0)' = {b \in Block : file'[b] = 0}
  BY DEF InFile
<1> HIDE DEF f
<1>9. index'.file = f
  BY DEF f
<1>10. \A c \in Block : file'[c] \in {0, Null}
  BY <1>0, <1>1, <1>2, <1>5
<1>11. f[Genesis] = Null => file'[Genesis] = 0
  BY <1>0, <1>1, <1>2
<1> QED
  BY <1>0, <1>4, <1>5, <1>6, <1>7, <1>8, <1>9, <1>10, <1>11

\* A clean start finds the best block in the index.
LEMMA StartCleanSafe ==
    ASSUME FlushInv, SafeInv, Lossless, StartClean
    PROVE  SafeInv'
<1>1. dbBest = Null \/ dbBest \in Indexed
  BY ChainSteps DEF FlushInv, Typed, Types, Covered, Covers, Indexed
<1> QED
  BY <1>1, LoadSafe DEF StartClean

\* A replay finds all blocks and undo data that it reads.
LEMMA StartReplaySafe ==
    ASSUME FlushInv, SafeInv, Lossless, StartReplay
    PROVE  SafeInv'
<1> DEFINE new == dbHeads[1]
           old == dbHeads[2]
           fork == nForkHeight(old, new)
<1>1. /\ UNCHANGED <<undoUnsynced, blkLost, undoLost, index>>
      /\ stage = "down" /\ dbHeads # <<>> /\ LoadBlockIndex
      /\ stage' = IF CanReplay(old, new) THEN "replay" ELSE "failed"
  BY DEF StartReplay
<1>2. new \in Block /\ old \in Block \cup {Null}
  BY <1>1 DEF FlushInv, Typed, Types
<1>3. /\ Covers(index.file, index.undo, new)
      /\ old # Null => Covers(index.file, index.undo, old)
  BY <1>1 DEF FlushInv, Covered
<1> HIDE DEF new, old
<1>4. fork \in Nat
  BY <1>2, ForkType
<1>5. ASSUME NEW b \in Block, Covers(index.file, index.undo, b), NEW c \in Above(b, fork)
      PROVE  /\ c \in Indexed /\ index.undo[c] # Null
             /\ BlockReadable(c) /\ UndoReadable(c)
  <2>1. c \in Block \ {Genesis} /\ c \in Chain[b]
    BY <1>4, AboveFacts
  <2>2. c \in Indexed /\ index.undo[c] # Null
    BY <1>5, <2>1 DEF Covers, Indexed
  <2> QED BY <2>2 DEF SafeInv, BlockReadable, UndoReadable
<1>6. ASSUME NEW b \in Block, Covers(index.file, index.undo, b) PROVE b \in Indexed
  BY <1>6, ChainSteps DEF Covers, Indexed
<1>7. new \in Indexed /\ old \in Indexed \cup {Null}
  BY <1>2, <1>3, <1>6
<1>8. CanReplay(old, new)
  BY <1>2, <1>3, <1>5, <1>7 DEF CanReplay
<1> QED
  BY <1>1, <1>8, LoadSafe

\* Every step keeps the second invariant.
LEMMA SafeInvNext ==
    ASSUME Lossless
    PROVE  FlushInv /\ SafeInv /\ [Next]_vars => SafeInv'
<1> SUFFICES ASSUME FlushInv, SafeInv, [Next]_vars PROVE SafeInv'
  OBVIOUS
<1>1. CASE UNCHANGED vars
  BY <1>1, OtherSafe DEF vars
<1>2. CASE WriteBack
  BY <1>2, OtherSafe DEF WriteBack, memory, files
<1>3. CASE Next
  BY <1>2, <1>3, SaveBlockSafe, ConnectTipSafe, DisconnectTipSafe, FlushBlockFileSafe, WriteIndexSafe,
     BatchSafe, CrashSafe, StartCleanSafe, StartReplaySafe
     DEF Next
<1> QED
  BY <1>1, <1>3

\* After any crashes, between any two writes, the node finds every block and
\* undo record that it needs and no assertion of BatchWrite fails: if the
\* process dies and the system lives on, whatever the blocks and their files;
\* if the system dies too, as long as all blocks are in one block file, which
\* every flush syncs.
THEOREM RecoverySucceeds ==
    ASSUME Lossless
    PROVE  Spec => []RecoveryNeverFails
<1>1. SafeInv => RecoveryNeverFails
  BY DEF SafeInv, RecoveryNeverFails
<1>2. FlushInv /\ SafeInv /\ [Next]_vars => SafeInv'
  BY SafeInvNext
<1> QED
  BY <1>1, <1>2, SafeInvInit, FlushInvariant, PTL DEF Spec
=============================================================================
