---------------------------- MODULE TreeTheorems ----------------------------
(***************************************************************************)
(* What holds in every tree of blocks: functions defined by recursion      *)
(* along pprev exist, and so do those defined by recursion over an         *)
(* interval; and how heights, paths and ancestors are related.             *)
(*                                                                         *)
(* A recursive function is, in TLA+, a chosen solution of an equation.  It *)
(* has to be shown that there is one: TreeRecursion takes the least        *)
(* relation that is closed under the equation and shows, by induction      *)
(* along the tree, that it is a function.                                  *)
(***************************************************************************)
EXTENDS BlockTree, SumTheorems

\* Induction along a rooted tree.
LEMMA TreeInduction ==
    ASSUME NEW N, NEW r, NEW p, Rooted(N, r, p), NEW S \in SUBSET N,
           r \in S, \A b \in N \ {r} : p[b] \in S => b \in S
    PROVE  S = N
BY DEF Rooted

\* A relation that contains what the recursion demands.
Demanded(N, r, p, V, base, step, C) ==
    /\ <<r, base>> \in C
    /\ \A b \in N \ {r} : \A v \in V : <<p[b], v>> \in C => <<b, step[b][v]>> \in C

\* The least such relation.
Least(N, r, p, V, base, step) ==
    {x \in N \X V : \A C \in SUBSET (N \X V) : Demanded(N, r, p, V, base, step, C) => x \in C}

\* v is the only value the least relation has at b.
OnlyValue(R, V, b, v) == v \in V /\ <<b, v>> \in R /\ \A w \in V : <<b, w>> \in R => w = v

\* g solves a recursion along a tree.
Solves(N, r, p, V, base, step, g) ==
    /\ g \in [N -> V]
    /\ g[r] = base
    /\ \A b \in N \ {r} : g[b] = step[b][g[p[b]]]

\* A recursion along a tree has a solution.
LEMMA TreeRecursion ==
    ASSUME NEW N, NEW r, NEW p, Rooted(N, r, p), NEW V, NEW base \in V,
           NEW step \in [N \ {r} -> [V -> V]]
    PROVE  \E g : Solves(N, r, p, V, base, step, g)
<1> DEFINE R == Least(N, r, p, V, base, step)
           D(C) == Demanded(N, r, p, V, base, step, C)
           S == {b \in N : \E v \in V : OnlyValue(R, V, b, v)}
<1>0. r \in N /\ p \in [N \ {r} -> N] /\ \A b \in N \ {r} : \A v \in V : step[b][v] \in V
  BY DEF Rooted
<1>1. D(R) /\ R \in SUBSET (N \X V)
  BY <1>0 DEF Least, Demanded
<1>2. \A C \in SUBSET (N \X V) : D(C) => R \subseteq C
  BY DEF Least
<1> HIDE DEF R
<1>3. OnlyValue(R, V, r, base)
  <2>1. SUFFICES ASSUME NEW w \in V, <<r, w>> \in R, w # base PROVE FALSE
    BY <1>1 DEF OnlyValue, Demanded
  <2> DEFINE C == R \ {<<r, w>>}
  <2>2. D(C)
    BY <1>1, <2>1 DEF Demanded
  <2>3. C \in SUBSET (N \X V)
    BY <1>1
  <2>4. <<r, w>> \in C
    BY <1>2, <2>1, <2>2, <2>3
  <2> QED BY <2>4
<1>4. ASSUME NEW b \in N \ {r}, NEW v \in V, OnlyValue(R, V, p[b], v)
      PROVE  OnlyValue(R, V, b, step[b][v])
  <2>0. <<b, step[b][v]>> \in R /\ step[b][v] \in V
    BY <1>0, <1>1, <1>4 DEF OnlyValue, Demanded
  <2>1. SUFFICES ASSUME NEW w \in V, <<b, w>> \in R, w # step[b][v] PROVE FALSE
    BY <2>0 DEF OnlyValue
  <2> DEFINE C == R \ {<<b, w>>}
  <2>2. D(C)
    <3>1. <<r, base>> \in C
      BY <1>1 DEF Demanded
    <3>2. ASSUME NEW c \in N \ {r}, NEW u \in V, <<p[c], u>> \in C
          PROVE  <<c, step[c][u]>> \in C
      <4>1. <<c, step[c][u]>> \in R /\ <<p[c], u>> \in R
        BY <1>1, <3>2 DEF Demanded
      <4>2. c = b => u = v
        BY <1>4, <4>1 DEF OnlyValue
      <4> QED BY <2>1, <4>1, <4>2
    <3> QED BY <3>1, <3>2 DEF Demanded
  <2>3. C \in SUBSET (N \X V)
    BY <1>1
  <2>4. <<b, w>> \in C
    BY <1>2, <2>1, <2>2, <2>3
  <2> QED BY <2>4
<1>5. S = N
  <2>1. r \in S
    BY <1>0, <1>3
  <2>2. \A b \in N \ {r} : p[b] \in S => b \in S
    <3>1. ASSUME NEW b \in N \ {r}, p[b] \in S PROVE b \in S
      <4>1. PICK v \in V : OnlyValue(R, V, p[b], v)
        BY <3>1
      <4>2. OnlyValue(R, V, b, step[b][v]) /\ step[b][v] \in V
        BY <1>0, <1>4, <4>1
      <4> QED BY <4>2
    <3> QED BY <3>1
  <2>3. S \in SUBSET N
    OBVIOUS
  <2> HIDE DEF S
  <2> QED BY <2>1, <2>2, <2>3, TreeInduction
<1> DEFINE g == [b \in N |-> CHOOSE v \in V : OnlyValue(R, V, b, v)]
<1>6. \A b \in N : g[b] \in V /\ OnlyValue(R, V, b, g[b])
  BY <1>5
<1>7. g \in [N -> V]
  BY <1>6
<1> HIDE DEF g
<1>8. g[r] = base
  BY <1>0, <1>3, <1>6 DEF OnlyValue
<1>9. \A b \in N \ {r} : g[b] = step[b][g[p[b]]]
  <2>1. ASSUME NEW b \in N \ {r} PROVE g[b] = step[b][g[p[b]]]
    <3>1. p[b] \in N
      BY <1>0
    <3>2. g[p[b]] \in V /\ OnlyValue(R, V, p[b], g[p[b]])
      BY <1>6, <3>1
    <3>3. OnlyValue(R, V, b, step[b][g[p[b]]])
      BY <1>4, <3>2
    <3> QED BY <1>6, <3>3 DEF OnlyValue
  <2> QED BY <2>1
<1>10. Solves(N, r, p, V, base, step, g)
  BY <1>7, <1>8, <1>9 DEF Solves
<1> QED
  BY <1>10

\* Induction over an interval.
LEMMA IntervalInduction ==
    ASSUME NEW n \in Nat, NEW S, 0 \in S, \A i \in 1 .. n : i - 1 \in S => i \in S
    PROVE  \A i \in 0 .. n : i \in S
<1> DEFINE E == (0 .. n) \ S
<1>1. SUFFICES ASSUME E # {} PROVE FALSE
  OBVIOUS
<1>2. E \in SUBSET Nat
  OBVIOUS
<1>3. PICK k \in E : \A m \in E : k <= m
  <2> HIDE DEF E
  <2> QED BY <1>1, <1>2, NatLeast
<1>4. k \in 1 .. n /\ k - 1 \notin E /\ k - 1 \in 0 .. n
  BY <1>3
<1> QED
  BY <1>3, <1>4

\* g solves a recursion over an interval.
Iterates(n, V, base, step, g) ==
    /\ g \in [0 .. n -> V]
    /\ g[0] = base
    /\ \A i \in 1 .. n : g[i] = step[i][g[i - 1]]

\* A recursion over an interval has a solution.
LEMMA IntervalRecursion ==
    ASSUME NEW n \in Nat, NEW V, NEW base \in V, NEW step \in [1 .. n -> [V -> V]]
    PROVE  \E g : Iterates(n, V, base, step, g)
<1> DEFINE N == 0 .. n
           p == [i \in N \ {0} |-> i - 1]
<1>0. N \ {0} = 1 .. n
  OBVIOUS
<1>1. Rooted(N, 0, p)
  <2>1. 0 \in N /\ p \in [N \ {0} -> N]
    OBVIOUS
  <2>2. ASSUME NEW S \in SUBSET N, 0 \in S, \A b \in N \ {0} : p[b] \in S => b \in S
        PROVE  S = N
    <3>1. \A i \in 1 .. n : i - 1 \in S => i \in S
      BY <1>0, <2>2
    <3> QED BY <2>2, <3>1, IntervalInduction
  <2> QED BY <2>1, <2>2 DEF Rooted
<1>2. step \in [N \ {0} -> [V -> V]]
  BY <1>0
<1>3. \A i \in 1 .. n : p[i] = i - 1
  BY <1>0
<1> HIDE DEF N, p
<1>4. PICK g : Solves(N, 0, p, V, base, step, g)
  BY <1>1, <1>2, TreeRecursion
<1>5. \A i \in 1 .. n : g[i] = step[i][g[i - 1]]
  BY <1>0, <1>3, <1>4 DEF Solves
<1>6. Iterates(n, V, base, step, g)
  BY <1>4, <1>5 DEF N, Solves, Iterates
<1> QED
  BY <1>6
-----------------------------------------------------------------------------
\* Heights go up by one along the tree.
LEMMA HeightFacts ==
    /\ Height \in [Block -> Nat]
    /\ Height[Genesis] = 0
    /\ \A b \in Block \ {Genesis} : Height[b] = Height[Parent[b]] + 1
<1> DEFINE Eq(h) == h = [b \in Block |-> IF b = Genesis THEN 0 ELSE h[Parent[b]] + 1]
           step == [b \in Block \ {Genesis} |-> [v \in Nat |-> v + 1]]
<1>0. Genesis \in Block /\ Parent \in [Block \ {Genesis} -> Block]
  BY BlockTreeRooted DEF Rooted
<1>1. step \in [Block \ {Genesis} -> [Nat -> Nat]]
  OBVIOUS
<1>2. \A b \in Block \ {Genesis} : \A v \in Nat : step[b][v] = v + 1
  OBVIOUS
<1> HIDE DEF step
<1>3. PICK g : Solves(Block, Genesis, Parent, Nat, 0, step, g)
  BY <1>1, BlockTreeRooted, TreeRecursion
<1>4. Eq(g)
  BY <1>0, <1>2, <1>3 DEF Solves
<1>5. Height = CHOOSE h : Eq(h)
  BY DEF Height
<1>6. Eq(Height)
  BY <1>4, <1>5
<1>7. Height[Genesis] = 0 /\ \A b \in Block \ {Genesis} : Height[b] = Height[Parent[b]] + 1
  BY <1>0, <1>6
<1>8. \A b \in Block : Height[b] \in Nat
  <2> DEFINE S == {b \in Block : Height[b] \in Nat}
  <2>1. Genesis \in S
    BY <1>0, <1>7
  <2>2. \A b \in Block \ {Genesis} : Parent[b] \in S => b \in S
    BY <1>0, <1>7
  <2>3. S \in SUBSET Block
    OBVIOUS
  <2> HIDE DEF S
  <2>4. S = Block
    BY <2>1, <2>2, <2>3, BlockTreeRooted, TreeInduction
  <2> QED BY <2>4 DEF S
<1>9. Height \in [Block -> Nat]
  BY <1>6, <1>8
<1> QED
  BY <1>7, <1>9

\* The path to a block is the path to its parent and the block.
LEMMA PathFacts ==
    /\ Path \in [Block -> Seq(Block)]
    /\ Path[Genesis] = <<Genesis>>
    /\ \A b \in Block \ {Genesis} : Path[b] = Append(Path[Parent[b]], b)
<1> DEFINE Eq(h) == h = [b \in Block |-> IF b = Genesis THEN <<b>> ELSE Append(h[Parent[b]], b)]
           step == [b \in Block \ {Genesis} |-> [v \in Seq(Block) |-> Append(v, b)]]
<1>0. Genesis \in Block /\ Parent \in [Block \ {Genesis} -> Block]
  BY BlockTreeRooted DEF Rooted
<1>1. step \in [Block \ {Genesis} -> [Seq(Block) -> Seq(Block)]] /\ <<Genesis>> \in Seq(Block)
  BY <1>0
<1>2. \A b \in Block \ {Genesis} : \A v \in Seq(Block) : step[b][v] = Append(v, b)
  OBVIOUS
<1> HIDE DEF step
<1>3. PICK g : Solves(Block, Genesis, Parent, Seq(Block), <<Genesis>>, step, g)
  BY <1>1, BlockTreeRooted, TreeRecursion
<1>4. Eq(g)
  BY <1>0, <1>2, <1>3 DEF Solves
<1>5. Path = CHOOSE h : Eq(h)
  BY DEF Path
<1>6. Eq(Path)
  BY <1>4, <1>5
<1>7. Path[Genesis] = <<Genesis>> /\ \A b \in Block \ {Genesis} : Path[b] = Append(Path[Parent[b]], b)
  BY <1>0, <1>6
<1>8. \A b \in Block : Path[b] \in Seq(Block)
  <2> DEFINE S == {b \in Block : Path[b] \in Seq(Block)}
  <2>1. Genesis \in S
    BY <1>0, <1>1, <1>7
  <2>2. ASSUME NEW b \in Block \ {Genesis}, Parent[b] \in S PROVE b \in S
    <3>1. Path[b] = Append(Path[Parent[b]], b) /\ Path[Parent[b]] \in Seq(Block)
      BY <1>7, <2>2
    <3>2. \A v \in Seq(Block) : Append(v, b) \in Seq(Block)
      OBVIOUS
    <3>3. Path[b] \in Seq(Block)
      BY <3>1, <3>2, Zenon
    <3> QED BY <3>3
  <2>3. S \in SUBSET Block
    OBVIOUS
  <2> HIDE DEF S
  <2>4. S = Block
    BY <2>1, <2>2, <2>3, BlockTreeRooted, TreeInduction
  <2> QED BY <2>4 DEF S
<1>9. Path \in [Block -> Seq(Block)]
  BY <1>6, <1>8
<1> QED
  BY <1>7, <1>9

\* The chain of a block is the chain of its parent and the block.
LEMMA ChainFacts ==
    /\ Chain \in [Block -> SUBSET Block]
    /\ Chain[Genesis] = {Genesis}
    /\ \A b \in Block \ {Genesis} : Chain[b] = Chain[Parent[b]] \cup {b}
<1> DEFINE Eq(h) == h = [b \in Block |-> IF b = Genesis THEN {b} ELSE h[Parent[b]] \cup {b}]
           step == [b \in Block \ {Genesis} |-> [v \in SUBSET Block |-> v \cup {b}]]
<1>0. Genesis \in Block /\ Parent \in [Block \ {Genesis} -> Block]
  BY BlockTreeRooted DEF Rooted
<1>1. step \in [Block \ {Genesis} -> [SUBSET Block -> SUBSET Block]] /\ {Genesis} \in SUBSET Block
  BY <1>0
<1>2. \A b \in Block \ {Genesis} : \A v \in SUBSET Block : step[b][v] = v \cup {b}
  OBVIOUS
<1> HIDE DEF step
<1>3. PICK g : Solves(Block, Genesis, Parent, SUBSET Block, {Genesis}, step, g)
  BY <1>1, BlockTreeRooted, TreeRecursion
<1>4. Eq(g)
  BY <1>0, <1>2, <1>3 DEF Solves
<1>5. Chain = CHOOSE h : Eq(h)
  BY DEF Chain
<1>6. Eq(Chain)
  BY <1>4, <1>5
<1>7. Chain[Genesis] = {Genesis} /\ \A b \in Block \ {Genesis} : Chain[b] = Chain[Parent[b]] \cup {b}
  BY <1>0, <1>6
<1>8. \A b \in Block : Chain[b] \in SUBSET Block
  <2> DEFINE S == {b \in Block : Chain[b] \in SUBSET Block}
  <2>1. Genesis \in S
    BY <1>0, <1>7
  <2>2. \A b \in Block \ {Genesis} : Parent[b] \in S => b \in S
    BY <1>0, <1>7
  <2>3. S \in SUBSET Block
    OBVIOUS
  <2> HIDE DEF S
  <2>4. S = Block
    BY <2>1, <2>2, <2>3, BlockTreeRooted, TreeInduction
  <2> QED BY <2>4 DEF S
<1>9. Chain \in [Block -> SUBSET Block]
  BY <1>6, <1>8
<1> QED
  BY <1>7, <1>9

\* The path to a block has a block for each height, the last is the block
\* itself, and the others are those of the parent's path.
LEMMA PathAt ==
    ASSUME NEW b \in Block
    PROVE  /\ Len(Path[b]) = Height[b] + 1
           /\ Path[b][Height[b] + 1] = b
           /\ Path[b][1] = Genesis
           /\ \A i \in 1 .. Height[b] + 1 : Path[b][i] \in Block /\ Height[Path[b][i]] = i - 1
           /\ b # Genesis => \A i \in 1 .. Height[b] : Path[b][i] = Path[Parent[b]][i]
<1> DEFINE P(c) == /\ Len(Path[c]) = Height[c] + 1
                   /\ Path[c][Height[c] + 1] = c
                   /\ Path[c][1] = Genesis
                   /\ \A i \in 1 .. Height[c] + 1 : Path[c][i] \in Block /\ Height[Path[c][i]] = i - 1
                   /\ c # Genesis => \A i \in 1 .. Height[c] : Path[c][i] = Path[Parent[c]][i]
           S == {c \in Block : P(c)}
<1>0. Genesis \in Block /\ Parent \in [Block \ {Genesis} -> Block]
  BY BlockTreeRooted DEF Rooted
<1>1. Genesis \in S
  <2>1. Height[Genesis] = 0 /\ Path[Genesis] = <<Genesis>>
    BY HeightFacts, PathFacts
  <2>2. Len(<<Genesis>>) = 1 /\ <<Genesis>>[1] = Genesis
    OBVIOUS
  <2>3. /\ Len(Path[Genesis]) = Height[Genesis] + 1 /\ Path[Genesis][1] = Genesis
        /\ Height[Genesis] + 1 = 1
    BY <2>1, <2>2
  <2>4. P(Genesis)
    BY <1>0, <2>1, <2>3
  <2> QED BY <1>0, <2>4
<1>2. ASSUME NEW c \in Block \ {Genesis}, Parent[c] \in S PROVE c \in S
  <2> DEFINE q == Path[Parent[c]]
             n == Height[Parent[c]]
  <2>1. /\ q \in Seq(Block) /\ n \in Nat /\ Len(q) = n + 1 /\ Height[c] = n + 1
        /\ Path[c] = Append(q, c) /\ q[1] = Genesis
        /\ \A i \in 1 .. n + 1 : q[i] \in Block /\ Height[q[i]] = i - 1
    BY <1>0, <1>2, HeightFacts, PathFacts
  <2> HIDE DEF q, n
  <2>2. /\ Len(Append(q, c)) = n + 2 /\ Append(q, c)[n + 2] = c
        /\ \A i \in 1 .. n + 1 : Append(q, c)[i] = q[i]
    BY <2>1
  <2>3. /\ Len(Path[c]) = Height[c] + 1 /\ Path[c][Height[c] + 1] = c /\ Path[c][1] = Genesis
        /\ \A i \in 1 .. Height[c] : Path[c][i] = q[i]
    BY <2>1, <2>2
  <2>4. \A i \in 1 .. Height[c] + 1 : Path[c][i] \in Block /\ Height[Path[c][i]] = i - 1
    BY <2>1, <2>3
  <2> QED BY <2>3, <2>4 DEF q
<1>3. S \in SUBSET Block
  OBVIOUS
<1>4. S = Block
  <2> HIDE DEF S
  <2> QED BY <1>1, <1>2, <1>3, BlockTreeRooted, TreeInduction
<1> QED
  BY <1>4

\* The chain of a block is what its path goes through.
LEMMA ChainIsPath ==
    ASSUME NEW b \in Block
    PROVE  Chain[b] = {Path[b][i] : i \in 1 .. Height[b] + 1}
<1> DEFINE S == {c \in Block : Chain[c] = {Path[c][i] : i \in 1 .. Height[c] + 1}}
<1>0. Genesis \in Block /\ Parent \in [Block \ {Genesis} -> Block]
  BY BlockTreeRooted DEF Rooted
<1>1. Genesis \in S
  <2>1. Height[Genesis] + 1 = 1 /\ Path[Genesis][1] = Genesis /\ Chain[Genesis] = {Genesis}
    BY <1>0, HeightFacts, PathFacts, ChainFacts
  <2> QED BY <1>0, <2>1
<1>2. ASSUME NEW c \in Block \ {Genesis}, Parent[c] \in S PROVE c \in S
  <2>1. /\ Chain[c] = Chain[Parent[c]] \cup {c} /\ Height[c] = Height[Parent[c]] + 1
        /\ Height[Parent[c]] \in Nat /\ Parent[c] \in Block
        /\ Chain[Parent[c]] = {Path[Parent[c]][i] : i \in 1 .. Height[Parent[c]] + 1}
    BY <1>0, <1>2, HeightFacts, ChainFacts
  <2>2. /\ Path[c][Height[c] + 1] = c
        /\ \A i \in 1 .. Height[c] : Path[c][i] = Path[Parent[c]][i]
    BY PathAt
  <2>3. Chain[c] = {Path[c][i] : i \in 1 .. Height[c] + 1}
    BY <2>1, <2>2
  <2> QED BY <2>3
<1>3. S \in SUBSET Block
  OBVIOUS
<1>4. S = Block
  <2> HIDE DEF S
  <2> QED BY <1>1, <1>2, <1>3, BlockTreeRooted, TreeInduction
<1> QED
  BY <1>4

\* The path to a block on a path is the beginning of that path.
LEMMA PathPrefix ==
    ASSUME NEW b \in Block, NEW i \in 1 .. Height[b] + 1, NEW j \in 1 .. i
    PROVE  Path[Path[b][i]][j] = Path[b][j]
<1> DEFINE S == {c \in Block : \A k \in 1 .. Height[c] + 1 : \A m \in 1 .. k :
                                  Path[Path[c][k]][m] = Path[c][m]}
<1>0. Genesis \in Block /\ Parent \in [Block \ {Genesis} -> Block]
  BY BlockTreeRooted DEF Rooted
<1>1. Genesis \in S
  <2>1. Height[Genesis] + 1 = 1 /\ Path[Genesis][1] = Genesis
    BY <1>0, HeightFacts, PathFacts
  <2> QED BY <1>0, <2>1
<1>2. ASSUME NEW c \in Block \ {Genesis}, Parent[c] \in S PROVE c \in S
  <2>1. /\ Height[c] = Height[Parent[c]] + 1 /\ Height[Parent[c]] \in Nat
        /\ \A k \in 1 .. Height[Parent[c]] + 1 : \A m \in 1 .. k :
              Path[Path[Parent[c]][k]][m] = Path[Parent[c]][m]
    BY <1>0, <1>2, HeightFacts
  <2>2. /\ Path[c][Height[c] + 1] = c
        /\ \A k \in 1 .. Height[c] : Path[c][k] = Path[Parent[c]][k]
    BY PathAt
  <2>3. ASSUME NEW k \in 1 .. Height[c] + 1, NEW m \in 1 .. k
        PROVE  Path[Path[c][k]][m] = Path[c][m]
    <3>1. CASE k = Height[c] + 1
      BY <2>2, <3>1
    <3>2. CASE k \in 1 .. Height[c]
      <4>1. m \in 1 .. Height[c] /\ k \in 1 .. Height[Parent[c]] + 1
        BY <2>1, <3>2
      <4>2. Path[Path[Parent[c]][k]][m] = Path[Parent[c]][m]
        BY <2>1, <4>1
      <4> QED BY <2>2, <3>2, <4>1, <4>2
    <3> QED BY <2>1, <3>1, <3>2
  <2> QED BY <2>3
<1>3. S \in SUBSET Block
  OBVIOUS
<1>4. S = Block
  <2> HIDE DEF S
  <2> QED BY <1>1, <1>2, <1>3, BlockTreeRooted, TreeInduction
<1> QED
  BY <1>4

\* Along a path every block is the parent of the next.
LEMMA PathParent ==
    ASSUME NEW b \in Block, NEW i \in 2 .. Height[b] + 1
    PROVE  /\ Path[b][i] \in Block \ {Genesis}
           /\ Path[b][i - 1] = Parent[Path[b][i]]
<1> DEFINE c == Path[b][i]
<1>0. Height[b] \in Nat
  BY HeightFacts
<1>1. c \in Block /\ Height[c] = i - 1
  BY <1>0, PathAt
<1>2. c # Genesis
  BY <1>0, <1>1, HeightFacts
<1>3. Parent[c] \in Block /\ Height[Parent[c]] = i - 2
  BY <1>0, <1>1, <1>2, HeightFacts, BlockTreeRooted DEF Rooted
<1>4. Path[c][i - 1] = Path[b][i - 1]
  BY <1>0, PathPrefix
<1> HIDE DEF c
<1>5. Path[c][i - 1] = Path[Parent[c]][i - 1]
  BY <1>0, <1>1, <1>2, PathAt
<1>6. Path[Parent[c]][i - 1] = Parent[c]
  <2>1. Height[Parent[c]] + 1 = i - 1
    BY <1>0, <1>3
  <2> QED BY <1>3, <2>1, PathAt
<1> QED
  BY <1>1, <1>2, <1>4, <1>5, <1>6 DEF c

\* A bounded set of numbers has a maximum.
LEMMA MaxMember ==
    ASSUME NEW S \in SUBSET Nat, S # {}, NEW n \in Nat, \A h \in S : h <= n
    PROVE  Max(S) \in S /\ \A h \in S : h <= Max(S)
<1> DEFINE D == {k \in Nat : \E h \in S : k = n - h}
<1>1. D \in SUBSET Nat /\ D # {}
  <2>1. PICK h \in S : TRUE
    OBVIOUS
  <2>2. n - h \in D
    OBVIOUS
  <2> QED BY <2>2
<1>2. PICK k \in D : \A m \in D : k <= m
  BY <1>1, NatLeast
<1>3. PICK h \in S : k = n - h
  OBVIOUS
<1>4. \A g \in S : h >= g
  <2> TAKE g \in S
  <2>1. n - g \in D
    OBVIOUS
  <2> QED BY <1>2, <1>3, <2>1
<1>5. Max(S) \in S /\ \A g \in S : Max(S) >= g
  BY <1>3, <1>4 DEF Max
<1> QED
  BY <1>5

\* The last common ancestor.
LEMMA ForkFacts ==
    ASSUME NEW old \in Block, NEW new \in Block
    PROVE  /\ ForkHeight(old, new) \in 0 .. Height[old] /\ ForkHeight(old, new) \in 0 .. Height[new]
           /\ Path[old][ForkHeight(old, new) + 1] = Path[new][ForkHeight(old, new) + 1]
<1> DEFINE S == {h \in 0 .. Height[old] : h <= Height[new] /\ Path[old][h + 1] = Path[new][h + 1]}
<1>0. Height[old] \in Nat /\ Height[new] \in Nat
  BY HeightFacts
<1>1. 0 \in S
  BY <1>0, PathAt
<1>2. S \in SUBSET Nat /\ S # {} /\ \A h \in S : h <= Height[old]
  BY <1>0, <1>1
<1> DEFINE m == Max(S)
<1>3. m \in S
  <2> HIDE DEF S
  <2> QED BY <1>0, <1>2, MaxMember
<1>4. ForkHeight(old, new) = m
  BY DEF ForkHeight
<1> HIDE DEF m
<1>5. m \in 0 .. Height[old] /\ m <= Height[new] /\ Path[old][m + 1] = Path[new][m + 1]
  BY <1>3
<1> QED
  BY <1>0, <1>4, <1>5

\* The tree itself.
LEMMA TreeTypes == Genesis \in Block /\ Parent \in [Block \ {Genesis} -> Block]
BY BlockTreeRooted DEF Rooted

\* A chain has one block for each height, the one that its path has there.
LEMMA ChainAt ==
    ASSUME NEW a \in Block, NEW b \in Block
    PROVE  a \in Chain[b] <=> Height[a] <= Height[b] /\ Path[b][Height[a] + 1] = a
<1>0. Height[a] \in Nat /\ Height[b] \in Nat
  BY HeightFacts
<1>1. ASSUME a \in Chain[b] PROVE Height[a] <= Height[b] /\ Path[b][Height[a] + 1] = a
  <2>1. PICK i \in 1 .. Height[b] + 1 : a = Path[b][i]
    BY <1>1, ChainIsPath
  <2>2. Height[a] = i - 1
    BY <2>1, PathAt
  <2> QED BY <1>0, <2>1, <2>2
<1>2. ASSUME Height[a] <= Height[b], Path[b][Height[a] + 1] = a PROVE a \in Chain[b]
  <2>1. Height[a] + 1 \in 1 .. Height[b] + 1
    BY <1>0, <1>2
  <2> QED BY <1>2, <2>1, ChainIsPath
<1> QED
  BY <1>1, <1>2

\* A block is on its own chain, and so is its parent.
LEMMA ChainSelf ==
    ASSUME NEW b \in Block
    PROVE  b \in Chain[b] /\ Genesis \in Chain[b] /\ (b # Genesis => Parent[b] \in Chain[b])
<1>0. Genesis \in Block /\ Parent \in [Block \ {Genesis} -> Block] /\ Height[b] \in Nat
  BY TreeTypes, HeightFacts
<1>1. b \in Chain[b]
  BY <1>0, ChainFacts
<1>2. Genesis \in Chain[b]
  BY <1>0, PathAt, ChainAt, HeightFacts
<1>3. ASSUME b # Genesis PROVE Parent[b] \in Chain[b]
  <2>1. Parent[b] \in Chain[Parent[b]]
    BY <1>0, <1>3, ChainFacts
  <2> QED BY <1>3, <2>1, ChainFacts
<1> QED
  BY <1>1, <1>2, <1>3

\* What is on the chain of a block of a chain is on that chain.
LEMMA ChainTrans ==
    ASSUME NEW a \in Block, NEW b \in Block, a \in Chain[b]
    PROVE  Chain[a] \subseteq Chain[b]
<1> DEFINE S == {c \in Block : a \in Chain[c] => Chain[a] \subseteq Chain[c]}
<1>0. Genesis \in Block /\ Parent \in [Block \ {Genesis} -> Block]
  BY TreeTypes
<1>1. Genesis \in S
  BY <1>0, ChainFacts
<1>2. ASSUME NEW c \in Block \ {Genesis}, Parent[c] \in S PROVE c \in S
  <2>1. Chain[c] = Chain[Parent[c]] \cup {c}
    BY <1>2, ChainFacts
  <2> QED BY <1>2, <2>1
<1>3. S \in SUBSET Block
  OBVIOUS
<1>4. S = Block
  <2> HIDE DEF S
  <2> QED BY <1>1, <1>2, <1>3, BlockTreeRooted, TreeInduction
<1> QED
  BY <1>4

\* A set that has the parent of each of its blocks has their chains.
LEMMA ChainClosed ==
    ASSUME NEW S \in SUBSET Block, \A b \in S \ {Genesis} : Parent[b] \in S, NEW b \in S
    PROVE  Chain[b] \subseteq S
<1> DEFINE T == {c \in Block : c \in S => Chain[c] \subseteq S}
<1>0. Genesis \in Block /\ Parent \in [Block \ {Genesis} -> Block]
  BY TreeTypes
<1>1. Genesis \in T
  BY <1>0, ChainFacts
<1>2. ASSUME NEW c \in Block \ {Genesis}, Parent[c] \in T PROVE c \in T
  <2>1. Chain[c] = Chain[Parent[c]] \cup {c}
    BY <1>2, ChainFacts
  <2> QED BY <1>2, <2>1
<1>3. T \in SUBSET Block
  OBVIOUS
<1>4. T = Block
  <2> HIDE DEF T
  <2> QED BY <1>1, <1>2, <1>3, BlockTreeRooted, TreeInduction
<1> QED
  BY <1>4

\* Of two blocks of a chain one is on the chain of the other.
LEMMA ChainLinear ==
    ASSUME NEW b \in Block, NEW a \in Chain[b], NEW c \in Chain[b]
    PROVE  a \in Chain[c] \/ c \in Chain[a]
<1> DEFINE S == {d \in Block : \A x, y \in Chain[d] : x \in Chain[y] \/ y \in Chain[x]}
<1>0. Genesis \in Block /\ Parent \in [Block \ {Genesis} -> Block]
  BY TreeTypes
<1>1. Genesis \in S
  BY <1>0, ChainFacts
<1>2. ASSUME NEW d \in Block \ {Genesis}, Parent[d] \in S PROVE d \in S
  <2>1. Chain[d] = Chain[Parent[d]] \cup {d}
    BY <1>2, ChainFacts
  <2> QED BY <1>2, <2>1
<1>3. S \in SUBSET Block
  OBVIOUS
<1>4. S = Block
  <2> HIDE DEF S
  <2> QED BY <1>1, <1>2, <1>3, BlockTreeRooted, TreeInduction
<1> QED
  BY <1>4

\* A block that is not the last of a chain has a successor on it.
LEMMA ChainNext ==
    ASSUME NEW b \in Block, NEW a \in Chain[b], a # b
    PROVE  \E c \in Chain[b] \ {Genesis} : Parent[c] = a
<1> DEFINE S == {d \in Block : \A x \in Chain[d] : x # d =>
                                 \E c \in Chain[d] \ {Genesis} : Parent[c] = x}
<1>0. Genesis \in Block /\ Parent \in [Block \ {Genesis} -> Block]
  BY TreeTypes
<1>1. Genesis \in S
  BY <1>0, ChainFacts
<1>2. ASSUME NEW d \in Block \ {Genesis}, Parent[d] \in S PROVE d \in S
  <2>1. Chain[d] = Chain[Parent[d]] \cup {d}
    BY <1>2, ChainFacts
  <2> QED BY <1>2, <2>1
<1>3. S \in SUBSET Block
  OBVIOUS
<1>4. S = Block
  <2> HIDE DEF S
  <2> QED BY <1>1, <1>2, <1>3, BlockTreeRooted, TreeInduction
<1> QED
  BY <1>4

\* A chain has a block of every height up to that of its last block.
LEMMA ChainHeights ==
    ASSUME NEW b \in Block, NEW h \in 0 .. Height[b]
    PROVE  \E c \in Chain[b] : Height[c] = h
<1>0. Height[b] \in Nat
  BY HeightFacts
<1>1. h + 1 \in 1 .. Height[b] + 1
  BY <1>0
<1>2. Path[b][h + 1] \in Chain[b]
  BY <1>1, ChainIsPath
<1>3. Height[Path[b][h + 1]] = h
  BY <1>0, <1>1, PathAt
<1> QED
  BY <1>2, <1>3
=============================================================================
