-------------------------- MODULE BaseIndexProofs --------------------------
(***************************************************************************)
(* For any tree of blocks, any reorganisations, crashes, shutdowns and     *)
(* failed writes, the tables of the index agree with its best block and    *)
(* with its locator, and a caller of BlockUntilSyncedToCurrentChain finds  *)
(* every block of the chain it called for.                                 *)
(*                                                                         *)
(* The tables are right along one chain, which ends in the frontier: the   *)
(* block that the thread of Sync() or the callbacks have appended last, or *)
(* have rewound to.  The best block and the locator are on that chain.     *)
(*                                                                         *)
(* That the callbacks get to the chain of the caller is a matter of the    *)
(* queue.  The parent of a block in the queue is on the chain of the block *)
(* before it, so that once the index takes a notification it takes all     *)
(* that follow; hence it gets to the last of them, or is there already.    *)
(***************************************************************************)
EXTENDS BaseIndex, TreeTheorems

\* The chain that ends in x, and its header: nothing if there is no block.
ChainOf(x) == IF x = Null THEN {} ELSE Chain[x]
PathOf(x) == IF x = Null THEN <<>> ELSE Path[x]

Event == {BlockConnected(b) : b \in Block \ {Genesis}}
            \cup {ChainStateFlushed(b) : b \in Block} \cup {SyncPromise}

Threads == [pc : {"loop", "recheck", "rewind", "append", "done"},
            pindex : Block \cup {Null}, next : Block \cup {Null}]
Readers == [pc : {"idle", "waiting", "returned"}, tip : Block \cup {Null}]
Table == [Heights -> HeightValue \cup {Null}]

\* The types of the state.
Typed ==
    /\ tip \in Block /\ diskTip \in Block
    /\ best \in Block \cup {Null} /\ locator \in Block \cup {Null}
    /\ running \in (Block \ {Genesis}) \cup {Null} /\ synced \in BOOLEAN
    /\ queue \in Seq(Event)
    /\ sync \in Threads
    /\ reader \in Readers
    /\ byHeight \in Table
    /\ last_header \in Seq(Block)

\* Where the thread of Sync(), the callbacks and the caller can be.
Phases ==
    /\ node = "down" => /\ best = Null /\ queue = <<>> /\ running = Null /\ ~synced
                        /\ sync.pc = "done" /\ reader.pc = "idle"
    /\ synced => sync.pc = "done" /\ best # Null
    /\ running # Null => synced /\ Parent[running] = best
    /\ reader.pc # "idle" => synced /\ reader.tip # Null
    /\ sync.pc = "recheck" => sync.pindex # Null /\ best = sync.pindex
    /\ sync.pc = "rewind" => sync.pindex # Null /\ sync.next \in Block \ {Genesis}
    /\ sync.pc = "append" => sync.next # Null

\* The block up to which the tables are right.
Frontier ==
    IF node = "down" THEN locator
    ELSE IF sync.pc \in {"loop", "recheck", "rewind"} THEN sync.pindex
    ELSE IF sync.pc = "append" THEN (IF sync.next = Genesis THEN Null ELSE Parent[sync.next])
    ELSE best

\* The height table has every block of the chain of frontier f, and on that
\* chain are the best block x and the locator y.
TablesRight(table, f, x, y) ==
    /\ {x, y} \ {Null} \subseteq ChainOf(f)
    /\ \A b \in ChainOf(f) : table[Height[b]] # Null /\ table[Height[b]].hash = b

\* The headers are computed from those of the ancestors.
HeadersRight(table) ==
    \A h \in Heights : table[h] # Null => table[h].header = Path[table[h].hash]

\* The blocks of the chain that ends in t are found, with best block x.
Served(table, hashes, x, t) ==
    \A b \in Chain[t] : /\ table[Height[b]] # Null
                        /\ b \in ChainOf(x) \/ hashes[b] = Path[b]

\* Notifications of blocks.
Connected(q, i) == q[i].type = "BlockConnected"
Promised(q, i) == q[i].type = "SyncWithValidationInterfaceQueue"

\* The parent of a block in the queue is on the chain of the one before.
Linked(q) ==
    \A i, j \in 1 .. Len(q) : i < j /\ Connected(q, i) /\ Connected(q, j) =>
        \/ Parent[q[j].block] \in Chain[q[i].block]
        \/ \E k \in 1 .. Len(q) : i < k /\ k < j /\ Connected(q, k)

\* t is on the chain of the last block among the first n of the queue.
LastLeadsTo(q, n, t) ==
    \A i \in 1 .. n : Connected(q, i) =>
        \/ t \in Chain[q[i].block]
        \/ \E k \in 1 .. n : i < k /\ Connected(q, k)

\* From best block x, the first n of the queue lead to a chain with t: t is on
\* the chain of x, or one of them is taken, and with it all that follow.
Reaches(q, n, x, t) ==
    \/ t \in ChainOf(x)
    \/ \E i \in 1 .. n : Connected(q, i) /\ Parent[q[i].block] \in ChainOf(x)

\* Caller r waits for the promise at k, and is going to find its chain.
PromiseRight(q, k, x, r, on) ==
    /\ r.pc = "waiting"
    /\ LastLeadsTo(q, k, r.tip)
    /\ on => Reaches(q, k, x, r.tip)
    /\ \A j \in 1 .. Len(q) : Promised(q, j) => j = k

\* The queue leads the index to tip t and, before the promise of caller r is
\* kept, to the caller's chain, if the index takes notifications.
QueueRight(q, x, t, r, on) ==
    /\ Linked(q)
    /\ LastLeadsTo(q, Len(q), t)
    /\ on => Reaches(q, Len(q), x, t)
    /\ \A k \in 1 .. Len(q) : Promised(q, k) => PromiseRight(q, k, x, r, on)

\* The writes of the locator in a rewind have been done.
Sound == "rewind" \notin failed

\* What the best block is going to be when the callback that runs is done.
Coming == IF running # Null THEN running ELSE best

\* The inductive invariant.
IndexInv ==
    /\ Typed
    /\ Phases
    /\ TablesRight(byHeight, Frontier, best, locator)
    /\ Sound => HeadersRight(byHeight)
    /\ Sound /\ node # "down" => last_header = PathOf(Frontier)
    /\ QueueRight(queue, Coming, tip, reader, synced /\ Sound)
    /\ Sound /\ reader.pc = "returned" => Served(byHeight, byHash, best, reader.tip)
-----------------------------------------------------------------------------
(* The queue                                                               *)

\* What is in the queue.
LEMMA EventFacts ==
    ASSUME NEW q \in Seq(Event), NEW i \in 1 .. Len(q)
    PROVE  /\ q[i] \in Event
           /\ Connected(q, i) => q[i].block \in Block \ {Genesis} /\ ~Promised(q, i)
<1>1. q[i] \in Event
  OBVIOUS
<1> QED
  BY <1>1 DEF Event, Connected, Promised, BlockConnected, ChainStateFlushed, SyncPromise

\* The queue without its first notification.
LEMMA TailAt ==
    ASSUME NEW q \in Seq(Event), q # <<>>
    PROVE  /\ Tail(q) \in Seq(Event) /\ Len(q) \in Nat \ {0} /\ Len(Tail(q)) = Len(q) - 1
           /\ Head(q) = q[1]
           /\ \A i \in 1 .. Len(q) - 1 : Tail(q)[i] = q[i + 1]
OBVIOUS

\* Without the first notification the others are linked as before, and what
\* the last one leads to stays.
LEMMA TailLinked ==
    ASSUME NEW q \in Seq(Event), q # <<>>
    PROVE  /\ Linked(q) => Linked(Tail(q))
           /\ \A n \in 1 .. Len(q) : \A t : LastLeadsTo(q, n, t) => LastLeadsTo(Tail(q), n - 1, t)
<1>1. /\ Len(q) \in Nat \ {0} /\ Len(Tail(q)) = Len(q) - 1
      /\ \A i \in 1 .. Len(q) - 1 : Tail(q)[i] = q[i + 1]
  BY TailAt
<1>2. \A i \in 1 .. Len(q) - 1 : Connected(Tail(q), i) <=> Connected(q, i + 1)
  BY <1>1 DEF Connected
<1>3. ASSUME Linked(q) PROVE Linked(Tail(q))
  <2>1. SUFFICES ASSUME NEW i \in 1 .. Len(q) - 1, NEW j \in 1 .. Len(q) - 1, i < j,
                        Connected(Tail(q), i), Connected(Tail(q), j),
                        Parent[Tail(q)[j].block] \notin Chain[Tail(q)[i].block]
                 PROVE  \E k \in 1 .. Len(q) - 1 : i < k /\ k < j /\ Connected(Tail(q), k)
    BY <1>1 DEF Linked
  <2>2. PICK k \in 1 .. Len(q) : i + 1 < k /\ k < j + 1 /\ Connected(q, k)
    BY <1>1, <1>2, <1>3, <2>1 DEF Linked
  <2>3. k - 1 \in 1 .. Len(q) - 1 /\ i < k - 1 /\ k - 1 < j /\ Connected(Tail(q), k - 1)
    BY <1>1, <1>2, <2>2
  <2> QED BY <2>3
<1>4. ASSUME NEW n \in 1 .. Len(q), NEW t, LastLeadsTo(q, n, t) PROVE LastLeadsTo(Tail(q), n - 1, t)
  <2>1. SUFFICES ASSUME NEW i \in 1 .. n - 1, Connected(Tail(q), i), t \notin Chain[Tail(q)[i].block]
                 PROVE  \E k \in 1 .. n - 1 : i < k /\ Connected(Tail(q), k)
    BY DEF LastLeadsTo
  <2>2. PICK k \in 1 .. n : i + 1 < k /\ Connected(q, k)
    BY <1>1, <1>2, <1>4, <2>1 DEF LastLeadsTo
  <2>3. k - 1 \in 1 .. n - 1 /\ i < k - 1 /\ Connected(Tail(q), k - 1)
    BY <1>1, <1>2, <2>2
  <2> QED BY <2>3
<1> QED
  BY <1>3, <1>4

\* A notification that is not taken is not the one that leads to t.
LEMMA TailReaches ==
    ASSUME NEW q \in Seq(Event), q # <<>>, NEW x, NEW t, NEW n \in 1 .. Len(q),
           ~(Connected(q, 1) /\ Parent[q[1].block] \in ChainOf(x)), Reaches(q, n, x, t)
    PROVE  Reaches(Tail(q), n - 1, x, t)
<1>1. /\ Len(q) \in Nat \ {0} /\ Len(Tail(q)) = Len(q) - 1
      /\ \A i \in 1 .. Len(q) - 1 : Tail(q)[i] = q[i + 1]
  BY TailAt
<1>2. SUFFICES ASSUME t \notin ChainOf(x)
               PROVE  \E i \in 1 .. n - 1 : Connected(Tail(q), i) /\ Parent[Tail(q)[i].block] \in ChainOf(x)
  BY DEF Reaches
<1>3. PICK i \in 1 .. n : Connected(q, i) /\ Parent[q[i].block] \in ChainOf(x)
  BY <1>2 DEF Reaches
<1>4. i # 1
  BY <1>3
<1>5. i - 1 \in 1 .. n - 1 /\ Tail(q)[i - 1] = q[i]
  BY <1>1, <1>4
<1>6. Connected(Tail(q), i - 1) /\ Parent[Tail(q)[i - 1].block] \in ChainOf(x)
  BY <1>3, <1>5 DEF Connected
<1> QED
  BY <1>5, <1>6

\* A notification that is taken leads, with those that follow, to t: the next
\* one connects to it, and without a next one it is the last.
LEMMA TakeReaches ==
    ASSUME NEW q \in Seq(Event), q # <<>>, NEW t, NEW n \in 1 .. Len(q),
           Linked(q), LastLeadsTo(q, n, t), Connected(q, 1)
    PROVE  Reaches(Tail(q), n - 1, q[1].block, t)
<1>1. /\ Len(q) \in Nat \ {0} /\ Len(Tail(q)) = Len(q) - 1
      /\ \A i \in 1 .. Len(q) - 1 : Tail(q)[i] = q[i + 1]
  BY TailAt
<1>2. q[1].block \in Block /\ q[1].block # Null
  BY <1>1, EventFacts, BaseIndexConstants
<1>3. ChainOf(q[1].block) = Chain[q[1].block]
  BY <1>2 DEF ChainOf
<1> DEFINE E == {k \in Nat : k \in 2 .. n /\ Connected(q, k)}
<1>4. CASE E = {}
  <2>1. t \in Chain[q[1].block]
    BY <1>1, <1>4 DEF LastLeadsTo
  <2> QED BY <1>3, <2>1 DEF Reaches
<1>5. CASE E # {}
  <2>1. E \in SUBSET Nat
    OBVIOUS
  <2>2. PICK k \in E : \A m \in E : k <= m
    <3> HIDE DEF E
    <3> QED BY <1>5, <2>1, NatLeast
  <2>3. Parent[q[k].block] \in Chain[q[1].block]
    <3>1. k \in 2 .. n /\ Connected(q, k) /\ \A m \in 2 .. n : Connected(q, m) => k <= m
      BY <2>2
    <3> HIDE DEF E
    <3>2. \A m \in 1 .. Len(q) : 1 < m /\ m < k => ~Connected(q, m)
      BY <1>1, <3>1
    <3> QED BY <1>1, <3>1, <3>2 DEF Linked
  <2>4. k - 1 \in 1 .. n - 1 /\ Tail(q)[k - 1] = q[k] /\ Connected(q, k)
    BY <1>1, <2>2
  <2>5. Connected(Tail(q), k - 1) /\ Parent[Tail(q)[k - 1].block] \in ChainOf(q[1].block)
    BY <1>3, <2>3, <2>4 DEF Connected
  <2> QED BY <2>4, <2>5 DEF Reaches
<1> QED
  BY <1>4, <1>5

\* The queue after its first notification, which the index does not take or
\* which is the caller's promise.
LEMMA QueueDrop ==
    ASSUME NEW q \in Seq(Event), q # <<>>, NEW x, NEW t, NEW r, NEW s, NEW on,
           QueueRight(q, x, t, r, on), s = r \/ Promised(q, 1),
           on => ~(Connected(q, 1) /\ Parent[q[1].block] \in ChainOf(x))
    PROVE  QueueRight(Tail(q), x, t, s, on)
<1>1. /\ Len(q) \in Nat \ {0} /\ Len(Tail(q)) = Len(q) - 1
      /\ \A i \in 1 .. Len(q) - 1 : Tail(q)[i] = q[i + 1]
  BY TailAt
<1>2. Linked(Tail(q)) /\ LastLeadsTo(Tail(q), Len(Tail(q)), t)
  BY <1>1, TailLinked DEF QueueRight
<1>3. on => Reaches(Tail(q), Len(Tail(q)), x, t)
  BY <1>1, TailReaches DEF QueueRight
<1>4. ASSUME NEW k \in 1 .. Len(Tail(q)), Promised(Tail(q), k)
      PROVE  PromiseRight(Tail(q), k, x, s, on)
  <2>1. k + 1 \in 1 .. Len(q) /\ Promised(q, k + 1) /\ k = (k + 1) - 1 /\ k + 1 # 1
    BY <1>1, <1>4 DEF Promised
  <2>2. PromiseRight(q, k + 1, x, r, on)
    BY <2>1 DEF QueueRight
  <2>3. s = r
    BY <1>1, <2>1, <2>2 DEF PromiseRight
  <2>4. LastLeadsTo(Tail(q), k, r.tip) /\ (on => Reaches(Tail(q), k, x, r.tip))
    BY <2>1, <2>2, TailLinked, TailReaches DEF PromiseRight
  <2>5. \A j \in 1 .. Len(Tail(q)) : Promised(Tail(q), j) => j = k
    <3>1. ASSUME NEW j \in 1 .. Len(Tail(q)), Promised(Tail(q), j) PROVE j = k
      <4>1. j + 1 \in 1 .. Len(q) /\ Promised(q, j + 1)
        BY <1>1, <3>1 DEF Promised
      <4> QED BY <2>2, <4>1 DEF PromiseRight
    <3> QED BY <3>1
  <2> QED BY <2>2, <2>3, <2>4, <2>5 DEF PromiseRight
<1> QED
  BY <1>2, <1>3, <1>4 DEF QueueRight

\* The queue after a notification that the index takes: its best block is
\* going to be that block.
LEMMA QueueTake ==
    ASSUME NEW q \in Seq(Event), q # <<>>, NEW x, NEW t, NEW r, NEW on, NEW off,
           QueueRight(q, x, t, r, on), Connected(q, 1)
    PROVE  QueueRight(Tail(q), q[1].block, t, r, off)
<1>1. /\ Len(q) \in Nat \ {0} /\ Len(Tail(q)) = Len(q) - 1
      /\ \A i \in 1 .. Len(q) - 1 : Tail(q)[i] = q[i + 1]
  BY TailAt
<1>2. Linked(Tail(q)) /\ LastLeadsTo(Tail(q), Len(Tail(q)), t)
  BY <1>1, TailLinked DEF QueueRight
<1>3. Reaches(Tail(q), Len(Tail(q)), q[1].block, t)
  BY <1>1, TakeReaches DEF QueueRight
<1>4. ASSUME NEW k \in 1 .. Len(Tail(q)), Promised(Tail(q), k)
      PROVE  PromiseRight(Tail(q), k, q[1].block, r, off)
  <2>1. k + 1 \in 1 .. Len(q) /\ Promised(q, k + 1) /\ k = (k + 1) - 1
    BY <1>1, <1>4 DEF Promised
  <2>2. PromiseRight(q, k + 1, x, r, on)
    BY <2>1 DEF QueueRight
  <2>3. LastLeadsTo(Tail(q), k, r.tip) /\ Reaches(Tail(q), k, q[1].block, r.tip)
    BY <2>1, <2>2, TailLinked, TakeReaches DEF PromiseRight, QueueRight
  <2>4. \A j \in 1 .. Len(Tail(q)) : Promised(Tail(q), j) => j = k
    <3>1. ASSUME NEW j \in 1 .. Len(Tail(q)), Promised(Tail(q), j) PROVE j = k
      <4>1. j + 1 \in 1 .. Len(q) /\ Promised(q, j + 1)
        BY <1>1, <3>1 DEF Promised
      <4> QED BY <2>2, <4>1 DEF PromiseRight
    <3> QED BY <3>1
  <2> QED BY <2>2, <2>3, <2>4 DEF PromiseRight
<1> QED
  BY <1>2, <1>3, <1>4 DEF QueueRight

\* q2 begins with q: what the first n lead to stays.
LEMMA PrefixLeads ==
    ASSUME NEW q, NEW q2, NEW n \in Nat, \A i \in 1 .. n : q2[i] = q[i], NEW x, NEW t
    PROVE  /\ LastLeadsTo(q, n, t) <=> LastLeadsTo(q2, n, t)
           /\ Reaches(q, n, x, t) <=> Reaches(q2, n, x, t)
<1>1. \A i \in 1 .. n : Connected(q2, i) <=> Connected(q, i)
  BY DEF Connected
<1> QED
  BY <1>1 DEF LastLeadsTo, Reaches

\* The queue after a notification of a flush.
LEMMA QueueFlush ==
    ASSUME NEW q \in Seq(Event), NEW b \in Block, NEW x, NEW t, NEW r, NEW on,
           QueueRight(q, x, t, r, on)
    PROVE  QueueRight(Append(q, ChainStateFlushed(b)), x, t, r, on)
<1> DEFINE q2 == Append(q, ChainStateFlushed(b))
           n == Len(q)
<1>1. /\ n \in Nat /\ Len(q2) = n + 1 /\ q2[n + 1] = ChainStateFlushed(b)
      /\ \A i \in 1 .. n : q2[i] = q[i]
  OBVIOUS
<1>2. /\ ~Connected(q2, n + 1) /\ ~Promised(q2, n + 1)
      /\ \A i \in 1 .. n : /\ Connected(q2, i) <=> Connected(q, i)
                           /\ Promised(q2, i) <=> Promised(q, i)
  BY <1>1 DEF Connected, Promised, ChainStateFlushed
<1>3. \A y : LastLeadsTo(q2, n, y) => LastLeadsTo(q2, n + 1, y)
  BY <1>1, <1>2 DEF LastLeadsTo
<1>4. \A y : Reaches(q2, n, x, y) => Reaches(q2, n + 1, x, y)
  BY <1>1 DEF Reaches
<1> HIDE DEF q2, n
<1>5. Linked(q2)
  BY <1>1, <1>2 DEF Linked, QueueRight, n
<1>6. LastLeadsTo(q2, n + 1, t) /\ (on => Reaches(q2, n + 1, x, t))
  BY <1>1, <1>3, <1>4, PrefixLeads DEF QueueRight, n
<1>7. ASSUME NEW k \in 1 .. n + 1, Promised(q2, k) PROVE PromiseRight(q2, k, x, r, on)
  <2>1. k \in 1 .. n /\ Promised(q, k)
    BY <1>1, <1>2, <1>7
  <2>2. PromiseRight(q, k, x, r, on)
    BY <2>1 DEF QueueRight, n
  <2>3. k \in Nat /\ \A i \in 1 .. k : q2[i] = q[i]
    BY <1>1, <2>1
  <2>4. LastLeadsTo(q2, k, r.tip) /\ (on => Reaches(q2, k, x, r.tip))
    BY <2>2, <2>3, PrefixLeads DEF PromiseRight
  <2>5. \A j \in 1 .. n + 1 : Promised(q2, j) => j = k
    BY <1>1, <1>2, <2>2 DEF PromiseRight, n
  <2> QED BY <1>1, <2>2, <2>4, <2>5 DEF PromiseRight
<1> QED
  BY <1>1, <1>5, <1>6, <1>7 DEF QueueRight, q2

\* The queue after the promise of a caller, who asks about the tip.
LEMMA QueuePromise ==
    ASSUME NEW q \in Seq(Event), NEW x, NEW t, NEW r, NEW on, r.pc # "waiting",
           QueueRight(q, x, t, r, on)
    PROVE  QueueRight(Append(q, SyncPromise), x, t, [pc |-> "waiting", tip |-> t], on)
<1> DEFINE q2 == Append(q, SyncPromise)
           n == Len(q)
           s == [pc |-> "waiting", tip |-> t]
<1>1. /\ n \in Nat /\ Len(q2) = n + 1 /\ q2[n + 1] = SyncPromise
      /\ \A i \in 1 .. n : q2[i] = q[i]
  OBVIOUS
<1>2. /\ ~Connected(q2, n + 1)
      /\ \A i \in 1 .. n : /\ Connected(q2, i) <=> Connected(q, i)
                           /\ Promised(q2, i) <=> Promised(q, i)
  BY <1>1 DEF Connected, Promised, SyncPromise
<1>3. \A y : LastLeadsTo(q2, n, y) => LastLeadsTo(q2, n + 1, y)
  BY <1>1, <1>2 DEF LastLeadsTo
<1>4. \A y : Reaches(q2, n, x, y) => Reaches(q2, n + 1, x, y)
  BY <1>1 DEF Reaches
<1>0. s.pc = "waiting" /\ s.tip = t
  OBVIOUS
<1> HIDE DEF q2, n, s
<1>5. Linked(q2)
  BY <1>1, <1>2 DEF Linked, QueueRight, n
<1>6. LastLeadsTo(q2, n + 1, t) /\ (on => Reaches(q2, n + 1, x, t))
  BY <1>1, <1>3, <1>4, PrefixLeads DEF QueueRight, n
<1>7. \A k \in 1 .. n : ~Promised(q2, k)
  BY <1>2 DEF QueueRight, PromiseRight, n
<1>8. ASSUME NEW k \in 1 .. n + 1, Promised(q2, k) PROVE PromiseRight(q2, k, x, s, on)
  <2>1. k = n + 1 /\ \A j \in 1 .. n + 1 : Promised(q2, j) => j = k
    BY <1>1, <1>7, <1>8
  <2> QED BY <1>0, <1>1, <1>6, <2>1 DEF PromiseRight
<1> QED
  BY <1>1, <1>5, <1>6, <1>8 DEF QueueRight, q2, s

\* The notifications s are of the blocks on the way from the chain of t to b.
Climbs(s, t, b) ==
    /\ \A i \in 1 .. Len(s) : Connected(s, i)
    /\ Len(s) = 0 => b \in Chain[t]
    /\ Len(s) > 0 => Parent[s[1].block] \in Chain[t] /\ s[Len(s)].block = b
    /\ \A i \in 1 .. Len(s) - 1 : Parent[s[i + 1].block] = s[i].block

\* The queue after the notifications of a move of the tip.
LEMMA QueueMove ==
    ASSUME NEW q \in Seq(Event), NEW s \in Seq(Event), NEW x \in Block \cup {Null},
           NEW t \in Block, NEW b \in Block, NEW r, NEW on,
           QueueRight(q, x, t, r, on), Climbs(s, t, b)
    PROVE  QueueRight(q \o s, x, b, r, on)
<1> DEFINE q2 == q \o s
           n == Len(q)
           m == Len(s)
<1>1. /\ n \in Nat /\ m \in Nat /\ Len(q2) = n + m
      /\ \A i \in 1 .. n : q2[i] = q[i]
      /\ \A i \in 1 .. m : q2[n + i] = s[i]
  OBVIOUS
<1>2. \A i \in 1 .. n : /\ Connected(q2, i) <=> Connected(q, i)
                        /\ Promised(q2, i) <=> Promised(q, i)
  BY <1>1 DEF Connected, Promised
<1>3. \A i \in 1 .. m : s[i].block \in Block \ {Genesis} /\ Connected(s, i) /\ ~Promised(s, i)
  BY EventFacts DEF Climbs
<1>4. \A i \in 1 .. m : Connected(q2, n + i) /\ ~Promised(q2, n + i)
  BY <1>1, <1>3 DEF Connected, Promised
<1>5. /\ m = 0 => b \in Chain[t]
      /\ m > 0 => Parent[q2[n + 1].block] \in Chain[t] /\ q2[n + m].block = b
      /\ \A i \in 1 .. m - 1 : Parent[q2[n + i + 1].block] = q2[n + i].block
  <2>1. m > 0 => q2[n + 1] = s[1] /\ q2[n + m] = s[m]
    BY <1>1
  <2>2. ASSUME NEW i \in 1 .. m - 1 PROVE Parent[q2[n + i + 1].block] = q2[n + i].block
    <3> HIDE DEF q2, n
    <3>1. i \in 1 .. m /\ i + 1 \in 1 .. m /\ n + i + 1 = n + (i + 1)
      BY <1>1
    <3>2. q2[n + i] = s[i] /\ q2[n + i + 1] = s[i + 1]
      BY <1>1, <3>1
    <3> QED BY <3>2 DEF Climbs
  <2> HIDE DEF q2, n
  <2> QED BY <2>1, <2>2 DEF Climbs
<1>6. \A i \in 1 .. m : q2[n + i].block \in Block \ {Genesis}
  BY <1>1, <1>3
<1> HIDE DEF q2, n, m
<1>7. \A i \in 1 .. n + m : i \in 1 .. n \/ (i - n \in 1 .. m /\ i = n + (i - n))
  BY <1>1
<1>8. Linked(q2)
  <2>1. SUFFICES ASSUME NEW i \in 1 .. n + m, NEW j \in 1 .. n + m, i < j,
                        Connected(q2, i), Connected(q2, j)
                 PROVE  \/ Parent[q2[j].block] \in Chain[q2[i].block]
                        \/ \E k \in 1 .. n + m : i < k /\ k < j /\ Connected(q2, k)
    BY <1>1 DEF Linked
  <2>2. CASE j \in 1 .. n
    <3>1. i \in 1 .. n
      BY <1>1, <2>1, <2>2
    <3>2. \/ Parent[q[j].block] \in Chain[q[i].block]
          \/ \E k \in 1 .. n : i < k /\ k < j /\ Connected(q, k)
      BY <1>2, <2>1, <2>2, <3>1 DEF QueueRight, Linked, n
    <3> QED BY <1>1, <1>2, <2>2, <3>1, <3>2
  <2>3. CASE j = n + 1 /\ i \in 1 .. n
    <3>1. 1 \in 1 .. m
      BY <1>1, <2>1, <2>3
    <3>2. Parent[q2[j].block] \in Chain[t]
      BY <1>1, <1>5, <2>3, <3>1
    <3>3. \/ t \in Chain[q[i].block]
          \/ \E k \in 1 .. n : i < k /\ Connected(q, k)
      BY <1>2, <2>1, <2>3 DEF QueueRight, LastLeadsTo, n
    <3>4. CASE t \in Chain[q[i].block]
      <4>1. q[i].block \in Block
        BY <1>2, <2>1, <2>3, EventFacts DEF n
      <4>2. Chain[t] \subseteq Chain[q[i].block]
        BY <3>4, <4>1, ChainTrans
      <4> QED BY <1>1, <2>3, <3>2, <4>2
    <3>5. CASE \E k \in 1 .. n : i < k /\ Connected(q, k)
      <4>1. PICK k \in 1 .. n : i < k /\ Connected(q, k)
        BY <3>5
      <4>2. k \in 1 .. n + m /\ k < j /\ Connected(q2, k)
        BY <1>1, <1>2, <2>3, <4>1
      <4> QED BY <4>1, <4>2
    <3> QED BY <3>3, <3>4, <3>5
  <2>4. CASE j - 1 > n /\ i = j - 1
    <3>1. i - n \in 1 .. m - 1 /\ n + (i - n) = i /\ n + (i - n) + 1 = j
      BY <1>1, <2>1, <2>4
    <3>2. Parent[q2[j].block] = q2[i].block
      BY <1>5, <3>1
    <3>3. i - n \in 1 .. m
      BY <1>1, <3>1
    <3>4. q2[i].block \in Block
      BY <1>6, <3>1, <3>3
    <3> QED BY <3>2, <3>4, ChainSelf
  <2>5. CASE j - 1 > n /\ i # j - 1
    <3>1. j - 1 \in 1 .. n + m /\ j - 1 - n \in 1 .. m /\ n + (j - 1 - n) = j - 1 /\ i < j - 1 /\ j - 1 < j
      BY <1>1, <2>1, <2>5
    <3>2. Connected(q2, j - 1)
      BY <1>4, <3>1
    <3> QED BY <3>1, <3>2
  <2> QED BY <1>1, <2>1, <2>2, <2>3, <2>4, <2>5
<1>9. LastLeadsTo(q2, n + m, b)
  <2>1. CASE m = 0
    <3>1. LastLeadsTo(q2, n, t)
      BY <1>1, PrefixLeads DEF QueueRight, n
    <3>2. ASSUME NEW i \in 1 .. n, Connected(q2, i)
          PROVE  \/ b \in Chain[q2[i].block]
                 \/ \E k \in 1 .. n : i < k /\ Connected(q2, k)
      <4>1. q2[i].block \in Block
        BY <1>1, <1>2, <3>2, EventFacts DEF n
      <4>2. t \in Chain[q2[i].block] => Chain[t] \subseteq Chain[q2[i].block]
        BY <4>1, ChainTrans
      <4> QED BY <1>5, <2>1, <3>1, <3>2, <4>2 DEF LastLeadsTo
    <3> QED BY <1>1, <2>1, <3>2 DEF LastLeadsTo
  <2>2. CASE m > 0
    <3>1. b \in Chain[q2[n + m].block]
      BY <1>5, <2>2, ChainSelf
    <3>2. m \in 1 .. m
      BY <1>1, <2>2
    <3>3. Connected(q2, n + m) /\ n + m \in 1 .. n + m
      BY <1>1, <1>4, <3>2
    <3>4. \A i \in 1 .. n + m : i = n + m \/ i < n + m
      BY <1>1
    <3> QED BY <3>1, <3>3, <3>4 DEF LastLeadsTo
  <2> QED BY <1>1, <2>1, <2>2
<1>10. ASSUME on PROVE Reaches(q2, n + m, x, b)
  <2>1. Reaches(q2, n, x, t)
    BY <1>1, <1>10, PrefixLeads DEF QueueRight, n
  <2>2. CASE t \in ChainOf(x)
    <3>1. x \in Block /\ ChainOf(x) = Chain[x]
      BY <2>2 DEF ChainOf
    <3>2. Chain[t] \subseteq ChainOf(x)
      BY <2>2, <3>1, ChainTrans
    <3>3. CASE m = 0
      BY <1>5, <3>2, <3>3 DEF Reaches
    <3>4. CASE m > 0
      <4>1. 1 \in 1 .. m /\ n + 1 \in 1 .. n + m
        BY <1>1, <3>4
      <4>2. Connected(q2, n + 1) /\ Parent[q2[n + 1].block] \in ChainOf(x)
        BY <1>4, <1>5, <3>2, <3>4, <4>1
      <4> QED BY <4>1, <4>2 DEF Reaches
    <3> QED BY <1>1, <3>3, <3>4
  <2>3. CASE t \notin ChainOf(x)
    <3>1. \A i \in 1 .. n : i \in 1 .. n + m
      BY <1>1
    <3> QED BY <2>1, <2>3, <3>1 DEF Reaches
  <2> QED BY <2>2, <2>3
<1>11. ASSUME NEW k \in 1 .. n + m, Promised(q2, k) PROVE PromiseRight(q2, k, x, r, on)
  <2>1. k \in 1 .. n /\ Promised(q, k)
    BY <1>2, <1>4, <1>7, <1>11
  <2>2. PromiseRight(q, k, x, r, on)
    BY <2>1 DEF QueueRight, n
  <2>3. k \in Nat /\ \A i \in 1 .. k : q2[i] = q[i]
    BY <1>1, <2>1
  <2>4. LastLeadsTo(q2, k, r.tip) /\ (on => Reaches(q2, k, x, r.tip))
    BY <2>2, <2>3, PrefixLeads DEF PromiseRight
  <2>5. \A j \in 1 .. n + m : Promised(q2, j) => j = k
    BY <1>2, <1>4, <1>7, <2>2 DEF PromiseRight, n
  <2> QED BY <1>1, <2>2, <2>4, <2>5 DEF PromiseRight
<1> QED
  BY <1>1, <1>8, <1>9, <1>10, <1>11 DEF QueueRight, q2
-----------------------------------------------------------------------------
(* The chain                                                               *)

\* Genesis, heights and Null.
LEMMA BlockFacts ==
    /\ Null \notin Block /\ Genesis \in Block /\ FirstTip \in Block
    /\ Parent \in [Block \ {Genesis} -> Block]
    /\ Height \in [Block -> Nat] /\ Height[Genesis] = 0
    /\ \A b \in Block \ {Genesis} : Height[b] = Height[Parent[b]] + 1
    /\ \A b \in Block : Height[b] \in Heights
BY TreeTypes, HeightFacts, BaseIndexConstants DEF Heights

\* GetAncestor finds out whether a block is on a chain.
LEMMA OnChainIff ==
    ASSUME NEW a \in Block, NEW b \in Block
    PROVE  OnChain(a, b) <=> a \in Chain[b]
BY BlockFacts, ChainAt DEF OnChain, GetAncestor

\* A notification connects to the best block if its parent is on the chain.
LEMMA ConnectsIff ==
    ASSUME NEW x \in Block, NEW b \in Block \ {Genesis}
    PROVE  GetAncestor(x, Height[b] - 1) = Parent[b] <=> Parent[b] \in Chain[x]
<1>1. Parent[b] \in Block /\ Height[Parent[b]] = Height[b] - 1
  BY BlockFacts
<1>2. GetAncestor(x, Height[b] - 1) = Parent[b] <=> OnChain(Parent[b], x)
  BY <1>1 DEF OnChain
<1> QED
  BY <1>1, <1>2, OnChainIff

\* The part of a path that is above height f.
LEMMA PathAbove ==
    ASSUME NEW b \in Block, NEW f \in 0 .. Height[b]
    PROVE  LET c == SubSeq(Path[b], f + 2, Height[b] + 1)
           IN  /\ c \in Seq(Block) /\ Len(c) = Height[b] - f
               /\ \A i \in 1 .. Height[b] - f : c[i] = Path[b][f + 1 + i] /\ c[i] \in Block \ {Genesis}
<1> DEFINE c == SubSeq(Path[b], f + 2, Height[b] + 1)
<1>1. Height[b] \in Nat /\ Path[b] \in Seq(Block) /\ Len(Path[b]) = Height[b] + 1
  BY HeightFacts, PathFacts, PathAt
<1>2. /\ c \in Seq(Block) /\ Len(c) = Height[b] - f
      /\ \A i \in 1 .. Height[b] - f : c[i] = Path[b][f + 1 + i]
  <2> DEFINE w == Path[b]
             n == Height[b]
  <2>1. n \in Nat /\ w \in Seq(Block) /\ Len(w) = n + 1 /\ f \in 0 .. n
    BY <1>1
  <2> HIDE DEF w, n
  <2>2. SubSeq(w, f + 2, n + 1) \in Seq(Block) /\ Len(SubSeq(w, f + 2, n + 1)) = n - f
    BY <2>1
  <2>3. \A i \in 1 .. n - f : SubSeq(w, f + 2, n + 1)[i] = w[f + 1 + i]
    BY <2>1
  <2> QED BY <2>2, <2>3 DEF w, n
<1>3. ASSUME NEW i \in 1 .. Height[b] - f PROVE Path[b][f + 1 + i] \in Block \ {Genesis}
  <2>1. f + 1 + i \in 2 .. Height[b] + 1
    BY <1>1
  <2> QED BY <2>1, PathParent
<1> QED
  BY <1>2, <1>3

\* A move of the tip notifies of the blocks from the fork to the new tip.
LEMMA MoveClimbs ==
    ASSUME NEW t \in Block, NEW b \in Block
    PROVE  LET c == SubSeq(Path[b], ForkHeight(t, b) + 2, Height[b] + 1)
               s == [i \in DOMAIN c |-> BlockConnected(c[i])]
           IN  s \in Seq(Event) /\ Climbs(s, t, b)
<1> DEFINE f == ForkHeight(t, b)
           c == SubSeq(Path[b], f + 2, Height[b] + 1)
           s == [i \in DOMAIN c |-> BlockConnected(c[i])]
           n == Height[b] - f
<1>1. /\ f \in 0 .. Height[t] /\ f \in 0 .. Height[b] /\ Path[t][f + 1] = Path[b][f + 1]
      /\ Height[t] \in Nat /\ Height[b] \in Nat
  BY ForkFacts, HeightFacts
<1> HIDE DEF f
<1>2. /\ c \in Seq(Block) /\ Len(c) = n /\ n \in Nat
      /\ \A i \in 1 .. n : c[i] = Path[b][f + 1 + i] /\ c[i] \in Block \ {Genesis}
  <2>1. n \in Nat
    BY <1>1
  <2>2. /\ c \in Seq(Block) /\ Len(c) = Height[b] - f
        /\ \A i \in 1 .. Height[b] - f : c[i] = Path[b][f + 1 + i] /\ c[i] \in Block \ {Genesis}
    BY <1>1, PathAbove, Zenon
  <2> HIDE DEF c
  <2> QED BY <2>1, <2>2
<1> HIDE DEF c
<1>3. DOMAIN c = 1 .. n
  BY <1>2
<1>4. s \in Seq(Event) /\ Len(s) = n /\ \A i \in 1 .. n : s[i] = BlockConnected(c[i])
  <2>1. \A i \in 1 .. n : BlockConnected(c[i]) \in Event
    BY <1>2 DEF Event
  <2> HIDE DEF n
  <2>2. s \in [1 .. n -> Event]
    BY <1>3, <2>1
  <2>3. \A i \in 1 .. n : s[i] = BlockConnected(c[i])
    BY <1>3
  <2> HIDE DEF s
  <2>4. s \in Seq(Event) /\ Len(s) = n
    BY <1>2, <2>2
  <2> QED BY <2>3, <2>4
<1> HIDE DEF s
<1>5. \A i \in 1 .. n : Connected(s, i) /\ s[i].block = Path[b][f + 1 + i]
  <2>1. ASSUME NEW i \in 1 .. n PROVE Connected(s, i) /\ s[i].block = Path[b][f + 1 + i]
    <3>1. s[i] = BlockConnected(c[i]) /\ c[i] = Path[b][f + 1 + i]
      BY <1>2, <1>4
    <3>2. s[i].type = "BlockConnected" /\ s[i].block = c[i]
      BY <3>1 DEF BlockConnected
    <3> QED BY <3>1, <3>2 DEF Connected
  <2> QED BY <2>1
<1>6. Path[b][f + 1] \in Chain[t]
  <2>1. f + 1 \in 1 .. Height[t] + 1
    BY <1>1
  <2> QED BY <1>1, <2>1, ChainIsPath
<1>7. n = 0 => b \in Chain[t]
  BY <1>1, <1>6, PathAt
<1>8. n > 0 => Parent[s[1].block] \in Chain[t] /\ s[n].block = b
  <2>1. ASSUME n > 0 PROVE Parent[s[1].block] \in Chain[t] /\ s[n].block = b
    <3>1. 1 \in 1 .. n /\ n \in 1 .. n /\ f + 1 + 1 \in 2 .. Height[b] + 1 /\ f + 1 + n = Height[b] + 1
      BY <1>1, <2>1
    <3>2. Path[b][(f + 1 + 1) - 1] = Parent[Path[b][f + 1 + 1]]
      BY <3>1, PathParent
    <3>3. (f + 1 + 1) - 1 = f + 1
      BY <1>1
    <3>4. s[1].block = Path[b][f + 1 + 1] /\ s[n].block = Path[b][Height[b] + 1]
      BY <1>5, <3>1
    <3> QED BY <1>6, <3>2, <3>3, <3>4, PathAt
  <2> QED BY <2>1
<1>9. ASSUME NEW i \in 1 .. n - 1 PROVE Parent[s[i + 1].block] = s[i].block
  <2>1. /\ i \in 1 .. n /\ i + 1 \in 1 .. n /\ f + 1 + (i + 1) \in 2 .. Height[b] + 1
        /\ (f + 1 + (i + 1)) - 1 = f + 1 + i
    BY <1>1
  <2>2. Path[b][(f + 1 + (i + 1)) - 1] = Parent[Path[b][f + 1 + (i + 1)]]
    BY <2>1, PathParent
  <2> QED BY <1>5, <2>1, <2>2
<1>10. Climbs(s, t, b)
  BY <1>4, <1>5, <1>7, <1>8, <1>9 DEF Climbs
<1> QED
  BY <1>4, <1>10 DEF s, c, f

\* A flush during a move is of a block of the tree, and leaves one as the tip.
LEMMA MoveTypes ==
    ASSUME NEW t \in Block, NEW b \in Block
    PROVE  LET f == ForkHeight(t, b)
               c == SubSeq(Path[b], f + 2, Height[b] + 1)
               d == SubSeq(Path[t], f + 2, Height[t] + 1)
               points == {<<Parent[x], x>> : x \in Range(c)} \cup {<<x, Parent[x]>> : x \in Range(d)}
           IN  \A p \in points : p[1] \in Block /\ p[2] \in Block
<1> DEFINE f == ForkHeight(t, b)
           c == SubSeq(Path[b], f + 2, Height[b] + 1)
           d == SubSeq(Path[t], f + 2, Height[t] + 1)
<1>1. f \in 0 .. Height[t] /\ f \in 0 .. Height[b] /\ Height[t] \in Nat /\ Height[b] \in Nat
  BY ForkFacts, HeightFacts
<1> HIDE DEF f
<1>2. c \in Seq(Block) /\ \A i \in 1 .. Len(c) : c[i] \in Block \ {Genesis}
  BY <1>1, PathAbove
<1>3. d \in Seq(Block) /\ \A i \in 1 .. Len(d) : d[i] \in Block \ {Genesis}
  BY <1>1, PathAbove
<1> HIDE DEF c, d
<1>4. Range(c) \subseteq Block \ {Genesis} /\ Range(d) \subseteq Block \ {Genesis}
  BY <1>2, <1>3 DEF Range
<1>5. \A x \in Block \ {Genesis} : Parent[x] \in Block
  BY BlockFacts
<1>6. \A p \in {<<Parent[x], x>> : x \in Range(c)} \cup {<<x, Parent[x]>> : x \in Range(d)} :
        p[1] \in Block /\ p[2] \in Block
  BY <1>4, <1>5
<1> QED
  BY <1>6 DEF c, d, f

\* NextSyncBlock has no block to offer only if the tip is on the chain of the
\* block that is asked about.
LEMMA NextFacts ==
    ASSUME tip \in Block, NEW p \in Block
    PROVE  /\ NextSyncBlock(p) \in (Block \ {Genesis}) \cup {Null}
           /\ NextSyncBlock(p) = Null => tip \in Chain[p]
<1> DEFINE from == IF OnChain(p, tip) THEN p ELSE FindFork(p, tip)
<1>0. Height[p] \in Nat /\ Height[tip] \in Nat /\ p # Null
  BY BlockFacts
<1>1. from \in Block /\ Height[from] <= Height[tip] /\ (Height[from] = Height[tip] => tip \in Chain[p])
  <2>1. CASE OnChain(p, tip)
    <3>1. p \in Chain[tip]
      BY <2>1, OnChainIff
    <3>2. Height[p] <= Height[tip] /\ Path[tip][Height[p] + 1] = p
      BY <3>1, ChainAt
    <3>3. Height[p] = Height[tip] => p = tip
      BY <3>2, PathAt
    <3> QED BY <2>1, <3>2, <3>3, ChainSelf
  <2>2. CASE ~OnChain(p, tip)
    <3> DEFINE f == ForkHeight(p, tip)
    <3>1. f \in 0 .. Height[p] /\ f \in 0 .. Height[tip] /\ Path[p][f + 1] = Path[tip][f + 1]
      BY ForkFacts
    <3> HIDE DEF f
    <3>2. from = Path[tip][f + 1]
      BY <2>2, <3>1 DEF FindFork, GetAncestor, f
    <3>3. f + 1 \in 1 .. Height[tip] + 1 /\ f + 1 \in 1 .. Height[p] + 1
      BY <1>0, <3>1
    <3>4. from \in Block /\ Height[from] = f
      BY <1>0, <3>1, <3>2, <3>3, PathAt
    <3>5. Path[p][f + 1] \in Chain[p]
      BY <3>3, ChainIsPath
    <3>6. f = Height[tip] => Path[tip][f + 1] = tip
      BY PathAt
    <3> QED BY <1>0, <3>1, <3>4, <3>5, <3>6
  <2> QED BY <2>1, <2>2
<1>2. NextSyncBlock(p) = GetAncestor(tip, Height[from] + 1)
  BY <1>0 DEF NextSyncBlock
<1> HIDE DEF from
<1>3. Height[from] \in Nat
  BY <1>1, BlockFacts
<1>4. CASE Height[from] = Height[tip]
  BY <1>0, <1>1, <1>2, <1>4 DEF GetAncestor
<1>5. CASE Height[from] # Height[tip]
  <2>1. Height[from] + 1 \in 0 .. Height[tip] /\ Height[from] + 2 \in 2 .. Height[tip] + 1
    BY <1>0, <1>1, <1>3, <1>5
  <2>2. Height[from] + 1 + 1 = Height[from] + 2
    BY <1>3
  <2>3. NextSyncBlock(p) = Path[tip][Height[from] + 2]
    BY <1>2, <2>1, <2>2 DEF GetAncestor
  <2>4. Path[tip][Height[from] + 2] \in Block \ {Genesis}
    BY <2>1, PathParent
  <2> QED BY <2>3, <2>4, BlockFacts
<1> QED
  BY <1>4, <1>5
-----------------------------------------------------------------------------
(* The tables                                                              *)

\* The chain of a block or of none.
LEMMA ChainOfFacts ==
    ASSUME NEW f \in Block \cup {Null}
    PROVE  /\ ChainOf(f) \subseteq Block
           /\ f # Null => f \in ChainOf(f) /\ ChainOf(f) = Chain[f]
           /\ \A g \in ChainOf(f) : Chain[g] \subseteq ChainOf(f)
<1>1. CASE f = Null
  BY <1>1 DEF ChainOf
<1>2. CASE f # Null
  BY <1>2, ChainFacts, ChainSelf, ChainTrans DEF ChainOf
<1> QED
  BY <1>1, <1>2

\* The chain after an append.
LEMMA ChainGrows ==
    ASSUME NEW b \in Block
    PROVE  LET f == IF b = Genesis THEN Null ELSE Parent[b]
           IN  /\ f \in Block \cup {Null} /\ Chain[b] = ChainOf(f) \cup {b}
               /\ \A c \in ChainOf(f) : Height[c] # Height[b]
               /\ Path[b] = Append(PathOf(f), b)
<1>1. CASE b = Genesis
  BY <1>1, ChainFacts, PathFacts DEF ChainOf, PathOf
<1>2. CASE b # Genesis
  <2>1. Parent[b] \in Block /\ Parent[b] # Null /\ Height[b] = Height[Parent[b]] + 1
    BY <1>2, BlockFacts
  <2>2. \A c \in Chain[Parent[b]] : c \in Block /\ Height[c] <= Height[Parent[b]] /\ Height[c] \in Nat
    BY <2>1, ChainAt, ChainFacts, BlockFacts
  <2>3. Height[Parent[b]] \in Nat
    BY <2>1, BlockFacts
  <2>4. \A c \in Chain[Parent[b]] : Height[c] # Height[b]
    BY <2>1, <2>2, <2>3
  <2>5. Chain[b] = Chain[Parent[b]] \cup {b} /\ Path[b] = Append(Path[Parent[b]], b)
    BY <1>2, ChainFacts, PathFacts
  <2> QED BY <1>2, <2>1, <2>4, <2>5 DEF ChainOf, PathOf
<1> QED
  BY <1>1, <1>2

\* An append to the frontier makes the block the frontier.
LEMMA AppendTables ==
    ASSUME NEW table \in Table, NEW b \in Block, NEW header \in Seq(Block), NEW f, NEW x, NEW y,
           f = (IF b = Genesis THEN Null ELSE Parent[b]), TablesRight(table, f, x, y)
    PROVE  LET new == [table EXCEPT ![Height[b]] = [hash |-> b, header |-> header]]
           IN  /\ new \in Table
               /\ TablesRight(new, b, x, y) /\ TablesRight(new, b, b, y) /\ TablesRight(new, b, b, b)
               /\ HeadersRight(table) /\ header = Path[b] => HeadersRight(new)
               /\ \A h \in Heights : table[h] # Null => new[h] # Null
<1> DEFINE e == [hash |-> b, header |-> header]
           new == [table EXCEPT ![Height[b]] = e]
<1>1. e \in HeightValue /\ e # Null /\ e.hash = b /\ e.header = header
  BY NullIsNoEntry DEF HeightValue
<1>2. Height[b] \in Heights
  BY BlockFacts
<1> HIDE DEF e
<1>3. new \in Table /\ new[Height[b]] = e /\ \A h \in Heights : h # Height[b] => new[h] = table[h]
  BY <1>1, <1>2 DEF Table
<1> HIDE DEF new
<1>4. /\ f \in Block \cup {Null} /\ Chain[b] = ChainOf(f) \cup {b}
      /\ \A c \in ChainOf(f) : Height[c] # Height[b]
  BY ChainGrows
<1>5. ChainOf(b) = Chain[b] /\ ChainOf(f) \subseteq Block
  BY <1>4, BlockFacts, ChainOfFacts
<1>6. \A c \in ChainOf(b) : new[Height[c]] # Null /\ new[Height[c]].hash = c
  <2>1. ASSUME NEW c \in ChainOf(f) PROVE new[Height[c]] # Null /\ new[Height[c]].hash = c
    <3>1. new[Height[c]] = table[Height[c]]
      BY <1>3, <1>4, <1>5, BlockFacts
    <3> QED BY <3>1 DEF TablesRight
  <2>2. new[Height[b]] # Null /\ new[Height[b]].hash = b
    BY <1>1, <1>3
  <2> QED BY <1>4, <1>5, <2>1, <2>2
<1>7. TablesRight(new, b, x, y) /\ TablesRight(new, b, b, y) /\ TablesRight(new, b, b, b)
  BY <1>4, <1>5, <1>6 DEF TablesRight
<1>8. HeadersRight(table) /\ header = Path[b] => HeadersRight(new)
  BY <1>1, <1>3 DEF HeadersRight
<1>9. \A h \in Heights : table[h] # Null => new[h] # Null
  BY <1>1, <1>3
<1> QED
  BY <1>3, <1>7, <1>8, <1>9 DEF new, e

\* The tables that are right for a frontier are right for every block of its
\* chain.
LEMMA LowerFrontier ==
    ASSUME NEW table, NEW f \in Block \cup {Null}, NEW x, NEW y, TablesRight(table, f, x, y),
           NEW g \in ChainOf(f) \cup {Null}, NEW u \in ChainOf(g) \cup {Null},
           NEW v \in ChainOf(g) \cup {Null}
    PROVE  TablesRight(table, g, u, v)
<1>1. g = Null => ChainOf(g) = {}
  BY DEF ChainOf
<1>2. g # Null => ChainOf(g) \subseteq ChainOf(f)
  <2>1. ASSUME g # Null PROVE ChainOf(g) \subseteq ChainOf(f)
    BY <2>1, ChainOfFacts DEF ChainOf
  <2> QED BY <2>1
<1> QED
  BY <1>1, <1>2 DEF TablesRight

\* A rewind keeps every block found: what it takes from the chain of the best
\* block is in the hash table afterwards.
LEMMA RewindServes ==
    ASSUME NEW table \in Table, NEW hashes, NEW x \in Block, NEW y, NEW new \in Chain[x],
           NEW t \in Block, TablesRight(table, x, x, y), HeadersRight(table),
           Served(table, hashes, x, t)
    PROVE  LET copy == [b \in Block |->
                          IF \E h \in Height[new] .. Height[x] : table[h].hash = b
                          THEN table[Height[b]].header ELSE hashes[b]]
           IN  Served(table, copy, new, t)
<1> DEFINE copy == [b \in Block |-> IF \E h \in Height[new] .. Height[x] : table[h].hash = b
                                    THEN table[Height[b]].header ELSE hashes[b]]
<1>1. ChainOf(x) = Chain[x] /\ new \in Block /\ ChainOf(new) = Chain[new] /\ Chain[t] \subseteq Block
  BY BlockFacts, ChainFacts DEF ChainOf
<1>2. SUFFICES ASSUME NEW b \in Chain[t], b \notin ChainOf(new) PROVE copy[b] = Path[b]
  BY DEF Served
<1>3. b \in Block /\ Height[b] \in Nat /\ Height[x] \in Nat /\ Height[new] \in Nat /\ Height[b] \in Heights
  BY <1>1, BlockFacts
<1>4. CASE b \in Chain[x]
  <2>1. table[Height[b]] # Null /\ table[Height[b]].hash = b
    BY <1>1, <1>4 DEF TablesRight
  <2>2. Height[b] <= Height[x] /\ Path[x][Height[b] + 1] = b
    BY <1>3, <1>4, ChainAt
  <2>3. Height[b] > Height[new]
    <3>1. SUFFICES ASSUME Height[b] <= Height[new] PROVE FALSE
      BY <1>3
    <3>2. Path[x][Height[new] + 1] = new /\ Height[new] <= Height[x]
      BY <1>1, ChainAt
    <3>3. Path[Path[x][Height[new] + 1]][Height[b] + 1] = Path[x][Height[b] + 1]
      <4>1. Height[new] + 1 \in 1 .. Height[x] + 1 /\ Height[b] + 1 \in 1 .. Height[new] + 1
        BY <1>3, <3>1, <3>2
      <4> QED BY <4>1, PathPrefix
    <3>4. b \in Chain[new]
      BY <1>1, <1>3, <2>2, <3>1, <3>2, <3>3, ChainAt
    <3> QED BY <1>1, <1>2, <3>4
  <2>4. copy[b] = table[Height[b]].header
    BY <1>3, <2>1, <2>2, <2>3
  <2>5. table[Height[b]].header = Path[b]
    BY <1>3, <2>1 DEF HeadersRight
  <2> QED BY <2>4, <2>5
<1>5. CASE b \notin Chain[x]
  <2>1. hashes[b] = Path[b]
    BY <1>1, <1>5 DEF Served
  <2>2. ASSUME NEW h \in Height[new] .. Height[x], table[h].hash = b PROVE FALSE
    <3>1. h + 1 \in 1 .. Height[x] + 1 /\ h = (h + 1) - 1
      BY <1>3
    <3>2. Path[x][h + 1] \in Chain[x] /\ Height[Path[x][h + 1]] = h
      BY <3>1, ChainIsPath, PathAt
    <3>3. table[h].hash = Path[x][h + 1]
      BY <1>1, <3>2 DEF TablesRight
    <3> QED BY <1>5, <2>2, <3>2, <3>3
  <2>3. copy[b] = hashes[b]
    BY <1>3, <2>2
  <2> QED BY <2>1, <2>3
<1> QED
  BY <1>4, <1>5
-----------------------------------------------------------------------------
(* The steps                                                               *)

\* The values of the thread and of the caller.
LEMMA ThreadFacts ==
    /\ NoThread \in Threads /\ NoThread.pc = "done"
    /\ \A b \in Block \cup {Null} :
          Thread(b) \in Threads /\ Thread(b).pc = "loop" /\ Thread(b).pindex = b
    /\ NoReader \in Readers /\ NoReader.pc = "idle"
BY DEF NoThread, Thread, NoReader, Threads, Readers

\* The frontier is a block or none, and the best block while the callbacks
\* work.
LEMMA FrontierFacts ==
    ASSUME IndexInv
    PROVE  /\ Frontier \in Block \cup {Null}
           /\ synced => Frontier = best /\ best \in Block /\ node # "down"
           /\ node = "down" => Frontier = locator
BY BlockFacts DEF IndexInv, Typed, Phases, Frontier, Threads

\* If the index is not synced, nobody waits for a notification.
LEMMA QueueOff ==
    ASSUME NEW q, NEW x, NEW y, NEW t, NEW r, NEW on, NEW off, QueueRight(q, x, t, r, on), ~off
    PROVE  QueueRight(q, y, t, r, off)
BY DEF QueueRight, PromiseRight

\* An empty queue leads nowhere.
LEMMA QueueEmpty ==
    ASSUME NEW x, NEW t, NEW r, NEW on, on => t \in ChainOf(x)
    PROVE  QueueRight(<<>>, x, t, r, on)
<1>1. Len(<<>>) = 0 /\ 1 .. 0 = {}
  OBVIOUS
<1> QED
  BY <1>1 DEF QueueRight, Linked, LastLeadsTo, Reaches

\* The index starts with no block.
LEMMA InitInv ==
    ASSUME Init
    PROVE  IndexInv
<1> USE DEF Init
<1>1. Typed
  <2>1. <<>> \in Seq(Event) /\ <<>> \in Seq(Block)
    OBVIOUS
  <2>2. byHeight \in Table
    BY DEF Table
  <2> QED BY <2>1, <2>2, BlockFacts, ThreadFacts DEF Typed
<1>2. Phases
  BY DEF Phases, Thread, NoReader
<1>3. Frontier = Null /\ ChainOf(Null) = {} /\ PathOf(Null) = <<>>
  BY DEF Frontier, Thread, ChainOf, PathOf
<1>4. TablesRight(byHeight, Frontier, best, locator) /\ HeadersRight(byHeight)
  BY <1>3 DEF TablesRight, HeadersRight
<1>5. QueueRight(queue, Coming, tip, reader, synced /\ Sound)
  BY QueueEmpty
<1> QED
  BY <1>1, <1>2, <1>3, <1>4, <1>5 DEF IndexInv, NoReader

\* A step that leaves the index alone.
LEMMA QuietInv ==
    ASSUME IndexInv, UNCHANGED <<indexVars, running, synced, sync>>, node # "down", node' # "down",
           Typed', Phases',
           QueueRight(queue', Coming, tip', reader', synced /\ Sound),
           Sound /\ reader'.pc = "returned" => Served(byHeight, byHash, best, reader'.tip)
    PROVE  IndexInv'
<1>1. Frontier' = Frontier /\ Coming' = Coming /\ (Sound' <=> Sound)
  BY DEF Frontier, Coming, Sound, indexVars
<1>2. TablesRight(byHeight', Frontier', best', locator')
  BY <1>1 DEF IndexInv, indexVars
<1>3. (Sound' => HeadersRight(byHeight')) /\ (Sound' => last_header' = PathOf(Frontier'))
  BY <1>1 DEF IndexInv, indexVars
<1>4. QueueRight(queue', Coming', tip', reader', synced' /\ Sound')
  BY <1>1
<1>5. Sound' /\ reader'.pc = "returned" => Served(byHeight', byHash', best', reader'.tip)
  BY <1>1 DEF indexVars
<1> QED
  BY <1>2, <1>3, <1>4, <1>5 DEF IndexInv

\* A move of the tip puts the blocks that it connects into the queue.
LEMMA MoveTipInv ==
    ASSUME IndexInv, NEW b \in Block, MoveTip(b), node # "down",
           UNCHANGED <<node, running, indexVars, synced, sync, reader>>
    PROVE  IndexInv'
<1> DEFINE f == ForkHeight(tip, b)
           c == SubSeq(Path[b], f + 2, Height[b] + 1)
           d == SubSeq(Path[tip], f + 2, Height[tip] + 1)
           s == [i \in DOMAIN c |-> BlockConnected(c[i])]
           points == {<<Parent[x], x>> : x \in Range(c)} \cup {<<x, Parent[x]>> : x \in Range(d)}
<1>0. /\ tip \in Block /\ queue \in Seq(Event) /\ Coming \in Block \cup {Null}
      /\ QueueRight(queue, Coming, tip, reader, synced /\ Sound)
  BY DEF IndexInv, Typed, Coming
<1>1. s \in Seq(Event) /\ Climbs(s, tip, b)
  BY <1>0, MoveClimbs
<1>2. \A p \in points : p[1] \in Block /\ p[2] \in Block
  BY <1>0, MoveTypes
<1>3. /\ tip' = b
      /\ \/ queue' = queue \o s /\ UNCHANGED diskTip
         \/ \E p \in points : queue' = Append(queue, ChainStateFlushed(p[1])) \o s /\ diskTip' = p[2]
  BY DEF MoveTip
<1> HIDE DEF s, points
<1>4. /\ queue' \in Seq(Event) /\ diskTip' \in Block
      /\ QueueRight(queue', Coming, b, reader, synced /\ Sound)
  <2>1. CASE queue' = queue \o s /\ UNCHANGED diskTip
    <3>1. queue' \in Seq(Event) /\ diskTip' \in Block
      BY <1>0, <1>1, <2>1 DEF IndexInv, Typed
    <3> QED BY <1>0, <1>1, <2>1, <3>1, QueueMove
  <2>2. ASSUME NEW p \in points, queue' = Append(queue, ChainStateFlushed(p[1])) \o s, diskTip' = p[2]
        PROVE  /\ queue' \in Seq(Event) /\ diskTip' \in Block
               /\ QueueRight(queue', Coming, b, reader, synced /\ Sound)
    <3> DEFINE q == Append(queue, ChainStateFlushed(p[1]))
    <3>1. p[1] \in Block /\ p[2] \in Block
      BY <1>2
    <3>2. ChainStateFlushed(p[1]) \in Event
      BY <3>1 DEF Event
    <3>3. q \in Seq(Event)
      BY <1>0, <3>2
    <3>4. QueueRight(q, Coming, tip, reader, synced /\ Sound)
      BY <1>0, <3>1, QueueFlush
    <3> HIDE DEF q
    <3>5. QueueRight(q \o s, Coming, b, reader, synced /\ Sound) /\ q \o s \in Seq(Event)
      BY <1>0, <1>1, <3>3, <3>4, QueueMove
    <3> QED BY <2>2, <3>1, <3>5 DEF q
  <2> QED BY <1>3, <2>1, <2>2
<1>5. Typed'
  BY <1>3, <1>4 DEF IndexInv, Typed, indexVars
<1>6. Phases'
  BY DEF IndexInv, Phases, indexVars
<1> QED
  BY <1>3, <1>4, <1>5, <1>6, QuietInv DEF IndexInv, indexVars

\* A flush signals the tip.
LEMMA FlushInv ==
    ASSUME IndexInv, NEW full \in BOOLEAN, FlushStateToDisk(full) \/ ShutdownFlush
    PROVE  IndexInv'
<1>0. /\ tip \in Block /\ queue \in Seq(Event) /\ diskTip \in Block
      /\ QueueRight(queue, Coming, tip, reader, synced /\ Sound)
  BY DEF IndexInv, Typed
<1>1. /\ UNCHANGED <<indexVars, running, synced, sync, reader, tip>> /\ node # "down" /\ node' # "down"
      /\ diskTip' \in Block
      /\ queue' = queue \/ queue' = Append(queue, ChainStateFlushed(tip))
  BY <1>0 DEF FlushStateToDisk, ShutdownFlush, chainVars
<1>2. queue' \in Seq(Event) /\ QueueRight(queue', Coming, tip, reader, synced /\ Sound)
  <2>1. ChainStateFlushed(tip) \in Event
    BY <1>0 DEF Event
  <2>2. Append(queue, ChainStateFlushed(tip)) \in Seq(Event)
    BY <1>0, <2>1
  <2>3. QueueRight(Append(queue, ChainStateFlushed(tip)), Coming, tip, reader, synced /\ Sound)
    BY <1>0, QueueFlush
  <2> QED BY <1>0, <1>1, <2>2, <2>3
<1>3. Typed'
  BY <1>1, <1>2 DEF IndexInv, Typed, indexVars
<1>4. Phases'
  BY <1>1 DEF IndexInv, Phases, indexVars
<1> QED
  BY <1>1, <1>2, <1>3, <1>4, QuietInv DEF IndexInv

\* When the process ends, the chain of the locator is what is left.
LEMMA LostInv ==
    ASSUME IndexInv, Lost, UNCHANGED <<diskTip, byHeight, byHash, locator, failed>>
    PROVE  IndexInv'
<1> USE DEF Lost
<1>1. Typed'
  <2>1. <<>> \in Seq(Event) /\ <<>> \in Seq(Block)
    OBVIOUS
  <2> QED BY <2>1, ThreadFacts DEF IndexInv, Typed
<1>2. Phases'
  BY ThreadFacts DEF Phases
<1>3. Frontier' = locator /\ (Sound' <=> Sound) /\ locator \in Block \cup {Null}
  BY DEF IndexInv, Typed, Frontier, Sound
<1>4. TablesRight(byHeight, locator, Null, locator)
  <2>1. TablesRight(byHeight, Frontier, best, locator) /\ Frontier \in Block \cup {Null}
    BY FrontierFacts DEF IndexInv
  <2>2. locator \in ChainOf(Frontier) \cup {Null} /\ locator \in ChainOf(locator) \cup {Null}
    BY <1>3, <2>1, ChainOfFacts DEF TablesRight
  <2> QED BY <2>1, <2>2, LowerFrontier
<1>5. QueueRight(queue', Coming', tip', reader', synced' /\ Sound')
  BY QueueEmpty
<1> QED
  BY <1>1, <1>2, <1>3, <1>4, <1>5 DEF IndexInv, NoReader

\* The header of the frontier is read through the height table.
LEMMA HeaderAt ==
    ASSUME NEW table \in Table, NEW f \in Block \cup {Null}, NEW x, NEW y,
           TablesRight(table, f, x, y), NEW b \in ChainOf(f)
    PROVE  /\ table[Height[b]].header \in Seq(Block)
           /\ HeadersRight(table) => table[Height[b]].header = PathOf(b)
<1>1. b \in Block /\ b # Null /\ Height[b] \in Heights
  BY ChainOfFacts, BlockFacts
<1>2. table[Height[b]] \in HeightValue /\ table[Height[b]] # Null /\ table[Height[b]].hash = b
  BY <1>1 DEF TablesRight, Table
<1> QED
  BY <1>1, <1>2 DEF HeadersRight, PathOf, HeightValue

\* A start resumes from the locator.
LEMMA StartInv ==
    ASSUME IndexInv, Start
    PROVE  IndexInv'
<1> USE DEF Start
<1>0. /\ Frontier = locator /\ locator \in Block \cup {Null} /\ tip \in Block
      /\ byHeight \in Table /\ TablesRight(byHeight, locator, best, locator)
      /\ queue = <<>> /\ running = Null /\ reader.pc = "idle"
  BY FrontierFacts DEF IndexInv, Typed, Phases
<1>1. last_header' \in Seq(Block) /\ (Sound => last_header' = PathOf(locator))
  <2>1. CASE locator = Null
    BY <2>1 DEF PathOf
  <2>2. CASE locator # Null
    <3>1. locator \in ChainOf(locator)
      BY <1>0, <2>2, ChainOfFacts
    <3>2. last_header' = byHeight[Height[locator]].header
      BY <2>2
    <3>3. last_header' \in Seq(Block) /\ (HeadersRight(byHeight) => last_header' = PathOf(locator))
      BY <1>0, <3>1, <3>2, HeaderAt
    <3> QED BY <3>3 DEF IndexInv
  <2> QED BY <2>1, <2>2
<1>2. sync' \in Threads /\ (synced' <=> sync'.pc = "done") /\ (~synced' => sync' = Thread(locator))
  BY <1>0, ThreadFacts
<1>3. Typed'
  BY <1>0, <1>1, <1>2 DEF IndexInv, Typed, chainVars
<1>4. Phases'
  <2>1. locator = tip => locator # Null
    BY <1>0, BlockFacts
  <2>2. ~synced' => sync'.pc = "loop"
    BY <1>0, <1>2, ThreadFacts
  <2>3. synced' => sync'.pc = "done"
    BY <1>2
  <2>4. node' = "up" /\ running' = Null /\ reader' = reader /\ best' = locator /\ synced' = (locator = tip)
    BY <1>0
  <2> QED BY <1>0, <2>1, <2>2, <2>3, <2>4 DEF Phases
<1>5. Frontier' = locator /\ (Sound' <=> Sound)
  BY <1>0, <1>2, ThreadFacts DEF Frontier, Sound
<1>6. TablesRight(byHeight', locator, locator, locator)
  BY <1>0 DEF TablesRight
<1>7. QueueRight(queue', Coming', tip', reader', synced' /\ Sound')
  <2>1. synced' => tip' \in ChainOf(Coming')
    BY <1>0, BlockFacts, ChainOfFacts DEF Coming, chainVars
  <2>2. queue' = <<>>
    BY <1>0
  <2> QED BY <2>1, <2>2, QueueEmpty
<1> QED
  BY <1>0, <1>1, <1>3, <1>4, <1>5, <1>6, <1>7 DEF IndexInv

\* A rebuild wipes the tables.
LEMMA RebuildInv ==
    ASSUME IndexInv, Rebuild
    PROVE  IndexInv'
<1> USE DEF Rebuild
<1>0. queue = <<>> /\ reader.pc = "idle" /\ ~synced
  BY DEF IndexInv, Phases
<1>1. Typed'
  <2>1. byHeight' \in Table
    BY DEF Table
  <2> QED BY <2>1 DEF IndexInv, Typed, chainVars
<1>2. Phases'
  BY DEF IndexInv, Phases
<1>3. Frontier' = Null /\ ChainOf(Null) = {} /\ best' = Null /\ node' = "down"
  BY DEF IndexInv, Phases, Frontier, ChainOf
<1>4. TablesRight(byHeight', Frontier', best', locator') /\ HeadersRight(byHeight')
  BY <1>3 DEF TablesRight, HeadersRight
<1>5. QueueRight(queue', Coming', tip', reader', synced' /\ Sound')
  BY <1>0, QueueEmpty
<1> QED
  BY <1>0, <1>1, <1>2, <1>3, <1>4, <1>5 DEF IndexInv
-----------------------------------------------------------------------------
(* The thread of Sync()                                                    *)

\* A commit moves the locator to the block or leaves it.
LEMMA CommitFacts ==
    ASSUME NEW b, CommitOrLog(b)
    PROVE  /\ locator' = locator \/ (locator' = b /\ b # Null)
           /\ Sound' <=> Sound
BY DEF CommitOrLog, Commit, CommitFails, Sound

\* While the thread runs, no notification is taken and nobody asks.
LEMMA SyncFacts ==
    ASSUME IndexInv, sync.pc # "done"
    PROVE  /\ ~synced /\ running = Null /\ reader.pc = "idle" /\ node # "down"
           /\ sync \in Threads /\ sync.pindex \in Block \cup {Null} /\ sync.next \in Block \cup {Null}
           /\ best \in Block \cup {Null} /\ locator \in Block \cup {Null} /\ tip \in Block
           /\ byHeight \in Table /\ last_header \in Seq(Block)
           /\ TablesRight(byHeight, Frontier, best, locator)
           /\ Sound => HeadersRight(byHeight) /\ last_header = PathOf(Frontier)
BY DEF IndexInv, Typed, Phases, Threads

\* A step of the thread: what there is to show.
LEMMA SyncInv ==
    ASSUME IndexInv, sync.pc # "done", UNCHANGED <<chainVars, queue, running, reader>>,
           node' # "down", Typed', Phases', synced' => tip \in ChainOf(best'),
           TablesRight(byHeight', Frontier', best', locator'),
           Sound' => HeadersRight(byHeight') /\ last_header' = PathOf(Frontier')
    PROVE  IndexInv'
<1>0. ~synced /\ running = Null /\ reader.pc = "idle"
  BY SyncFacts
<1>1. QueueRight(queue, Coming, tip, reader, synced /\ Sound)
  BY DEF IndexInv
<1>2. QueueRight(queue, Coming', tip, reader, synced' /\ Sound')
  <2>1. synced' => tip \in ChainOf(Coming')
    BY <1>0 DEF Coming
  <2>2. \A k \in 1 .. Len(queue) : ~Promised(queue, k)
    BY <1>0, <1>1 DEF QueueRight, PromiseRight
  <2> QED BY <1>1, <2>1, <2>2 DEF QueueRight, Reaches
<1>3. QueueRight(queue', Coming', tip', reader', synced' /\ Sound')
  BY <1>2 DEF chainVars
<1> QED
  BY <1>0, <1>3 DEF IndexInv

\* The thread is interrupted: its block becomes the best block.
LEMMA SyncInterruptedInv ==
    ASSUME IndexInv, SyncInterrupted
    PROVE  IndexInv'
<1> USE DEF SyncInterrupted
<1>0. sync.pc = "loop" /\ sync.pc # "done"
  OBVIOUS
<1> DEFINE p == sync.pindex
<1>1. /\ Frontier = p /\ p \in Block \cup {Null} /\ node # "down"
      /\ TablesRight(byHeight, p, best, locator)
      /\ Sound => HeadersRight(byHeight) /\ last_header = PathOf(p)
      /\ ~synced /\ running = Null /\ reader.pc = "idle"
  BY <1>0, SyncFacts DEF Frontier
<1>2. (locator' = locator \/ (locator' = p /\ p # Null)) /\ (Sound' <=> Sound)
  BY CommitFacts
<1>3. /\ best' = p /\ sync' = NoThread
      /\ UNCHANGED <<node, chainVars, queue, running, reader, synced, byHeight, last_header>>
  OBVIOUS
<1> HIDE DEF p
<1>4. Frontier' = p
  BY <1>1, <1>3, ThreadFacts DEF Frontier
<1>5. TablesRight(byHeight', p, best', locator')
  BY <1>1, <1>2, <1>3, ChainOfFacts DEF TablesRight
<1>6. Typed'
  BY <1>1, <1>2, <1>3, ThreadFacts DEF IndexInv, Typed, chainVars
<1>7. Phases'
  BY <1>1, <1>3, ThreadFacts DEF IndexInv, Phases
<1> QED
  BY <1>0, <1>1, <1>2, <1>3, <1>4, <1>5, <1>6, <1>7, SyncInv

\* Where the thread goes when the next block is known.
LEMMA WithNextFacts ==
    ASSUME sync \in Threads, NEW b \in Block, sync.pindex # Null => b # Genesis, sync.pindex = Null => b = Genesis
    PROVE  /\ WithNext(b) \in Threads /\ WithNext(b).pc \in {"rewind", "append"}
           /\ WithNext(b).pindex = sync.pindex /\ WithNext(b).next = b
           /\ WithNext(b).pc = "rewind" => sync.pindex # Null
           /\ WithNext(b).pc = "append" => sync.pindex = (IF b = Genesis THEN Null ELSE Parent[b])
<1> DEFINE pc == IF sync.pindex # Null /\ Parent[b] # sync.pindex THEN "rewind" ELSE "append"
<1>1. pc \in {"rewind", "append"}
  OBVIOUS
<1>2. WithNext(b) = [sync EXCEPT !.next = b, !.pc = pc]
  BY DEF WithNext
<1>3. /\ pc = "rewind" => sync.pindex # Null
      /\ pc = "append" => sync.pindex = (IF b = Genesis THEN Null ELSE Parent[b])
  OBVIOUS
<1> HIDE DEF pc
<1>4. /\ WithNext(b) \in Threads /\ WithNext(b).pc = pc
      /\ WithNext(b).pindex = sync.pindex /\ WithNext(b).next = b
  BY <1>1, <1>2 DEF Threads
<1> QED
  BY <1>1, <1>3, <1>4

\* The frontier when the next block is known.
LEMMA NextFrontier ==
    ASSUME IndexInv, sync.pc \in {"loop", "recheck"}, NextSyncBlock(sync.pindex) # Null,
           sync' = WithNext(NextSyncBlock(sync.pindex)), node' # "down"
    PROVE  /\ sync' \in Threads /\ sync'.pc \in {"rewind", "append"} /\ sync'.next \in Block
           /\ sync'.pc = "rewind" => sync'.pindex # Null /\ sync'.next # Genesis
           /\ Frontier' = sync.pindex
<1> DEFINE b == NextSyncBlock(sync.pindex)
<1>1. sync \in Threads /\ sync.pindex \in Block \cup {Null} /\ tip \in Block
  BY SyncFacts
<1>2. /\ b \in Block
      /\ sync.pindex # Null => b # Genesis
      /\ sync.pindex = Null => b = Genesis
  <2>1. CASE sync.pindex = Null
    BY <2>1, BlockFacts DEF NextSyncBlock
  <2>2. CASE sync.pindex # Null
    BY <1>1, <2>2, NextFacts
  <2> QED BY <2>1, <2>2
<1>3. sync' = WithNext(b)
  OBVIOUS
<1> HIDE DEF b
<1>4. /\ WithNext(b) \in Threads /\ WithNext(b).pc \in {"rewind", "append"}
      /\ WithNext(b).pindex = sync.pindex /\ WithNext(b).next = b
      /\ WithNext(b).pc = "rewind" => sync.pindex # Null
      /\ WithNext(b).pc = "append" => sync.pindex = (IF b = Genesis THEN Null ELSE Parent[b])
  BY <1>1, <1>2, WithNextFacts
<1> QED
  BY <1>2, <1>3, <1>4 DEF Frontier

\* The thread looks for the next block, or for the end.
LEMMA SyncNextInv ==
    ASSUME IndexInv, SyncNext
    PROVE  IndexInv'
<1> DEFINE p == sync.pindex
           b == NextSyncBlock(p)
<1>0. /\ sync.pc = "loop" /\ sync.pc # "done" /\ node = "up"
      /\ UNCHANGED <<node, chainVars, queue, running, last_header, byHeight, byHash, synced, reader>>
  BY DEF SyncNext
<1>1. /\ Frontier = p /\ p \in Block \cup {Null} /\ sync \in Threads /\ tip \in Block
      /\ TablesRight(byHeight, p, best, locator)
      /\ Sound => HeadersRight(byHeight) /\ last_header = PathOf(p)
      /\ ~synced /\ running = Null /\ reader.pc = "idle"
      /\ best \in Block \cup {Null} /\ locator \in Block \cup {Null}
  BY <1>0, SyncFacts DEF Frontier
<1>2. CASE b = Null
  <2>1. p # Null
    BY <1>2, BlockFacts DEF NextSyncBlock
  <2>2. sync' = [sync EXCEPT !.pc = "recheck"] /\ best' = p /\ CommitOrLog(p)
    BY <1>2 DEF SyncNext
  <2>3. sync' \in Threads /\ sync'.pc = "recheck" /\ sync'.pindex = p
    BY <1>1, <2>2 DEF Threads
  <2>4. (locator' = locator \/ locator' = p) /\ (Sound' <=> Sound)
    BY <2>2, CommitFacts
  <2>5. Frontier' = p
    BY <1>0, <2>3 DEF Frontier
  <2>6. TablesRight(byHeight', p, best', locator')
    BY <1>0, <1>1, <2>1, <2>2, <2>4, ChainOfFacts DEF TablesRight
  <2>7. Typed'
    BY <1>0, <1>1, <2>2, <2>3, <2>4 DEF IndexInv, Typed, chainVars
  <2>8. Phases'
    BY <1>0, <1>1, <2>1, <2>2, <2>3 DEF Phases
  <2> QED BY <1>0, <1>1, <2>4, <2>5, <2>6, <2>7, <2>8, SyncInv
<1>3. CASE b # Null
  <2>1. sync' = WithNext(b) /\ UNCHANGED <<best, locator, failed>>
    BY <1>3 DEF SyncNext
  <2>2. /\ sync' \in Threads /\ sync'.pc \in {"rewind", "append"} /\ sync'.next \in Block
        /\ sync'.pc = "rewind" => sync'.pindex # Null /\ sync'.next # Genesis
        /\ Frontier' = p
    BY <1>0, <1>3, <2>1, NextFrontier
  <2> HIDE DEF b, p
  <2>3. Sound' <=> Sound
    BY <2>1 DEF Sound
  <2>4. TablesRight(byHeight', p, best', locator')
    BY <1>0, <1>1, <2>1
  <2>5. Typed'
    BY <1>0, <1>1, <2>1, <2>2 DEF IndexInv, Typed, chainVars
  <2>6. Phases'
    BY <1>0, <1>1, <2>1, <2>2, BlockFacts DEF Phases
  <2> QED BY <1>0, <1>1, <2>2, <2>3, <2>4, <2>5, <2>6, SyncInv
<1> QED
  BY <1>2, <1>3

\* The thread looks again: at the tip, it leaves the work to the callbacks.
LEMMA SyncRecheckInv ==
    ASSUME IndexInv, SyncRecheck
    PROVE  IndexInv'
<1> DEFINE p == sync.pindex
           b == NextSyncBlock(p)
<1>0. /\ sync.pc = "recheck" /\ sync.pc # "done"
      /\ UNCHANGED <<node, chainVars, queue, running, indexVars, reader>>
      /\ synced' = (b = Null)
      /\ sync' = IF b = Null THEN NoThread ELSE WithNext(b)
  BY DEF SyncRecheck
<1>1. /\ Frontier = p /\ p \in Block /\ best = p /\ sync \in Threads /\ tip \in Block /\ p # Null
      /\ TablesRight(byHeight, p, best, locator) /\ node # "down"
      /\ Sound => HeadersRight(byHeight) /\ last_header = PathOf(p)
      /\ ~synced /\ running = Null /\ reader.pc = "idle"
  <2>1. p # Null /\ best = p
    BY <1>0 DEF IndexInv, Phases
  <2> QED BY <1>0, <2>1, SyncFacts DEF Frontier
<1>2. Sound' <=> Sound
  BY <1>0 DEF Sound, indexVars
<1>3. /\ sync' \in Threads /\ Frontier' = p
      /\ synced' => sync'.pc = "done" /\ tip \in ChainOf(best')
      /\ ~synced' => /\ sync'.pc \in {"rewind", "append"} /\ sync'.next \in Block
                     /\ sync'.pc = "rewind" => sync'.pindex # Null /\ sync'.next # Genesis
  <2>1. CASE b = Null
    <3>1. tip \in Chain[p]
      BY <1>1, <2>1, NextFacts
    <3>2. synced' /\ sync' = NoThread /\ best' = p /\ node' # "down"
      BY <1>0, <1>1, <2>1 DEF indexVars
    <3> QED BY <1>1, <3>1, <3>2, ThreadFacts DEF ChainOf, Frontier
  <2>2. CASE b # Null
    <3>1. sync' = WithNext(b) /\ node' # "down" /\ ~synced'
      BY <1>0, <1>1, <2>2
    <3> QED BY <1>0, <2>2, <3>1, NextFrontier
  <2> QED BY <2>1, <2>2
<1>4. synced' \in BOOLEAN
  BY <1>0
<1> HIDE DEF b, p
<1>5. TablesRight(byHeight', p, best', locator')
  BY <1>0, <1>1 DEF indexVars
<1>6. Typed'
  BY <1>0, <1>3, <1>4 DEF IndexInv, Typed, chainVars, indexVars
<1>7. Phases'
  BY <1>0, <1>1, <1>3, <1>4, BlockFacts DEF Phases, indexVars
<1> QED
  BY <1>0, <1>1, <1>2, <1>3, <1>5, <1>6, <1>7, SyncInv DEF indexVars

\* The thread appends the next block, and may commit it.
LEMMA SyncAppendInv ==
    ASSUME IndexInv, SyncAppend
    PROVE  IndexInv'
<1> DEFINE b == sync.next
           f == IF b = Genesis THEN Null ELSE Parent[b]
           header == Append(last_header, b)
<1>0. /\ sync.pc = "append" /\ sync.pc # "done" /\ sync' = Thread(b)
      /\ byHeight' = [byHeight EXCEPT ![Height[b]] = [hash |-> b, header |-> header]]
      /\ last_header' = header
      /\ UNCHANGED <<node, chainVars, queue, running, byHash, synced, reader>>
      /\ UNCHANGED <<best, locator, failed>> \/ (best' = b /\ CommitOrLog(b))
  BY DEF SyncAppend, CustomAppend
<1>1. /\ Frontier = f /\ b \in Block /\ b # Null /\ tip \in Block
      /\ TablesRight(byHeight, f, best, locator) /\ node # "down"
      /\ Sound => HeadersRight(byHeight) /\ last_header = PathOf(f)
      /\ ~synced /\ running = Null /\ reader.pc = "idle"
      /\ byHeight \in Table /\ last_header \in Seq(Block)
      /\ best \in Block \cup {Null} /\ locator \in Block \cup {Null}
  <2>1. b # Null
    BY <1>0 DEF IndexInv, Phases
  <2> QED BY <1>0, <2>1, SyncFacts DEF Frontier
<1>2. header \in Seq(Block)
  BY <1>1
<1>3. Sound => header = Path[b]
  BY <1>1, ChainGrows
<1>4. /\ byHeight' \in Table
      /\ TablesRight(byHeight', b, best, locator) /\ TablesRight(byHeight', b, b, locator)
      /\ TablesRight(byHeight', b, b, b)
      /\ HeadersRight(byHeight) /\ header = Path[b] => HeadersRight(byHeight')
  <2> HIDE DEF header, b, f
  <2>1. f = (IF b = Genesis THEN Null ELSE Parent[b])
    BY DEF f
  <2> QED BY <1>0, <1>1, <1>2, <2>1, AppendTables
<1>5. /\ Sound' <=> Sound
      /\ \/ best' = best /\ locator' = locator
         \/ best' = b /\ locator' = locator
         \/ best' = b /\ locator' = b
  BY <1>0, CommitFacts DEF Sound
<1>6. sync' \in Threads /\ sync'.pc = "loop" /\ sync'.pindex = b
  BY <1>0, <1>1, ThreadFacts
<1>7. Frontier' = b
  BY <1>0, <1>1, <1>6 DEF Frontier
<1>8. PathOf(b) = Path[b]
  BY <1>1 DEF PathOf
<1> HIDE DEF header, b, f
<1>9. TablesRight(byHeight', Frontier', best', locator')
  BY <1>4, <1>5, <1>7
<1>10. Typed'
  BY <1>0, <1>1, <1>2, <1>4, <1>5, <1>6 DEF IndexInv, Typed, chainVars
<1>11. Phases'
  BY <1>0, <1>1, <1>6 DEF Phases
<1>12. Sound' => HeadersRight(byHeight') /\ last_header' = PathOf(Frontier')
  BY <1>0, <1>1, <1>3, <1>4, <1>5, <1>7, <1>8
<1> QED
  BY <1>0, <1>1, <1>9, <1>10, <1>11, <1>12, SyncInv

\* The thread rewinds to the parent of the next block, or asserts.
LEMMA SyncRewindInv ==
    ASSUME IndexInv, SyncRewind
    PROVE  IndexInv'
<1> DEFINE p == sync.pindex
           new == Parent[sync.next]
<1>0. sync.pc = "rewind" /\ sync.pc # "done"
  BY DEF SyncRewind
<1>1. /\ Frontier = p /\ p \in Block /\ p # Null /\ sync \in Threads /\ tip \in Block
      /\ sync.next \in Block \ {Genesis} /\ new \in Block /\ new # Null
      /\ TablesRight(byHeight, p, best, locator) /\ node # "down"
      /\ Sound => HeadersRight(byHeight) /\ last_header = PathOf(p)
      /\ ~synced /\ running = Null /\ reader.pc = "idle" /\ byHeight \in Table
      /\ locator \in Block \cup {Null}
  <2>1. p # Null /\ sync.next \in Block \ {Genesis}
    BY <1>0 DEF IndexInv, Phases
  <2> QED BY <1>0, <2>1, SyncFacts, BlockFacts DEF Frontier
<1>2. CASE ~RewindAsserts(p, new)
  <2>1. Abort
    BY <1>2 DEF SyncRewind
  <2> QED BY <2>1, LostInv DEF Abort
<1>3. CASE RewindAsserts(p, new)
  <2>1. /\ Rewind(p, new) /\ UNCHANGED <<chainVars, queue, running, synced, reader>>
        /\ \/ RewindCommits(new) /\ sync' = [sync EXCEPT !.pc = "append"] /\ UNCHANGED node
           \/ RewindFails /\ sync' = NoThread /\ FatalError
    BY <1>3 DEF SyncRewind
  <2>2. p = best /\ new \in ChainOf(p) /\ new \in Chain[p]
    BY <1>1, <1>3, OnChainIff DEF RewindAsserts, ChainOf
  <2>3. byHeight' = byHeight /\ last_header' = byHeight[Height[new]].header
    BY <2>1 DEF Rewind
  <2>4. last_header' \in Seq(Block) /\ (HeadersRight(byHeight) => last_header' = PathOf(new))
    BY <1>1, <2>2, <2>3, HeaderAt
  <2>5. CASE RewindCommits(new) /\ sync' = [sync EXCEPT !.pc = "append"] /\ UNCHANGED node
    <3>1. best' = new /\ locator' = new /\ (Sound' <=> Sound)
      BY <1>1, <2>5 DEF RewindCommits, Commit, Sound
    <3>2. sync' \in Threads /\ sync'.pc = "append" /\ sync'.next = sync.next
      BY <1>1, <2>5 DEF Threads
    <3>3. Frontier' = new
      BY <1>1, <2>5, <3>2 DEF Frontier
    <3> HIDE DEF p, new
    <3>4. TablesRight(byHeight', Frontier', best', locator')
      <4>1. new \in ChainOf(new)
        BY <1>1, ChainOfFacts
      <4> QED BY <1>1, <2>2, <2>3, <3>1, <3>3, <4>1, LowerFrontier
    <3>5. Typed'
      BY <1>1, <2>1, <2>3, <2>4, <3>1, <3>2 DEF IndexInv, Typed, chainVars
    <3>6. Phases'
      BY <1>1, <2>1, <2>5, <3>2, BlockFacts DEF Phases
    <3>7. Sound' => HeadersRight(byHeight') /\ last_header' = PathOf(Frontier')
      BY <1>1, <2>3, <2>4, <3>1, <3>3
    <3> QED BY <1>0, <1>1, <2>1, <2>5, <3>4, <3>5, <3>6, <3>7, SyncInv
  <2>6. CASE RewindFails /\ sync' = NoThread /\ FatalError
    <3>1. best' = best /\ locator' = locator /\ ~Sound' /\ node' # "down"
      BY <1>1, <2>6 DEF RewindFails, CommitFails, Sound, FatalError
    <3>2. Frontier' = best
      BY <2>6, <3>1, ThreadFacts DEF Frontier
    <3>3. TablesRight(byHeight', Frontier', best', locator')
      BY <1>1, <2>2, <2>3, <3>1, <3>2
    <3> HIDE DEF p, new
    <3>4. Typed'
      BY <1>1, <2>1, <2>3, <2>4, <2>6, <3>1, ThreadFacts DEF IndexInv, Typed, chainVars
    <3>5. Phases'
      BY <1>1, <2>1, <2>6, <3>1, ThreadFacts DEF Phases
    <3> QED BY <1>0, <1>1, <2>1, <3>1, <3>3, <3>4, <3>5, SyncInv
  <2> QED BY <2>1, <2>5, <2>6
<1> QED
  BY <1>2, <1>3
-----------------------------------------------------------------------------
(* The callbacks and the callers                                           *)

\* What a callback finds.
LEMMA ProcessFacts ==
    ASSUME IndexInv, NEW type, ProcessQueue(type)
    PROVE  /\ node # "down" /\ running = Null /\ Coming = best
           /\ queue \in Seq(Event) /\ queue # <<>> /\ queue[1].type = type
           /\ Head(queue) = queue[1] /\ queue' = Tail(queue) /\ queue' \in Seq(Event)
           /\ QueueRight(queue, best, tip, reader, synced /\ Sound)
           /\ Connected(queue, 1) => queue[1].block \in Block \ {Genesis}
<1>1. queue \in Seq(Event) /\ queue # <<>> /\ running = Null /\ node # "down" /\ queue' = Tail(queue)
  BY DEF IndexInv, Typed, ProcessQueue
<1>2. Len(queue) \in Nat \ {0} /\ Head(queue) = queue[1] /\ Tail(queue) \in Seq(Event)
  BY <1>1, TailAt
<1>3. Coming = best
  BY <1>1 DEF Coming
<1>4. 1 \in 1 .. Len(queue)
  BY <1>2
<1>5. Connected(queue, 1) => queue[1].block \in Block \ {Genesis}
  BY <1>1, <1>4, EventFacts
<1> QED
  BY <1>1, <1>2, <1>3, <1>5 DEF IndexInv, ProcessQueue

\* A notification is not for the index.
LEMMA BlockConnectedIgnoredInv ==
    ASSUME IndexInv, BlockConnectedIgnored
    PROVE  IndexInv'
<1>0. /\ ProcessQueue("BlockConnected") /\ ~(synced /\ Connects(Head(queue).block))
      /\ UNCHANGED <<node, chainVars, running, indexVars, synced, sync, reader>>
  BY DEF BlockConnectedIgnored
<1>1. /\ node # "down" /\ running = Null /\ Coming = best
      /\ queue \in Seq(Event) /\ queue # <<>> /\ queue[1].type = "BlockConnected"
      /\ Head(queue) = queue[1] /\ queue' = Tail(queue) /\ queue' \in Seq(Event)
      /\ QueueRight(queue, best, tip, reader, synced /\ Sound)
      /\ queue[1].block \in Block \ {Genesis}
  BY <1>0, ProcessFacts DEF Connected
<1>2. synced => Parent[queue[1].block] \notin ChainOf(best)
  <2>1. ASSUME synced PROVE Parent[queue[1].block] \notin ChainOf(best)
    <3>1. best \in Block /\ best # Null
      BY <2>1, FrontierFacts, BlockFacts
    <3> QED BY <1>0, <1>1, <2>1, <3>1, ConnectsIff DEF Connects, ChainOf
  <2> QED BY <2>1
<1>3. QueueRight(queue', Coming, tip, reader, synced /\ Sound)
  BY <1>1, <1>2, QueueDrop
<1>4. Typed'
  BY <1>0, <1>1 DEF IndexInv, Typed, chainVars, indexVars
<1>5. Phases'
  BY <1>0, <1>1 DEF IndexInv, Phases, indexVars
<1> QED
  BY <1>0, <1>1, <1>3, <1>4, <1>5, QuietInv DEF IndexInv, chainVars

\* A notification is taken: the index rewinds to the parent of the block if it
\* has to, and is going to append the block.
LEMMA BlockConnectedRewindInv ==
    ASSUME IndexInv, BlockConnectedRewind
    PROVE  IndexInv'
<1> DEFINE b == Head(queue).block
<1>0. /\ ProcessQueue("BlockConnected") /\ synced /\ Connects(b)
      /\ UNCHANGED <<chainVars, synced, sync, reader>>
      /\ \/ best = Parent[b] /\ running' = b /\ UNCHANGED <<node, indexVars>>
         \/ /\ best # Parent[b] /\ Rewind(best, Parent[b])
            /\ \/ RewindCommits(Parent[b]) /\ running' = b /\ UNCHANGED node
               \/ RewindFails /\ UNCHANGED running /\ FatalError
  BY DEF BlockConnectedRewind
<1>1. /\ node # "down" /\ running = Null /\ Coming = best
      /\ queue \in Seq(Event) /\ queue # <<>> /\ Connected(queue, 1)
      /\ b = queue[1].block /\ queue' = Tail(queue) /\ queue' \in Seq(Event)
      /\ QueueRight(queue, best, tip, reader, synced /\ Sound)
      /\ b \in Block \ {Genesis}
  BY <1>0, ProcessFacts DEF Connected
<1>2. /\ Frontier = best /\ best \in Block /\ best # Null /\ Parent[b] \in Block /\ Parent[b] # Null
      /\ b # Null /\ byHeight \in Table /\ sync.pc = "done" /\ locator \in Block \cup {Null}
      /\ TablesRight(byHeight, best, best, locator)
      /\ Sound => HeadersRight(byHeight) /\ last_header = PathOf(best)
      /\ reader.pc # "idle" => reader.tip \in Block
  BY <1>0, <1>1, FrontierFacts, BlockFacts DEF IndexInv, Typed, Phases, Readers
<1>3. Parent[b] \in Chain[best] /\ ChainOf(best) = Chain[best] /\ ChainOf(Parent[b]) = Chain[Parent[b]]
  BY <1>0, <1>1, <1>2, ConnectsIff DEF Connects, ChainOf
<1>4. \A on : QueueRight(queue', b, tip, reader, on)
  BY <1>1, QueueTake
<1> HIDE DEF b
<1>5. CASE best = Parent[b] /\ running' = b /\ UNCHANGED <<node, indexVars>>
  <2>1. Frontier' = best /\ Coming' = b /\ (Sound' <=> Sound)
    BY <1>0, <1>2, <1>5 DEF Frontier, Coming, Sound, indexVars
  <2>2. Typed'
    BY <1>0, <1>1, <1>5 DEF IndexInv, Typed, chainVars, indexVars
  <2>3. Phases'
    BY <1>0, <1>1, <1>2, <1>5 DEF IndexInv, Phases, indexVars
  <2>4. QueueRight(queue', Coming', tip', reader', synced' /\ Sound')
    BY <1>0, <1>4, <2>1 DEF chainVars
  <2>5. TablesRight(byHeight', Frontier', best', locator') /\ (Sound' => HeadersRight(byHeight') /\ last_header' = PathOf(Frontier'))
    BY <1>2, <1>5, <2>1 DEF indexVars
  <2>6. Sound' /\ reader'.pc = "returned" => Served(byHeight', byHash', best', reader'.tip)
    BY <1>0, <1>5, <2>1 DEF IndexInv, indexVars
  <2> QED BY <2>2, <2>3, <2>4, <2>5, <2>6 DEF IndexInv
<1>6. CASE /\ Rewind(best, Parent[b])
           /\ RewindCommits(Parent[b]) /\ running' = b /\ UNCHANGED node
  <2>1. /\ byHeight' = byHeight /\ last_header' = byHeight[Height[Parent[b]]].header
        /\ byHash' = CopyHeightIndexToHashIndex(Height[Parent[b]], Height[best])
        /\ best' = Parent[b] /\ locator' = Parent[b] /\ (Sound' <=> Sound)
    BY <1>2, <1>6 DEF Rewind, RewindCommits, Commit, Sound
  <2>2. last_header' \in Seq(Block) /\ (HeadersRight(byHeight) => last_header' = PathOf(Parent[b]))
    BY <1>2, <1>3, <2>1, HeaderAt
  <2>3. Frontier' = Parent[b] /\ Coming' = b
    BY <1>0, <1>1, <1>2, <1>6, <2>1 DEF Frontier, Coming
  <2>4. TablesRight(byHeight', Frontier', best', locator')
    <3>1. Parent[b] \in ChainOf(Parent[b])
      BY <1>2, ChainOfFacts
    <3> QED BY <1>2, <1>3, <2>1, <2>3, <3>1, LowerFrontier
  <2>5. Typed'
    BY <1>0, <1>1, <1>2, <1>6, <2>1, <2>2 DEF IndexInv, Typed, chainVars
  <2>6. Phases'
    BY <1>0, <1>1, <1>2, <1>6, <2>1 DEF IndexInv, Phases
  <2>7. QueueRight(queue', Coming', tip', reader', synced' /\ Sound')
    BY <1>0, <1>4, <2>3 DEF chainVars
  <2>8. Sound' => HeadersRight(byHeight') /\ last_header' = PathOf(Frontier')
    BY <1>2, <2>1, <2>2, <2>3
  <2>9. ASSUME Sound', reader'.pc = "returned" PROVE Served(byHeight', byHash', best', reader'.tip)
    <3>1. reader.tip \in Block /\ reader' = reader /\ Sound /\ Served(byHeight, byHash, best, reader.tip)
      BY <1>0, <1>2, <2>1, <2>9 DEF IndexInv
    <3>2. Served(byHeight, byHash', Parent[b], reader.tip)
      BY <1>2, <1>3, <2>1, <3>1, RewindServes DEF CopyHeightIndexToHashIndex
    <3> QED BY <2>1, <3>1, <3>2
  <2> QED BY <2>4, <2>5, <2>6, <2>7, <2>8, <2>9 DEF IndexInv
<1>7. CASE Rewind(best, Parent[b]) /\ RewindFails /\ UNCHANGED running /\ FatalError
  <2>1. /\ byHeight' = byHeight /\ last_header' = byHeight[Height[Parent[b]]].header
        /\ best' = best /\ locator' = locator /\ ~Sound' /\ node' # "down"
    BY <1>1, <1>7 DEF Rewind, RewindFails, CommitFails, Sound, FatalError
  <2>2. last_header' \in Seq(Block)
    BY <1>2, <1>3, <2>1, HeaderAt
  <2>3. Frontier' = best
    BY <1>0, <1>2, <2>1 DEF Frontier
  <2>4. Typed'
    BY <1>0, <1>1, <1>2, <1>7, <2>1, <2>2 DEF IndexInv, Typed, chainVars
  <2>5. Phases'
    BY <1>0, <1>1, <1>2, <1>7, <2>1 DEF IndexInv, Phases
  <2>6. QueueRight(queue', b, tip', reader', FALSE)
    BY <1>0, <1>4 DEF chainVars
  <2>7. QueueRight(queue', Coming', tip', reader', synced' /\ Sound')
    BY <2>1, <2>6, QueueOff
  <2> QED BY <1>2, <2>1, <2>3, <2>4, <2>5, <2>7 DEF IndexInv
<1> QED
  BY <1>0, <1>5, <1>6, <1>7

\* The block of the notification is appended.
LEMMA BlockConnectedAppendInv ==
    ASSUME IndexInv, BlockConnectedAppend
    PROVE  IndexInv'
<1> DEFINE b == running
           header == Append(last_header, b)
<1>0. /\ b # Null /\ best' = b /\ running' = Null
      /\ byHeight' = [byHeight EXCEPT ![Height[b]] = [hash |-> b, header |-> header]]
      /\ last_header' = header
      /\ UNCHANGED <<node, chainVars, queue, byHash, locator, failed, synced, sync, reader>>
  BY DEF BlockConnectedAppend, CustomAppend
<1>1. /\ synced /\ b \in Block \ {Genesis} /\ Parent[b] = best /\ best \in Block /\ best # Null
      /\ Frontier = best /\ node # "down" /\ sync.pc = "done" /\ Coming = b
      /\ TablesRight(byHeight, best, best, locator)
      /\ Sound => HeadersRight(byHeight) /\ last_header = PathOf(best)
      /\ byHeight \in Table /\ last_header \in Seq(Block)
      /\ best = (IF b = Genesis THEN Null ELSE Parent[b])
      /\ reader.pc # "idle" => reader.tip \in Block
  BY <1>0, FrontierFacts, BlockFacts DEF IndexInv, Typed, Phases, Coming, Readers
<1>2. header \in Seq(Block) /\ (Sound => header = Path[b])
  BY <1>1, ChainGrows
<1>3. /\ byHeight' \in Table /\ TablesRight(byHeight', b, b, locator)
      /\ HeadersRight(byHeight) /\ header = Path[b] => HeadersRight(byHeight')
      /\ \A h \in Heights : byHeight[h] # Null => byHeight'[h] # Null
  <2> HIDE DEF header, b
  <2> QED BY <1>0, <1>1, <1>2, AppendTables
<1>4. Frontier' = b /\ Coming' = b /\ (Sound' <=> Sound) /\ PathOf(b) = Path[b]
  BY <1>0, <1>1 DEF Frontier, Coming, Sound, PathOf
<1>5. ChainOf(best) \subseteq ChainOf(b)
  BY <1>0, <1>1, ChainFacts DEF ChainOf
<1>6. ASSUME Sound', reader'.pc = "returned" PROVE Served(byHeight', byHash', best', reader'.tip)
  <2>1. Served(byHeight, byHash, best, reader.tip) /\ reader.tip \in Block /\ reader' = reader
    BY <1>0, <1>1, <1>4, <1>6 DEF IndexInv
  <2>2. \A c \in Chain[reader.tip] : Height[c] \in Heights
    BY <2>1, ChainFacts, BlockFacts
  <2> QED BY <1>0, <1>3, <1>5, <2>1, <2>2 DEF Served
<1>7. QueueRight(queue', Coming', tip', reader', synced' /\ Sound')
  BY <1>0, <1>1, <1>4 DEF IndexInv, chainVars
<1> HIDE DEF header
<1>8. Typed'
  BY <1>0, <1>1, <1>2, <1>3 DEF IndexInv, Typed, chainVars
<1>9. Phases'
  BY <1>0, <1>1 DEF IndexInv, Phases
<1>10. /\ TablesRight(byHeight', Frontier', best', locator')
       /\ Sound' => HeadersRight(byHeight') /\ last_header' = PathOf(Frontier')
  BY <1>0, <1>1, <1>2, <1>3, <1>4
<1> QED
  BY <1>6, <1>7, <1>8, <1>9, <1>10 DEF IndexInv

\* The flush of a tip on the index's chain has it write its locator.
LEMMA ChainStateFlushedInv ==
    ASSUME IndexInv, ChainStateFlushedStep
    PROVE  IndexInv'
<1>0. /\ ProcessQueue("ChainStateFlushed")
      /\ (synced /\ CommitOrLog(best)) \/ UNCHANGED <<locator, failed>>
      /\ UNCHANGED <<node, chainVars, running, best, last_header, byHeight, byHash, synced, sync, reader>>
  BY DEF ChainStateFlushedStep
<1>1. /\ node # "down" /\ running = Null /\ Coming = best
      /\ queue \in Seq(Event) /\ queue # <<>> /\ queue[1].type = "ChainStateFlushed"
      /\ queue' = Tail(queue) /\ queue' \in Seq(Event)
      /\ QueueRight(queue, best, tip, reader, synced /\ Sound)
  BY <1>0, ProcessFacts
<1>2. QueueRight(queue', best, tip, reader, synced /\ Sound)
  <2>1. ~Connected(queue, 1)
    BY <1>1 DEF Connected
  <2> QED BY <1>1, <2>1, QueueDrop
<1>3. (locator' = locator \/ (synced /\ locator' = best)) /\ (Sound' <=> Sound)
  BY <1>0, CommitFacts DEF Sound
<1>4. synced => Frontier = best /\ best \in Block /\ sync.pc = "done"
  BY FrontierFacts DEF IndexInv, Phases
<1>5. Frontier' = Frontier /\ Coming' = best
  BY <1>0, <1>1 DEF Frontier, Coming
<1>6. TablesRight(byHeight', Frontier', best', locator')
  BY <1>0, <1>3, <1>4, <1>5, ChainOfFacts DEF IndexInv, TablesRight
<1>7. Typed'
  BY <1>0, <1>1, <1>3, <1>4 DEF IndexInv, Typed, chainVars
<1>8. Phases'
  BY <1>0, <1>1 DEF IndexInv, Phases
<1>9. QueueRight(queue', Coming', tip', reader', synced' /\ Sound')
  BY <1>0, <1>2, <1>3, <1>5 DEF chainVars
<1>10. /\ Sound' => HeadersRight(byHeight')
       /\ Sound' /\ node' # "down" => last_header' = PathOf(Frontier')
       /\ Sound' /\ reader'.pc = "returned" => Served(byHeight', byHash', best', reader'.tip)
  BY <1>0, <1>3, <1>5 DEF IndexInv
<1> QED
  BY <1>6, <1>7, <1>8, <1>9, <1>10 DEF IndexInv

\* The blocks of a chain that the best block has are found.
LEMMA BestServes ==
    ASSUME IndexInv, synced, NEW t \in Chain[best]
    PROVE  Served(byHeight, byHash, best, t)
<1>1. best \in Block /\ best # Null /\ TablesRight(byHeight, best, best, locator)
  BY FrontierFacts, BlockFacts DEF IndexInv
<1>2. t \in Block /\ Chain[t] \subseteq ChainOf(best)
  BY <1>1, ChainFacts, ChainTrans DEF ChainOf
<1> QED
  BY <1>1, <1>2 DEF TablesRight, Served

\* A caller asks about the tip: it is there, or a promise is put behind the
\* notifications that lead to it.
LEMMA CallInv ==
    ASSUME IndexInv, BlockUntilSyncedCall
    PROVE  IndexInv'
<1>0. /\ node = "up" /\ reader.pc = "idle" /\ synced
      /\ UNCHANGED <<node, chainVars, running, indexVars, synced, sync>>
      /\ \/ OnChain(tip, best) /\ reader' = [pc |-> "returned", tip |-> tip] /\ UNCHANGED queue
         \/ reader' = [pc |-> "waiting", tip |-> tip] /\ queue' = Append(queue, SyncPromise)
  BY DEF BlockUntilSyncedCall
<1>1. /\ tip \in Block /\ tip # Null /\ best \in Block /\ queue \in Seq(Event)
      /\ QueueRight(queue, Coming, tip, reader, synced /\ Sound)
  BY <1>0, FrontierFacts, BlockFacts DEF IndexInv, Typed
<1>2. /\ reader' \in Readers /\ reader'.tip = tip
      /\ reader'.pc = "returned" => OnChain(tip, best) /\ UNCHANGED queue
      /\ reader'.pc = "waiting" => /\ queue' = Append(queue, SyncPromise)
                                   /\ reader' = [pc |-> "waiting", tip |-> tip]
      /\ reader'.pc \in {"returned", "waiting"}
  BY <1>0, <1>1 DEF Readers
<1>3. SyncPromise \in Event
  BY DEF Event
<1>4. queue' \in Seq(Event)
  BY <1>1, <1>2, <1>3
<1>5. QueueRight(queue', Coming, tip', reader', synced /\ Sound)
  <2>1. CASE reader'.pc = "returned"
    <3>1. \A k \in 1 .. Len(queue) : ~Promised(queue, k)
      BY <1>0, <1>1 DEF QueueRight, PromiseRight
    <3>2. queue' = queue /\ tip' = tip
      BY <1>0, <1>2, <2>1 DEF chainVars
    <3>3. QueueRight(queue, Coming, tip, reader', synced /\ Sound)
      BY <1>1, <3>1 DEF QueueRight
    <3> QED BY <3>2, <3>3
  <2>2. CASE reader'.pc = "waiting"
    <3>1. tip' = tip
      BY <1>0 DEF chainVars
    <3>2. QueueRight(Append(queue, SyncPromise), Coming, tip, [pc |-> "waiting", tip |-> tip], synced /\ Sound)
      BY <1>0, <1>1, QueuePromise
    <3> QED BY <1>2, <2>2, <3>1, <3>2
  <2> QED BY <1>2, <2>1, <2>2
<1>6. Sound /\ reader'.pc = "returned" => Served(byHeight, byHash, best, reader'.tip)
  BY <1>0, <1>1, <1>2, OnChainIff, BestServes
<1>7. Typed'
  BY <1>0, <1>2, <1>4 DEF IndexInv, Typed, chainVars, indexVars
<1>8. Phases'
  BY <1>0, <1>1, <1>2 DEF IndexInv, Phases, indexVars
<1> QED
  BY <1>0, <1>5, <1>6, <1>7, <1>8, QuietInv

\* The promise is kept: the notifications before it have been taken.
LEMMA ReturnInv ==
    ASSUME IndexInv, BlockUntilSyncedReturn
    PROVE  IndexInv'
<1>0. /\ ProcessQueue("SyncWithValidationInterfaceQueue")
      /\ reader' = [reader EXCEPT !.pc = "returned"]
      /\ UNCHANGED <<node, chainVars, running, indexVars, synced, sync>>
  BY DEF BlockUntilSyncedReturn
<1>1. /\ node # "down" /\ running = Null /\ Coming = best
      /\ queue \in Seq(Event) /\ queue # <<>> /\ Promised(queue, 1) /\ ~Connected(queue, 1)
      /\ queue' = Tail(queue) /\ queue' \in Seq(Event)
      /\ QueueRight(queue, best, tip, reader, synced /\ Sound)
  BY <1>0, ProcessFacts DEF Promised, Connected
<1>2. 1 \in 1 .. Len(queue)
  BY <1>1, TailAt
<1>3. PromiseRight(queue, 1, best, reader, synced /\ Sound)
  BY <1>1, <1>2 DEF QueueRight
<1>4. reader.pc = "waiting" /\ synced /\ reader.tip # Null /\ reader \in Readers /\ best \in Block /\ best # Null
  BY <1>3, FrontierFacts, BlockFacts DEF PromiseRight, IndexInv, Phases, Typed
<1>5. reader' \in Readers /\ reader'.pc = "returned" /\ reader'.tip = reader.tip
  BY <1>0, <1>4 DEF Readers
<1>6. Sound => Served(byHeight, byHash, best, reader.tip)
  <2>1. ASSUME Sound PROVE Served(byHeight, byHash, best, reader.tip)
    <3>1. Reaches(queue, 1, best, reader.tip)
      BY <1>3, <1>4, <2>1 DEF PromiseRight
    <3>2. \A i \in 1 .. 1 : i = 1
      OBVIOUS
    <3>3. reader.tip \in Chain[best]
      BY <1>1, <1>4, <3>1, <3>2 DEF Reaches, ChainOf
    <3> QED BY <1>4, <3>3, BestServes
  <2> QED BY <2>1
<1>7. QueueRight(queue', Coming, tip, reader', synced /\ Sound)
  BY <1>1, QueueDrop
<1>8. Typed'
  BY <1>0, <1>1, <1>5 DEF IndexInv, Typed, chainVars, indexVars
<1>9. Phases'
  BY <1>0, <1>1, <1>4, <1>5 DEF IndexInv, Phases, indexVars
<1> QED
  BY <1>0, <1>1, <1>5, <1>6, <1>7, <1>8, <1>9, QuietInv DEF chainVars

\* The caller has its answer.
LEMMA AnsweredInv ==
    ASSUME IndexInv, ReaderAnswered
    PROVE  IndexInv'
<1>0. /\ reader.pc = "returned" /\ reader' = NoReader
      /\ UNCHANGED <<node, chainVars, queue, running, indexVars, synced, sync>>
  BY DEF ReaderAnswered
<1>1. node # "down" /\ QueueRight(queue, Coming, tip, reader, synced /\ Sound)
  BY <1>0 DEF IndexInv, Phases
<1>2. \A k \in 1 .. Len(queue) : ~Promised(queue, k)
  BY <1>0, <1>1 DEF QueueRight, PromiseRight
<1>3. QueueRight(queue', Coming, tip', reader', synced /\ Sound)
  <2>1. QueueRight(queue, Coming, tip, reader', synced /\ Sound)
    BY <1>1, <1>2 DEF QueueRight
  <2> QED BY <1>0, <2>1 DEF chainVars
<1>4. Typed'
  BY <1>0, ThreadFacts DEF IndexInv, Typed, chainVars, indexVars
<1>5. Phases'
  BY <1>0, ThreadFacts DEF IndexInv, Phases, indexVars
<1> QED
  BY <1>0, <1>1, <1>3, <1>4, <1>5, ThreadFacts, QuietInv

\* A request to shut down.
LEMMA InterruptInv ==
    ASSUME IndexInv, Interrupt
    PROVE  IndexInv'
<1>0. /\ node # "down" /\ node' # "down"
      /\ UNCHANGED <<chainVars, queue, running, indexVars, synced, sync, reader>>
  BY DEF Interrupt
<1>1. Typed'
  BY <1>0 DEF IndexInv, Typed, chainVars, indexVars
<1>2. Phases'
  BY <1>0 DEF IndexInv, Phases, indexVars
<1> QED
  BY <1>0, <1>1, <1>2, QuietInv DEF IndexInv, chainVars

\* A step that changes nothing.
LEMMA StutterInv ==
    ASSUME IndexInv, UNCHANGED vars
    PROVE  IndexInv'
<1>1. Typed' /\ Phases' /\ Frontier' = Frontier /\ Coming' = Coming /\ (Sound' <=> Sound)
  BY DEF IndexInv, Typed, Phases, Frontier, Coming, Sound, vars, chainVars, indexVars
<1> QED
  BY <1>1 DEF IndexInv, vars, chainVars, indexVars

\* Every step keeps the inductive invariant.
LEMMA StepInv ==
    ASSUME IndexInv, [Next]_vars
    PROVE  IndexInv'
<1>1. ASSUME NEW b \in Block, ActivateBestChainStep(b) PROVE IndexInv'
  BY <1>1, MoveTipInv DEF ActivateBestChainStep, ChainMoves
<1>2. CASE DisconnectTip
  <2>1. Parent[tip] \in Block
    BY <1>2, BlockFacts DEF IndexInv, Typed, DisconnectTip
  <2> QED BY <1>2, <2>1, MoveTipInv DEF DisconnectTip, ChainMoves
<1>3. ASSUME NEW full \in BOOLEAN, FlushStateToDisk(full) PROVE IndexInv'
  BY <1>3, FlushInv
<1>4. CASE Crash
  BY <1>4, LostInv DEF Crash
<1>5. CASE Interrupt
  BY <1>5, InterruptInv
<1>6. CASE SyncStep
  BY <1>6, SyncInterruptedInv, SyncNextInv, SyncRecheckInv, SyncRewindInv, SyncAppendInv DEF SyncStep
<1>7. CASE Callback
  BY <1>7, BlockConnectedIgnoredInv, BlockConnectedRewindInv, BlockConnectedAppendInv,
     ChainStateFlushedInv, ReturnInv DEF Callback
<1>8. CASE ShutdownStep
  <2>1. CASE ShutdownFlush
    BY <2>1, FlushInv
  <2>2. CASE ShutdownStop
    BY <2>2, LostInv DEF ShutdownStop
  <2> QED BY <1>8, <2>1, <2>2 DEF ShutdownStep
<1>9. CASE Process
  BY <1>9, StartInv, RebuildInv DEF Process
<1>10. CASE BlockUntilSyncedCall \/ ReaderAnswered
  BY <1>10, CallInv, AnsweredInv
<1>11. CASE UNCHANGED vars
  BY <1>11, StutterInv
<1> QED
  BY <1>1, <1>2, <1>3, <1>4, <1>5, <1>6, <1>7, <1>8, <1>9, <1>10, <1>11 DEF Next
-----------------------------------------------------------------------------
(* The theorems                                                            *)

\* In every state the tables, the notifications and the callers are as the
\* code of BaseIndex relies on.
THEOREM IndexInvariant == Spec => []IndexInv
<1>1. Init => IndexInv
  BY InitInv
<1>2. IndexInv /\ [Next]_vars => IndexInv'
  BY StepInv
<1> QED
  BY <1>1, <1>2, PTL DEF Spec

\* For every tree of blocks and every history of reorganisations, crashes and
\* failed writes: the height table has every block up to the best block and
\* up to the locator, so that a restart never finds the index corrupted, and
\* their headers are right unless a rewind could not write the locator.
THEOREM TablesAreRight == Spec => []TablesMatchBest
<1>1. ASSUME IndexInv PROVE TablesMatchBest
  <2>1. SUFFICES ASSUME NEW x \in {best, locator} \ {Null}, NEW b \in Block, OnChain(b, x)
                 PROVE  /\ byHeight[Height[b]] # Null
                        /\ byHeight[Height[b]].hash = b
                        /\ Sound => byHeight[Height[b]].header = Path[b]
    BY DEF TablesMatchBest, Sound
  <2>2. /\ x \in Block /\ x \in ChainOf(Frontier) /\ Frontier \in Block \cup {Null}
        /\ TablesRight(byHeight, Frontier, best, locator)
        /\ Sound => HeadersRight(byHeight)
    BY <1>1, FrontierFacts DEF IndexInv, Typed, TablesRight
  <2>3. b \in Chain[x]
    BY <2>1, <2>2, OnChainIff
  <2>4. b \in ChainOf(Frontier)
    BY <2>2, <2>3, ChainOfFacts
  <2> QED BY <2>2, <2>4, BlockFacts DEF TablesRight, HeadersRight
<1> QED
  BY <1>1, IndexInvariant, PTL

\* For every interleaving of the chain, of the thread and of the callbacks:
\* once BlockUntilSyncedToCurrentChain has returned true, the caller finds
\* every block of the chain as it was at the call, with its header.
THEOREM CallersAreServed == Spec => []ServesCallersChain
<1>1. ASSUME IndexInv PROVE ServesCallersChain
  <2>1. SUFFICES ASSUME reader.pc = "returned", Sound, NEW b \in Block, OnChain(b, reader.tip)
                 PROVE  LookupOne(b) = Path[b]
    BY DEF ServesCallersChain, Sound
  <2>2. /\ synced /\ reader.tip \in Block /\ Served(byHeight, byHash, best, reader.tip)
        /\ HeadersRight(byHeight)
    BY <1>1, <2>1 DEF IndexInv, Phases, Typed, Readers
  <2>3. Frontier = best /\ best \in Block /\ TablesRight(byHeight, best, best, locator)
    BY <1>1, <2>2, FrontierFacts DEF IndexInv
  <2>4. b \in Chain[reader.tip]
    BY <2>1, <2>2, OnChainIff
  <2>5. byHeight[Height[b]] # Null /\ (b \in ChainOf(best) \/ byHash[b] = Path[b]) /\ Height[b] \in Heights
    BY <2>2, <2>4, BlockFacts DEF Served
  <2>6. CASE byHeight[Height[b]].hash = b
    BY <2>2, <2>5, <2>6 DEF LookupOne, HeadersRight
  <2>7. CASE byHeight[Height[b]].hash # b
    BY <2>3, <2>5, <2>7 DEF LookupOne, TablesRight
  <2> QED BY <2>6, <2>7
<1> QED
  BY <1>1, IndexInvariant, PTL
=============================================================================
