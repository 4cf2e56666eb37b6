------------------------------ MODULE Mempool ------------------------------
(***************************************************************************)
(* CTxMemPool (txmempool.h, txmempool.cpp) with what drives it: single     *)
(* transactions and packages accepted by MemPoolAccept, blocks connected   *)
(* and disconnected by the chainstate, and MaybeUpdateMempoolForReorg, which   *)
(* puts the transactions of disconnected blocks back (validation.cpp,      *)
(* kernel/disconnected_transactions.cpp).                                  *)
(*                                                                         *)
(* Each entry keeps links to its parents and children in the pool and the  *)
(* count, size and fees of itself with all its ancestors and with all its  *)
(* descendants.  These are never recomputed: every operation adds and      *)
(* subtracts.  Sizes and fees are small numbers; sigop costs, which are    *)
(* added up exactly like sizes, are left out.  A block is the sequence of  *)
(* its transactions without the coinbase.                                  *)
(*                                                                         *)
(* cs_main and the pool's mutex are held for the whole of a reorganisation *)
(* step and of a package submission; their loops are steps of their own,   *)
(* and nothing else is enabled while stage is not "rest".                  *)
(***************************************************************************)
EXTENDS Integers, FiniteSetsExt, Sequences

CONSTANTS Tx, Outpoint,
          vin,              \* the outpoints a transaction spends, in order
          Outputs,          \* the outpoints it creates
          Size, Fee,        \* its virtual size and its base fee
          AncestorCount, AncestorSize,      \* m_opts.limits
          DescendantCount, DescendantSize,
          ExtraDescendantSize,              \* EXTRA_DESCENDANT_TX_SIZE_LIMIT
          Packages,         \* a child after its parents, as IsWellFormedPackage asks
          MaxEntries,       \* -maxmempool, counted in entries
          MaxDisconnected,  \* MAX_DISCONNECTED_TX_POOL_BYTES, in transactions
          HeightBound,      \* transactions that may stop being final or mature
          Delta,            \* fee deltas the user may add to a transaction
          MaxDelta,         \* bound on the accumulated fee delta
          MaxHeight,        \* bound on the number of blocks
          MaxBlockTx,       \* bound on the transactions of a block
          NoEntry, NoTx     \* not in mapTx; no spender in mapNextTx

ASSUME TxType == /\ vin \in [Tx -> Seq(Outpoint)]
                 /\ Outputs \in [Tx -> SUBSET Outpoint]
                 /\ \A t, u \in Tx : t # u => Outputs[t] \cap Outputs[u] = {}
                 /\ Size \in [Tx -> Nat \ {0}]
                 /\ Fee \in [Tx -> Nat]

VARIABLES pool,            \* mapTx, mapNextTx and mapDeltas
          chain,           \* the blocks of the active chain
          disconnectpool,  \* queuedTx: latest confirmed first
          stage,           \* where the reorganisation step stands
          vHashUpdate,     \* transactions put back, earliest confirmed first
          todo,            \* how many of them UpdateTransactionsFromBlock has left
          cached,          \* mapMemPoolDescendantsToUpdate
          toRemove,        \* descendants_to_remove
          package,         \* transactions of a package that are still to be tried alone
          workspaces       \* the ones to be accepted together

submission == <<package, workspaces>>
reorg == <<vHashUpdate, todo, cached, toRemove>>
vars == <<pool, chain, disconnectpool, stage, vHashUpdate, todo, cached, toRemove,
          package, workspaces>>

Totals == [count : Nat, size : Nat, fees : Int]
CTxMemPoolEntry == [parents : SUBSET Tx, children : SUBSET Tx, modFee : Int,
                    anc : Totals, desc : Totals]
Stage == {"rest", "disconnecting", "connecting", "resurrect", "discard",
          "update", "remove", "limit", "package", "submit"}

TypeOK ==
    /\ pool \in [mapTx : [Tx -> CTxMemPoolEntry \cup {NoEntry}],
                 mapNextTx : [Outpoint -> Tx \cup {NoTx}],
                 mapDeltas : [Tx -> Int]]
    /\ \A t \in Tx : pool.mapTx[t] # NoEntry =>
          /\ pool.mapTx[t].anc.count > 0 /\ pool.mapTx[t].anc.size > 0
          /\ pool.mapTx[t].desc.count > 0 /\ pool.mapTx[t].desc.size > 0
    /\ chain \in Seq(Seq(Tx))
    /\ disconnectpool \in Seq(Tx)
    /\ stage \in Stage
    /\ vHashUpdate \in Seq(Tx)
    /\ todo \in 0 .. Len(vHashUpdate)
    /\ cached \in [Tx -> SUBSET Tx]
    /\ toRemove \subseteq Tx
    /\ package \in Seq(Tx)
    /\ workspaces \in Seq([tx : Tx, ancestors : SUBSET Tx])
-----------------------------------------------------------------------------
Inputs(t) == Range(vin[t])
In(m) == {t \in Tx : m.mapTx[t] # NoEntry}

\* The transactions reached from S along the links R.
Reached(R, S) ==
    LET f[n \in 0 .. Cardinality(Tx)] ==
          IF n = 0 THEN S
          ELSE LET near == f[n - 1] IN near \cup UNION {R[t] : t \in near}
    IN  f[Cardinality(Tx)]

Parents(m) == [t \in Tx |-> IF t \in In(m) THEN m.mapTx[t].parents ELSE {}]
Children(m) == [t \in Tx |-> IF t \in In(m) THEN m.mapTx[t].children ELSE {}]

\* CalculateMemPoolAncestors of an entry in the pool, by its links.
Ancestors(m, t) == Reached(Parents(m), Parents(m)[t])

\* CalculateDescendants of each of S, which are among the result.
CalculateDescendants(m, S) == Reached(Children(m), S)

SearchParents(m, t) == {p \in In(m) : Outputs[p] \cap Inputs(t) # {}}
SearchAncestors(m, t) == Reached(Parents(m), SearchParents(m, t))

Own(m, t) == [count |-> 1, size |-> Size[t], fees |-> m.mapTx[t].modFee]
Sum(m, S) == [count |-> Cardinality(S),
              size  |-> MapThenSumSet(LAMBDA t : Size[t], S),
              fees  |-> MapThenSumSet(LAMBDA t : m.mapTx[t].modFee, S)]
Plus(a, b) == [count |-> a.count + b.count, size |-> a.size + b.size,
               fees |-> a.fees + b.fees]
Minus(a, b) == [count |-> a.count - b.count, size |-> a.size - b.size,
                fees |-> a.fees - b.fees]

\* Mutant: the descendants of a confirmed entry keep it in their totals.
RemoveStagedAncestorsOnly(m, S, updateDescendants) ==
    LET severed(t) ==
          [m.mapTx[t] EXCEPT
             !.parents = @ \ {r \in S : t \in m.mapTx[r].children},
             !.children = @ \ {r \in S : t \in m.mapTx[r].parents},
             !.desc = Minus(@, Sum(m, {r \in S : t \in Ancestors(m, r)}))]
    IN  [m EXCEPT
           !.mapTx = [t \in Tx |-> IF t \in In(m) \ S THEN severed(t) ELSE NoEntry],
           !.mapNextTx = [o \in Outpoint |->
                            IF \E r \in S : o \in Inputs(r) THEN NoTx ELSE @[o]]]

\* UpdateForRemoveFromMempool and removeUnchecked of each of S.  Ancestors are
\* found by the links, which during a reorganisation are not those the inputs
\* suggest.
RemoveStaged(m, S, updateDescendants) ==
    LET severed(t) ==
          [m.mapTx[t] EXCEPT
             !.parents = @ \ {r \in S : t \in m.mapTx[r].children},
             !.children = @ \ {r \in S : t \in m.mapTx[r].parents},
             !.desc = Minus(@, Sum(m, {r \in S : t \in Ancestors(m, r)})),
             !.anc = IF updateDescendants
                       THEN Minus(@, Sum(m, {r \in S :
                                       t \in CalculateDescendants(m, {r})}))
                       ELSE @]
    IN  [m EXCEPT
           !.mapTx = [t \in Tx |-> IF t \in In(m) \ S THEN severed(t) ELSE NoEntry],
           !.mapNextTx = [o \in Outpoint |->
                            IF \E r \in S : o \in Inputs(r) THEN NoTx ELSE @[o]]]

\* Mutant: only the parents count the new entry among their descendants.
addUncheckedParentsOnly(m, t, ancestors) ==
    LET own == [count |-> 1, size |-> Size[t], fees |-> Fee[t] + m.mapDeltas[t]]
        parents == SearchParents(m, t)
    IN  [m EXCEPT
           !.mapTx = [u \in Tx |->
             IF u = t THEN [parents |-> parents, children |-> {}, modFee |-> own.fees,
                            anc |-> Plus(own, Sum(m, ancestors)), desc |-> own]
             ELSE IF u \in parents
                    THEN [@[u] EXCEPT !.children = @ \cup {t}, !.desc = Plus(@, own)]
                    ELSE @[u]],
           !.mapNextTx = [o \in Outpoint |-> IF o \in Inputs(t) THEN t ELSE @[o]]]

\* addUnchecked.  The new entry is assumed to have no children in the pool.
addUnchecked(m, t, ancestors) ==
    LET own == [count |-> 1, size |-> Size[t], fees |-> Fee[t] + m.mapDeltas[t]]
        parents == SearchParents(m, t)
    IN  [m EXCEPT
           !.mapTx = [u \in Tx |->
             IF u = t THEN [parents |-> parents, children |-> {}, modFee |-> own.fees,
                            anc |-> Plus(own, Sum(m, ancestors)), desc |-> own]
             ELSE IF u \in In(m)
                    THEN [@[u] EXCEPT
                            !.children = IF u \in parents THEN @ \cup {t} ELSE @,
                            !.desc = IF u \in ancestors THEN Plus(@, own) ELSE @]
                    ELSE NoEntry],
           !.mapNextTx = [o \in Outpoint |-> IF o \in Inputs(t) THEN t ELSE @[o]]]

Spenders(m, S) == {m.mapNextTx[o] : o \in S} \ {NoTx}

\* removeRecursive: the transaction and its descendants or, if it is not in the
\* pool, the entries that spend its outputs and their descendants.
removeRecursive(m, t) ==
    LET first == IF t \in In(m) THEN {t} ELSE Spenders(m, Outputs[t])
    IN  RemoveStaged(m, CalculateDescendants(m, first), FALSE)

Folded(f(_, _), m, s) ==
    LET g[n \in 0 .. Len(s)] == IF n = 0 THEN m ELSE f(g[n - 1], s[n])
    IN  g[Len(s)]

ClearPrioritisation(m, S) ==
    [m EXCEPT !.mapDeltas = [t \in Tx |-> IF t \in S THEN 0 ELSE @[t]]]

\* removeConflicts, one input: an entry that spends it goes with its descendants.
RemoveConflict(m, o) ==
    LET c == m.mapNextTx[o]
    IN  IF c = NoTx THEN m ELSE removeRecursive(ClearPrioritisation(m, {c}), c)

\* removeForBlock, one transaction.
RemoveForTx(m, t) ==
    LET m1 == IF t \in In(m) THEN RemoveStaged(m, {t}, TRUE) ELSE m
    IN  ClearPrioritisation(Folded(RemoveConflict, m1, vin[t]), {t})

removeForBlock(m, vtx) == Folded(RemoveForTx, m, vtx)
-----------------------------------------------------------------------------
Confirmed == UNION {Range(chain[i]) : i \in DOMAIN chain}
Created(S) == UNION {Outputs[t] : t \in S}
Spent(S) == UNION {Inputs(t) : t \in S}

\* The coins of the active chain after the transactions S are confirmed; the
\* outpoints no transaction creates are coins from the start.
CoinsAfter(S) == ((Outpoint \ Created(Tx)) \cup Created(S)) \ Spent(S)

ValidBlock(vtx) ==
    \A i \in DOMAIN vtx :
       LET before == Confirmed \cup {vtx[j] : j \in 1 .. i - 1}
       IN  vtx[i] \notin before /\ Inputs(vtx[i]) \subseteq CoinsAfter(before)

Block == UNION {[1 .. n -> Tx] : n \in 1 .. MaxBlockTx}

Limits == [ancestor_count |-> AncestorCount, ancestor_size |-> AncestorSize,
           descendant_count |-> DescendantCount, descendant_size |-> DescendantSize]

\* CalculateAncestorsAndCheckLimits succeeds for count transactions of this size
\* together that have these parents in the pool.
WithinLimits(m, parents, size, count, limits) ==
    LET ancestors == Reached(Parents(m), parents)
    IN  ancestors # {} =>
          /\ Cardinality(ancestors) + count =< limits.ancestor_count
          /\ Sum(m, ancestors).size + size =< limits.ancestor_size
          /\ \A a \in ancestors :
                /\ m.mapTx[a].desc.count + count =< limits.descendant_count
                /\ m.mapTx[a].desc.size + size =< limits.descendant_size

TxWithinLimits(m, t, limits) == WithinLimits(m, SearchParents(m, t), Size[t], 1, limits)

\* One more descendant, and the size of what is replaced, is allowed when there
\* is exactly one direct conflict; one more small one to a transaction with at
\* most one ancestor.
WithinCarveOuts(m, t, conflicts) ==
    LET rbf == IF Cardinality(conflicts) # 1 THEN Limits ELSE
                 [Limits EXCEPT !.descendant_count = @ + 1,
                    !.descendant_size = @ + MapThenSumSet(LAMBDA c : m.mapTx[c].desc.size,
                                                          conflicts)]
        cpfp == [rbf EXCEPT !.ancestor_count = 2, !.descendant_count = @ + 1,
                            !.descendant_size = @ + ExtraDescendantSize]
    IN  \/ TxWithinLimits(m, t, rbf)
        \/ Size[t] =< ExtraDescendantSize /\ TxWithinLimits(m, t, cpfp)

\* PreChecks and ReplacementChecks: the inputs exist, the package limits hold, no
\* ancestor is replaced, and a replacement spends no unconfirmed output that what
\* it replaces did not spend.  Fees, standardness and scripts are left to the
\* caller's choice.
MayAccept(m, t, carveouts) ==
    LET conflicts == Spenders(m, Inputs(t))
        all == CalculateDescendants(m, conflicts)
    IN  /\ t \notin In(m)
        /\ Inputs(t) \subseteq CoinsAfter(Confirmed) \cup Created(In(m))
        /\ IF carveouts THEN WithinCarveOuts(m, t, conflicts)
                        ELSE TxWithinLimits(m, t, Limits)
        /\ conflicts \cap SearchAncestors(m, t) = {}
        /\ conflicts # {} =>
              SearchParents(m, t) \subseteq UNION {SearchParents(m, c) : c \in all}

\* RemoveStaged of what is replaced, then addUnchecked.
Accepted(m, t) ==
    LET all == CalculateDescendants(m, Spenders(m, Inputs(t)))
    IN  addUnchecked(RemoveStaged(m, all, FALSE), t, SearchAncestors(m, t))
-----------------------------------------------------------------------------
Init == /\ pool = [mapTx |-> [t \in Tx |-> NoEntry],
                   mapNextTx |-> [o \in Outpoint |-> NoTx],
                   mapDeltas |-> [t \in Tx |-> 0]]
        /\ chain = <<>>
        /\ disconnectpool = <<>>
        /\ stage = "rest"
        /\ vHashUpdate = <<>>
        /\ todo = 0
        /\ cached = [t \in Tx |-> {}]
        /\ toRemove = {}
        /\ package = <<>>
        /\ workspaces = <<>>

\* AcceptSingleTransaction and Finalize; LimitMempoolSize follows.
AcceptToMemoryPool(t) ==
    /\ stage = "rest"
    /\ MayAccept(pool, t, TRUE)
    /\ pool' = Accepted(pool, t)
    /\ stage' = "limit"
    /\ UNCHANGED <<chain, disconnectpool, reorg, submission>>

PrioritiseTransaction(t, d) ==
    LET delta == pool.mapDeltas[t] + d
        m == [pool EXCEPT !.mapDeltas[t] = delta]
        more(x) == [x EXCEPT !.fees = @ + d]
        below == CalculateDescendants(pool, {t}) \ {t}
    IN  /\ stage = "rest"
        /\ delta \in -MaxDelta .. MaxDelta
        /\ pool' = IF t \notin In(pool) THEN m ELSE
             [m EXCEPT !.mapTx = [u \in Tx |->
                IF u = t THEN [@[t] EXCEPT !.modFee = @ + d, !.anc = more(@),
                                           !.desc = more(@)]
                ELSE IF u \in Ancestors(pool, t) THEN [@[u] EXCEPT !.desc = more(@)]
                ELSE IF u \in below THEN [@[u] EXCEPT !.anc = more(@)]
                ELSE @[u]]]
        /\ UNCHANGED <<chain, disconnectpool, stage, reorg, submission>>

\* ConnectTip, outside of a reorganisation or after the old blocks are gone.
ConnectTip(vtx) ==
    /\ stage \in {"rest", "disconnecting", "connecting"}
    /\ Len(chain) < MaxHeight
    /\ ValidBlock(vtx)
    /\ pool' = removeForBlock(pool, vtx)
    /\ disconnectpool' = SelectSeq(disconnectpool, LAMBDA t : t \notin Range(vtx))
    /\ chain' = Append(chain, vtx)
    /\ stage' = IF stage = "rest" THEN "rest" ELSE "connecting"
    /\ UNCHANGED <<reorg, submission>>

Reverse(s) == [i \in 1 .. Len(s) |-> s[Len(s) + 1 - i]]

\* DisconnectTip: the transactions of the block go to disconnectpool; when it
\* is full, the latest ones are given up with all that depends on them.
DisconnectTip ==
    LET queue == disconnectpool \o Reverse(chain[Len(chain)])
        over == IF Len(queue) > MaxDisconnected THEN Len(queue) - MaxDisconnected ELSE 0
    IN  /\ stage \in {"rest", "disconnecting"}
        /\ chain # <<>>
        /\ disconnectpool' = SubSeq(queue, over + 1, Len(queue))
        /\ pool' = Folded(removeRecursive, pool, SubSeq(queue, 1, over))
        /\ chain' = SubSeq(chain, 1, Len(chain) - 1)
        /\ stage' = "disconnecting"
        /\ UNCHANGED <<reorg, submission>>

\* MaybeUpdateMempoolForReorg is called, with or without fAddToMempool.
BeginUpdate(next) ==
    /\ stage \in {"disconnecting", "connecting"}
    /\ stage' = next
    /\ UNCHANGED <<pool, chain, disconnectpool, reorg, submission>>

\* The earliest confirmed transaction of disconnectpool is put back, or what
\* depends on it is removed.
Resurrect(accept) ==
    LET n == Len(disconnectpool)
        t == disconnectpool[n]
    IN  /\ stage \in {"resurrect", "discard"} /\ n > 0
        /\ accept => stage = "resurrect" /\ MayAccept(pool, t, TRUE)
        /\ pool' = IF accept THEN Accepted(pool, t) ELSE removeRecursive(pool, t)
        /\ vHashUpdate' = IF accept THEN Append(vHashUpdate, t) ELSE vHashUpdate
        /\ disconnectpool' = SubSeq(disconnectpool, 1, n - 1)
        /\ UNCHANGED <<chain, stage, todo, cached, toRemove, submission>>

BeginUpdateTransactions ==
    /\ stage \in {"resurrect", "discard"}
    /\ disconnectpool = <<>>
    /\ stage' = "update"
    /\ todo' = Len(vHashUpdate)
    /\ UNCHANGED <<pool, chain, disconnectpool, vHashUpdate, cached, toRemove, submission>>

\* Mutant: the traversal stops at a child whose descendants are cached.
UpdateDescendantsUncached(m, t) ==
    LET links == [u \in Tx |-> {c \in Children(m)[u] : cached[c] = {}}]
    IN  Reached(links, Children(m)[t])

\* The traversal of UpdateForDescendants: below a child whose descendants are
\* cached, the cache is used instead of the links.
UpdateDescendants(m, t) ==
    LET links == [u \in Tx |-> {c \in Children(m)[u] : cached[c] = {}}]
        walked == Reached(links, Children(m)[t])
    IN  walked \cup UNION {cached[c] : c \in UNION {Children(m)[u] : u \in walked}}

\* One transaction of UpdateTransactionsFromBlock: it is linked to the children
\* that were in the pool before it, and its totals and those of its descendants
\* are brought up to date.
Linked(m, t) ==
    LET kids == Spenders(m, Outputs[t]) \ Range(vHashUpdate)
    IN  [m EXCEPT !.mapTx = [u \in Tx |->
           IF u = t THEN [@[u] EXCEPT !.children = @ \cup kids]
           ELSE IF u \in kids THEN [@[u] EXCEPT !.parents = @ \cup {t}]
           ELSE @[u]]]

\* Mutant: an entry with one ancestor too many stays.
OverLimitByTwo(e) == e.anc.count > AncestorCount + 1 \/ e.anc.size > AncestorSize

\* Mutant: the size of the ancestors is not looked at.
OverLimitCountOnly(e) == e.anc.count > AncestorCount

OverLimit(e) == e.anc.count > AncestorCount \/ e.anc.size > AncestorSize

UpdateFromBlock ==
    LET t == vHashUpdate[todo]
        m == Linked(pool, t)
        fresh == UpdateDescendants(m, t) \ Range(vHashUpdate)
        updated == [m EXCEPT !.mapTx = [u \in Tx |->
          IF u = t THEN [@[u] EXCEPT !.desc = Plus(@, Sum(m, fresh))]
          ELSE IF u \in fresh THEN [@[u] EXCEPT !.anc = Plus(@, Own(m, t))]
          ELSE @[u]]]
    IN  /\ stage = "update" /\ todo > 0
        /\ todo' = todo - 1
        /\ IF t \notin In(pool) THEN UNCHANGED <<pool, cached, toRemove>> ELSE
             /\ pool' = updated
             /\ cached' = [cached EXCEPT ![t] = fresh]
             /\ toRemove' = toRemove \cup
                  {u \in fresh : OverLimit(updated.mapTx[u])}
        /\ UNCHANGED <<chain, disconnectpool, stage, vHashUpdate, submission>>

BeginRemove ==
    /\ stage = "update" /\ todo = 0
    /\ stage' = "remove"
    /\ UNCHANGED <<pool, chain, disconnectpool, reorg, submission>>

\* A descendant that exceeds the ancestor limits is removed, if it is still there.
RemoveOverLimit(t) ==
    /\ stage = "remove" /\ t \in toRemove
    /\ toRemove' = toRemove \ {t}
    /\ pool' = IF t \in In(pool) THEN removeRecursive(pool, t) ELSE pool
    /\ UNCHANGED <<chain, disconnectpool, stage, vHashUpdate, todo, cached, submission>>

\* removeForReorg: what is no longer final or mature goes with its descendants.
removeForReorg(S) ==
    /\ stage = "remove" /\ toRemove = {}
    /\ S \subseteq HeightBound \cap In(pool)
    /\ pool' = RemoveStaged(pool, CalculateDescendants(pool, S), FALSE)
    /\ stage' = "limit"
    /\ vHashUpdate' = <<>>
    /\ cached' = [t \in Tx |-> {}]
    /\ UNCHANGED <<chain, disconnectpool, todo, toRemove, submission>>

\* LimitMempoolSize: Expire removes entries that are too old, TrimToSize the
\* ones with the lowest score until the pool fits.  Entry times and feerates are
\* not modelled: it may be any entry.
LimitMempoolSize(t) ==
    /\ stage = "limit" /\ t \in In(pool)
    /\ pool' = RemoveStaged(pool, CalculateDescendants(pool, {t}), FALSE)
    /\ UNCHANGED <<chain, disconnectpool, stage, reorg, submission>>

Limited ==
    /\ stage = "limit"
    /\ Cardinality(In(pool)) =< MaxEntries
    /\ stage' = "rest"
    /\ UNCHANGED <<pool, chain, disconnectpool, reorg, submission>>

-----------------------------------------------------------------------------
\* AcceptPackage: every input of the child is a coin or comes from the package.
AcceptPackage(txns) ==
    /\ stage = "rest"
    /\ LET child == txns[Len(txns)]
       IN  Inputs(child) \subseteq CoinsAfter(Confirmed) \cup Created(Range(txns) \ {child})
    /\ stage' = "package"
    /\ package' = txns
    /\ UNCHANGED <<pool, chain, disconnectpool, reorg, workspaces>>

\* A transaction that is not in the pool is first tried alone, without the
\* carve-outs; if its fees or its inputs do not suffice it is kept for later.
AcceptAlone(accept) ==
    LET t == Head(package)
    IN  /\ stage = "package" /\ package # <<>>
        /\ accept => MayAccept(pool, t, FALSE)
        /\ pool' = IF accept THEN Accepted(pool, t) ELSE pool
        /\ workspaces' = IF accept \/ t \in In(pool) THEN workspaces
                         ELSE Append(workspaces, [tx |-> t, ancestors |-> {}])
        /\ package' = Tail(package)
        /\ UNCHANGED <<chain, disconnectpool, stage, reorg>>

\* What AcceptMultipleTransactions gives to PackageMempoolChecks as the size of
\* the package: m_subpackage.m_total_vsize, which nothing ever assigns.
m_total_vsize == 0

\* The limits for the package as a whole, as if each of its transactions had all
\* the ancestors of all of them.
CheckPackageLimits(m, S, total_vsize) ==
    /\ Cardinality(S) =< AncestorCount /\ Cardinality(S) =< DescendantCount
    /\ total_vsize =< AncestorSize /\ total_vsize =< DescendantSize
    /\ WithinLimits(m, UNION {SearchParents(m, t) : t \in S}, total_vsize,
                    Cardinality(S), Limits)

\* AcceptMultipleTransactions up to SubmitPackage.  A replacement is refused: its
\* fees are taken from m_subpackage too, as 0, and do not pay for what it replaces.
\* Conflicts and parents whose modified fees are not positive, for which fees of 0
\* could be enough, are left out.
AcceptMultipleTransactions ==
    LET txs == {workspaces[i].tx : i \in DOMAIN workspaces}
        before(i) == {workspaces[j].tx : j \in 1 .. i - 1}
    IN  /\ stage = "package" /\ package = <<>> /\ Len(workspaces) > 1
        /\ \A i \in DOMAIN workspaces : LET t == workspaces[i].tx IN
              /\ Inputs(t) \subseteq CoinsAfter(Confirmed) \cup Created(In(pool) \cup before(i))
              /\ TxWithinLimits(pool, t, Limits)
              /\ Spenders(pool, Inputs(t)) = {}
        /\ CheckPackageLimits(pool, txs, m_total_vsize)
        /\ stage' = "submit"
        /\ workspaces' = [i \in DOMAIN workspaces |->
              [workspaces[i] EXCEPT !.ancestors = SearchAncestors(pool, workspaces[i].tx)]]
        /\ UNCHANGED <<pool, chain, disconnectpool, reorg, package>>

\* One transaction is left: AcceptSubPackage tries it alone once more.
AcceptLast ==
    /\ stage = "package" /\ package = <<>> /\ Len(workspaces) = 1
    /\ MayAccept(pool, workspaces[1].tx, FALSE)
    /\ pool' = Accepted(pool, workspaces[1].tx)
    /\ stage' = "limit"
    /\ workspaces' = <<>>
    /\ UNCHANGED <<chain, disconnectpool, reorg, package>>

\* Nothing is left, or what is left is refused; LimitMempoolSize follows.
PackageDone ==
    /\ stage = "package" /\ package = <<>>
    /\ stage' = "limit"
    /\ workspaces' = <<>>
    /\ UNCHANGED <<pool, chain, disconnectpool, reorg, package>>

\* SubmitPackage, one transaction: its ancestors are computed again, as some of
\* them have just been added.  If that fails the ones of PreChecks are used.
SubmitPackage ==
    LET ws == Head(workspaces)
        ancestors == IF TxWithinLimits(pool, ws.tx, Limits)
                       THEN SearchAncestors(pool, ws.tx) ELSE ws.ancestors
    IN  /\ stage = "submit"
        /\ pool' = addUnchecked(pool, ws.tx, ancestors)
        /\ workspaces' = Tail(workspaces)
        /\ stage' = IF Len(workspaces) = 1 THEN "limit" ELSE "submit"
        /\ UNCHANGED <<chain, disconnectpool, reorg, package>>

Next ==
    \/ \E t \in Tx : \/ AcceptToMemoryPool(t)
                     \/ \E d \in Delta[t] : PrioritiseTransaction(t, d)
                     \/ RemoveOverLimit(t)
                     \/ LimitMempoolSize(t)
    \/ \E vtx \in Block : ConnectTip(vtx)
    \/ DisconnectTip
    \/ \E next \in {"resurrect", "discard"} : BeginUpdate(next)
    \/ \E accept \in BOOLEAN : Resurrect(accept)
    \/ BeginUpdateTransactions
    \/ UpdateFromBlock
    \/ BeginRemove
    \/ \E S \in SUBSET HeightBound : removeForReorg(S)
    \/ Limited
    \/ \E txns \in Packages : AcceptPackage(txns)
    \/ \E accept \in BOOLEAN : AcceptAlone(accept)
    \/ AcceptMultipleTransactions \/ AcceptLast \/ PackageDone
    \/ SubmitPackage

Spec == Init /\ [][Next]_vars
-----------------------------------------------------------------------------
\* The links are those the inputs determine, in both directions, and mapNextTx
\* holds exactly the inputs of the entries: no two of them conflict.
LinksMatchInputs ==
    /\ \A t \in In(pool) :
          /\ pool.mapTx[t].parents = SearchParents(pool, t)
          /\ pool.mapTx[t].children = {c \in In(pool) : t \in SearchParents(pool, c)}
    /\ \A o \in Outpoint, t \in Tx :
          pool.mapNextTx[o] = t <=> t \in In(pool) /\ o \in Inputs(t)

\* The totals that were added and subtracted along the way are those computed
\* from the graph, and the modified fee is the base fee with the user's delta.
TotalsExact ==
    \A t \in In(pool) :
       LET ancestors == SearchAncestors(pool, t)
           descendants == {d \in In(pool) : t \in SearchAncestors(pool, d)}
       IN  /\ pool.mapTx[t].modFee = Fee[t] + pool.mapDeltas[t]
           /\ pool.mapTx[t].anc = Sum(pool, ancestors \cup {t})
           /\ pool.mapTx[t].desc = Sum(pool, descendants \cup {t})

\* Every entry could be mined on the tip: its inputs are coins of the active
\* chain or outputs of other entries, and it is not itself confirmed.
Mineable ==
    \A t \in In(pool) :
       /\ t \notin Confirmed
       /\ Inputs(t) \subseteq CoinsAfter(Confirmed) \cup Created(In(pool))

\* CTxMemPool::check, with the descendants computed exactly: between the
\* operations that hold the locks the pool is consistent with itself and with
\* the chain, also after reorganisations that put back parents of entries, give
\* up transactions or confirm conflicting ones.
Check == stage = "rest" => LinksMatchInputs /\ TotalsExact /\ Mineable

\* No entry has more ancestors, or larger ones, than the limits allow, also when
\* a parent comes back from a disconnected block below entries that were within the limits.
AncestorLimit ==
    stage = "rest" =>
    \A t \in In(pool) : LET all == SearchAncestors(pool, t) \cup {t} IN
       Cardinality(all) =< AncestorCount /\ Sum(pool, all).size =< AncestorSize

\* While the links are incomplete, the pool is still what UpdateForRemoveFromMempool
\* relies on: an entry is in the totals of exactly the entries reached from it
\* by the links, so that removing it cannot leave a total too large or too small.
TotalsMatchLinks ==
    stage # "update" =>
    \A t \in In(pool) :
       LET descendants == CalculateDescendants(pool, {t}) \ {t}
       IN  /\ pool.mapTx[t].anc = Sum(pool, Ancestors(pool, t) \cup {t})
           /\ pool.mapTx[t].desc = Sum(pool, descendants \cup {t})

\* The comment in SubmitPackage: computing the ancestors again never fails, as
\* PreChecks and PackageMempoolChecks have enforced the limits.
PackageWithinLimits ==
    stage = "submit" => TxWithinLimits(pool, Head(workspaces).tx, Limits)
=============================================================================
