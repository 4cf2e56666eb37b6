----------------------------- MODULE CoinsCache -----------------------------
(***************************************************************************)
(* CCoinsViewCache (coins.h, coins.cpp) in the arrangement the node uses   *)
(* it: the coins database, the CoinsTip() cache over it, and a short-lived *)
(* view over CoinsTip() in which ConnectTip and DisconnectTip apply one    *)
(* block.  An operation runs on the topmost cache; a lookup that misses    *)
(* there goes through the caches below and leaves an entry in each.        *)
(*                                                                         *)
(* A cache maps an outpoint to an entry (coin, DIRTY, FRESH) or to         *)
(* NoEntry.  The contents of a coin are abstracted to a value and the heap *)
(* memory of its script.  All operations run under cs_main, so each is one *)
(* step.                                                                   *)
(***************************************************************************)
EXTENDS Integers, FiniteSets, Functions

CONSTANTS Outpoint,     \* COutPoint
          Coin,         \* unspent coins
          Unspendable,  \* coins whose script is provably unspendable
          Spent,        \* a cleared coin: Coin::IsSpent()
          NoEntry,      \* the key is not in cacheCoins
          Hash,         \* block hashes
          NullHash,     \* uint256()
          ScriptUsage   \* heap bytes of an unspent coin's script

Level == {"view", "tip"}
CoinOrSpent == (Coin \ Unspendable) \cup {Spent}
Entry(coin, dirty, fresh) == [coin |-> coin, dirty |-> dirty, fresh |-> fresh]
CCoinsCacheEntry == [coin : CoinOrSpent, dirty : BOOLEAN, fresh : BOOLEAN]

ASSUME ConstantsDistinct == /\ Spent \notin Coin
                            /\ NoEntry \notin CCoinsCacheEntry
                            /\ NullHash \notin Hash
                            /\ Unspendable \subseteq Coin

ASSUME OutpointsFinite == IsFiniteSet(Outpoint)

ASSUME UsageType == ScriptUsage \in [Coin -> Nat]

VARIABLES coins,        \* cacheCoins of each cache
          usage,        \* cachedCoinsUsage of each cache
          hashBlock,    \* hashBlock of each cache, NullHash until it is read
          open,         \* does the view over CoinsTip() exist?
          db, dbHash    \* CCoinsViewDB: the coins and DB_BEST_BLOCK

vars == <<coins, usage, hashBlock, open, db, dbHash>>

\* A cache and the database hold only coins that can be spent: AddCoin leaves
\* provably unspendable outputs out, whichever way they come back.
TypeOK == /\ coins \in [Level -> [Outpoint -> CCoinsCacheEntry \cup {NoEntry}]]
          /\ hashBlock \in [Level -> Hash \cup {NullHash}]
          /\ open \in BOOLEAN
          /\ db \in [Outpoint -> CoinOrSpent]
          /\ dbHash \in Hash \cup {NullHash}
-----------------------------------------------------------------------------
top == IF open THEN "view" ELSE "tip"

EmptyCache == [o \in Outpoint |-> NoEntry]

DynamicMemoryUsage(coin) == IF coin = Spent THEN 0 ELSE ScriptUsage[coin]

CoinIn(e) == IF e = NoEntry THEN Spent ELSE e.coin

\* What a cache with contents map over a base answers to GetCoin.
Lookup(map, base) ==
    [o \in Outpoint |-> IF map[o] = NoEntry THEN base[o] ELSE map[o].coin]

TipCoins == Lookup(coins["tip"], db)
BaseCoins(l) == IF l = "tip" THEN db ELSE TipCoins
ViewCoins == Lookup(coins[top], BaseCoins(top))

TipBlock == IF hashBlock["tip"] = NullHash THEN dbHash ELSE hashBlock["tip"]
ViewBlock == IF hashBlock[top] = NullHash
               THEN IF open THEN TipBlock ELSE dbHash
               ELSE hashBlock[top]
-----------------------------------------------------------------------------
\* FetchCoin: the caches whose FetchCoin(o) runs, and the entry each then has.
\* A base answers only with an unspent coin, so the FRESH flag that FetchCoin
\* sets on a spent answer is never set.
Reached(o) == {top} \cup (IF open /\ coins["view"][o] = NoEntry THEN {"tip"} ELSE {})

FetchedEntry(l, o) ==
    IF coins[l][o] = NoEntry /\ BaseCoins(l)[o] # Spent
      THEN Entry(BaseCoins(l)[o], FALSE, FALSE)
      ELSE coins[l][o]

FetchCoin(o) ==
    [l \in Level |-> IF l \in Reached(o)
                       THEN [coins[l] EXCEPT ![o] = FetchedEntry(l, o)]
                       ELSE coins[l]]

\* Mutant: only the topmost cache accounts for a fetched coin.
FetchUsageTopOnly(o) ==
    [usage EXCEPT ![top] = IF coins[top][o] = NoEntry
                             THEN @ + DynamicMemoryUsage(BaseCoins(top)[o]) ELSE @]

FetchUsage(o) ==
    [l \in Level |-> IF l \in Reached(o) /\ coins[l][o] = NoEntry
                       THEN usage[l] + DynamicMemoryUsage(BaseCoins(l)[o])
                       ELSE usage[l]]

\* GetCoin, HaveCoin and AccessCoin.
GetCoin(o) ==
    /\ coins' = FetchCoin(o)
    /\ usage' = FetchUsage(o)
    /\ UNCHANGED <<hashBlock, open, db, dbHash>>

\* Mutant: FRESH although the entry is DIRTY.
AddedEntryAlwaysFresh(e, coin, overwrite) == Entry(coin, TRUE, ~overwrite)

AddedEntry(e, coin, overwrite) ==
    Entry(coin, TRUE,
          \/ ~overwrite /\ (e = NoEntry \/ ~e.dirty)
          \/ e # NoEntry /\ e.fresh)

\* Mutant: unspendable outputs are stored like any other.
AddCoinUnspendable(o, coin, overwrite) ==
    /\ overwrite \/ ViewCoins[o] = Spent
    /\ coins' = [coins EXCEPT ![top][o] = AddedEntry(@, coin, overwrite)]
    /\ usage' = [usage EXCEPT ![top] = @ - DynamicMemoryUsage(CoinIn(coins[top][o]))
                                         + DynamicMemoryUsage(coin)]
    /\ UNCHANGED <<hashBlock, open, db, dbHash>>

\* The callers pass possible_overwrite = false only for an outpoint that has
\* no unspent coin: ConnectBlock has checked BIP30, AddCoins(check = true)
\* and ApplyTxInUndo have called HaveCoin.
AddCoin(o, coin, overwrite) ==
    /\ overwrite \/ ViewCoins[o] = Spent
    /\ IF coin \in Unspendable
         THEN UNCHANGED <<coins, usage>>
         ELSE /\ coins' = [coins EXCEPT ![top][o] = AddedEntry(@, coin, overwrite)]
              /\ usage' = [usage EXCEPT ![top] =
                             @ - DynamicMemoryUsage(CoinIn(coins[top][o]))
                               + DynamicMemoryUsage(coin)]
    /\ UNCHANGED <<hashBlock, open, db, dbHash>>

\* Mutant: a FRESH entry is kept when it is spent.
SpentEntryKept(e) == Entry(Spent, TRUE, e.fresh)

SpentEntry(e) == IF e.fresh THEN NoEntry ELSE Entry(Spent, TRUE, FALSE)

SpendCoin(o) ==
    LET fetched == FetchCoin(o)
        e == fetched[top][o]
    IN  /\ coins' = IF e = NoEntry THEN fetched
                    ELSE [fetched EXCEPT ![top][o] = SpentEntry(@)]
        /\ usage' = IF e = NoEntry THEN FetchUsage(o)
                    ELSE [FetchUsage(o) EXCEPT ![top] = @ - DynamicMemoryUsage(e.coin)]
        /\ UNCHANGED <<hashBlock, open, db, dbHash>>

Uncache(o) ==
    /\ LET e == coins[top][o]
       IN  /\ e # NoEntry /\ ~e.dirty /\ ~e.fresh
           /\ coins' = [coins EXCEPT ![top][o] = NoEntry]
           /\ usage' = [usage EXCEPT ![top] = @ - DynamicMemoryUsage(e.coin)]
    /\ UNCHANGED <<hashBlock, open, db, dbHash>>

\* Loading a UTXO snapshot, every outpoint once, into the cache of a new
\* chainstate.
EmplaceCoinInternalDANGER(o, coin) ==
    /\ ~open
    /\ coins["tip"][o] = NoEntry
    /\ coins' = [coins EXCEPT !["tip"][o] = Entry(coin, TRUE, FALSE)]
    /\ usage' = [usage EXCEPT !["tip"] = @ + DynamicMemoryUsage(coin)]
    /\ UNCHANGED <<hashBlock, open, db, dbHash>>
-----------------------------------------------------------------------------
GetBestBlock ==
    /\ hashBlock' = [l \in Level |-> IF l = top THEN ViewBlock
                                     ELSE IF open /\ hashBlock["view"] = NullHash
                                            THEN TipBlock ELSE hashBlock[l]]
    /\ UNCHANGED <<coins, usage, open, db, dbHash>>

SetBestBlock(h) ==
    /\ hashBlock' = [hashBlock EXCEPT ![top] = h]
    /\ UNCHANGED <<coins, usage, open, db, dbHash>>
-----------------------------------------------------------------------------
\* Mutant: an overwritten entry of the parent keeps its old DIRTY flag.
MergedEntryStaleDirty(us, it) ==
    CASE it = NoEntry -> us
      [] it # NoEntry /\ ~it.dirty -> us
      [] it # NoEntry /\ it.dirty /\ us = NoEntry ->
           IF it.fresh /\ it.coin = Spent THEN NoEntry
                                          ELSE Entry(it.coin, TRUE, it.fresh)
      [] it # NoEntry /\ it.dirty /\ us # NoEntry ->
           IF us.fresh /\ it.coin = Spent THEN NoEntry
                                          ELSE Entry(it.coin, us.dirty, us.fresh)

\* BatchWrite into a cache: us is the parent's entry, it the child's.
MergedEntry(us, it) ==
    CASE it = NoEntry -> us
      [] it # NoEntry /\ ~it.dirty -> us
      [] it # NoEntry /\ it.dirty /\ us = NoEntry ->
           IF it.fresh /\ it.coin = Spent THEN NoEntry
                                          ELSE Entry(it.coin, TRUE, it.fresh)
      [] it # NoEntry /\ it.dirty /\ us # NoEntry ->
           IF us.fresh /\ it.coin = Spent THEN NoEntry
                                          ELSE Entry(it.coin, TRUE, us.fresh)

MergeUsage(us, it) ==
    IF it = NoEntry \/ ~it.dirty THEN 0
    ELSE IF us = NoEntry THEN DynamicMemoryUsage(it.coin)
    ELSE IF us.fresh /\ it.coin = Spent THEN 0 - DynamicMemoryUsage(us.coin)
    ELSE DynamicMemoryUsage(it.coin) - DynamicMemoryUsage(us.coin)

BatchWrite(us, them) == [o \in Outpoint |-> MergedEntry(us[o], them[o])]

BatchWriteUsage(us, them) ==
    SumFunctionOnSet([o \in Outpoint |-> MergeUsage(us[o], them[o])], Outpoint)

\* Mutant: spentness is not written to the database.
BatchWriteDBUnspentOnly(them) ==
    [o \in Outpoint |-> IF them[o] # NoEntry /\ them[o].dirty /\ them[o].coin # Spent
                          THEN them[o].coin ELSE db[o]]

\* CCoinsViewDB::BatchWrite when no crash interrupts it.
BatchWriteDB(them) ==
    [o \in Outpoint |-> IF them[o] # NoEntry /\ them[o].dirty THEN them[o].coin ELSE db[o]]

\* What Sync leaves in the cache: spent entries go, the others lose their flags.
SyncedEntry(e) == IF e = NoEntry \/ e.coin = Spent THEN NoEntry
                                                   ELSE Entry(e.coin, FALSE, FALSE)

SyncedCache(map) == [o \in Outpoint |-> SyncedEntry(map[o])]

\* ConnectBlock and DisconnectBlock call SetBestBlock before the view is
\* flushed, so its hashBlock is never null here.
FlushView ==
    /\ open /\ hashBlock["view"] # NullHash
    /\ coins' = [coins EXCEPT !["tip"] = BatchWrite(@, coins["view"]),
                              !["view"] = EmptyCache]
    /\ usage' = [usage EXCEPT !["tip"] = @ + BatchWriteUsage(coins["tip"], coins["view"]),
                              !["view"] = 0]
    /\ hashBlock' = [hashBlock EXCEPT !["tip"] = hashBlock["view"]]
    /\ UNCHANGED <<open, db, dbHash>>

SyncView ==
    /\ open /\ hashBlock["view"] # NullHash
    /\ coins' = [coins EXCEPT !["tip"] = BatchWrite(@, coins["view"]),
                              !["view"] = SyncedCache(@)]
    /\ usage' = [usage EXCEPT !["tip"] = @ + BatchWriteUsage(coins["tip"], coins["view"])]
    /\ hashBlock' = [hashBlock EXCEPT !["tip"] = hashBlock["view"]]
    /\ UNCHANGED <<open, db, dbHash>>

\* FlushStateToDisk flushes CoinsTip() only if its GetBestBlock() is not null.
FlushTip ==
    /\ ~open /\ TipBlock # NullHash
    /\ db' = BatchWriteDB(coins["tip"])
    /\ dbHash' = TipBlock
    /\ coins' = [coins EXCEPT !["tip"] = EmptyCache]
    /\ usage' = [usage EXCEPT !["tip"] = 0]
    /\ hashBlock' = [hashBlock EXCEPT !["tip"] = TipBlock]
    /\ UNCHANGED open

SyncTip ==
    /\ ~open /\ TipBlock # NullHash
    /\ db' = BatchWriteDB(coins["tip"])
    /\ dbHash' = TipBlock
    /\ coins' = [coins EXCEPT !["tip"] = SyncedCache(@)]
    /\ hashBlock' = [hashBlock EXCEPT !["tip"] = TipBlock]
    /\ UNCHANGED <<usage, open>>

\* The view is constructed empty, and destroyed with what it has not flushed.
OpenView == /\ ~open
            /\ open' = TRUE
            /\ UNCHANGED <<coins, usage, hashBlock, db, dbHash>>

CloseView == /\ open
             /\ open' = FALSE
             /\ coins' = [coins EXCEPT !["view"] = EmptyCache]
             /\ usage' = [usage EXCEPT !["view"] = 0]
             /\ hashBlock' = [hashBlock EXCEPT !["view"] = NullHash]
             /\ UNCHANGED <<db, dbHash>>
-----------------------------------------------------------------------------
\* A start of the node: empty caches over whatever the database holds.
Init == /\ coins = [l \in Level |-> EmptyCache]
        /\ usage = [l \in Level |-> 0]
        /\ hashBlock = [l \in Level |-> NullHash]
        /\ open = FALSE
        /\ db \in [Outpoint -> CoinOrSpent]
        /\ dbHash \in Hash \cup {NullHash}

Next == \/ \E o \in Outpoint : GetCoin(o) \/ SpendCoin(o) \/ Uncache(o)
        \/ \E o \in Outpoint, c \in Coin, overwrite \in BOOLEAN : AddCoin(o, c, overwrite)
        \/ \E o \in Outpoint, c \in Coin \ Unspendable : EmplaceCoinInternalDANGER(o, c)
        \/ GetBestBlock \/ \E h \in Hash : SetBestBlock(h)
        \/ FlushView \/ SyncView \/ FlushTip \/ SyncTip
        \/ OpenView \/ CloseView

Spec == Init /\ [][Next]_vars
-----------------------------------------------------------------------------
\* FRESH promises that the cache below has no unspent coin (coins.h): spending
\* the coin may then drop the entry without telling the base, and BatchWrite
\* never reaches its "FRESH flag misapplied" throw.
FreshSound ==
    \A l \in Level, o \in Outpoint :
        (coins[l][o] # NoEntry /\ coins[l][o].fresh) => BaseCoins(l)[o] = Spent

\* An entry without DIRTY agrees with the cache below, so not writing it back,
\* or uncaching it, loses nothing.
CleanSound ==
    \A l \in Level, o \in Outpoint :
        (coins[l][o] # NoEntry /\ ~coins[l][o].dirty) => coins[l][o].coin = BaseCoins(l)[o]

\* The flag combinations SanityCheck() asserts can never occur: FRESH only,
\* spent only, and FRESH, DIRTY and spent together.
SanityCheck ==
    \A l \in Level, o \in Outpoint :
        coins[l][o] # NoEntry =>
            LET e == coins[l][o] IN
            /\ e.fresh /\ e.coin # Spent => e.dirty
            /\ e.coin = Spent => e.dirty # e.fresh

\* cachedCoinsUsage, kept by additions and subtractions in every operation,
\* is the memory of the coins the cache holds: SanityCheck() recomputes it,
\* and GetCoinsCacheSizeState() decides by it when to flush.
UsageExact ==
    \A l \in Level :
        usage[l] = SumFunctionOnSet([o \in Outpoint |-> DynamicMemoryUsage(CoinIn(coins[l][o]))],
                                    Outpoint)

\* The stack of caches behaves as one coin map with one scratch view: lookups,
\* uncaching, Flush and Sync to the database change nothing a caller can see,
\* and flushing the view publishes its coins and its block in one step.
Utxo == INSTANCE UtxoSet WITH utxo <- TipCoins, best <- TipBlock,
                              scratch <- ViewCoins, scratchBest <- ViewBlock
RefinesUtxoSet == Utxo!ASpec
=============================================================================
