# A TLA+ development for the Bitgesell node

Bitgesell is a full node derived from Bitcoin Core. This directory models the
part of it that decides what the node believes: the coins, the block tree, the
chain it follows, what it writes to disk about them, the threads that check a
block, the memory pool, the download of transactions, and an index that follows
the chain through notifications. The modules are checked with TLC on small instances; for the coins
cache, the check queue, the request tracker, crash recovery, chain selection and
the index the safety properties are also proved with TLAPS, for every instance. Paths below are relative
to `src/src/`.

## 1. The system and its parts

A block arrives through `ProcessNewBlock` (peers, RPC, `-loadblock`). Under
`cs_main` its header enters the **block index**, its data goes to a **block
file**, and it may become a candidate for the tip. `ActivateBestChain` then
moves the tip towards the best candidate: each block is applied to a
**coins cache** stacked on the tip's cache, its scripts are verified by the
**check queue**, its undo data is written, and the cache is flushed into the
one below. Now and then `FlushStateToDisk` writes block files, index and coins,
in that order. After a crash `ReplayBlocks` repairs a half-written coins
database from block and undo files.

A transaction is announced by peers; the **request tracker** decides whom to ask
for it and when, and `net_processing` sends the requests and handles what comes
back. `MemPoolAccept` adds it to the **memory pool**, alone or as part of a
package. When the tip moves, `ConnectTip` and `DisconnectTip` take transactions
out of the pool and collect the ones of disconnected blocks, and
`MaybeUpdateMempoolForReorg` puts those back. For each connected block and each
full flush a **notification** is queued under `cs_main`; one thread runs the
callbacks later, in order. An **index** is such a subscriber, after a thread of
its own has caught up with the chain. Users talk to all this through RPC.

| Part | State it keeps | Operations | What is hard | Correct when |
|---|---|---|---|---|
| coins caches (`coins.*`) | map outpoint -> coin + DIRTY/FRESH, best block, memory counter | fetch, add, spend, uncache, flush, sync | flags only make sense relative to the cache below; long call sequences | the stack behaves as one map; counter exact |
| check queue (`checkqueue.h`) | queue, three counters, verdict | add, loop, wait, destroy | lost wakeups, counters shared by threads, lifetime of checks | exact verdict, nothing left running, everyone returns |
| storage (`txdb.*`, `node/blockstorage.*`) | block/undo files, index db, coins db with markers | save, flush, batch write, load | crash between any two writes; data not synced | the database says truly what it holds; recovery always possible |
| recovery (`validation.cpp`) | - | ReplayBlocks, LoadChainTip | a crash during recovery; two branches mixed | the exact coins of the tip |
| chain selection (`validation.cpp`, `chain.*`) | block index, candidates, unlinked blocks, failed blocks, tip | accept header/block, activate, precious, invalidate, reconsider, restart | blocks in any order; `cs_main` released between rounds; lazily marked failures; reorganisation to a chain that turns out invalid | the asserts of `CheckBlockIndex`; best valid chain active |
| memory pool (`txmempool.*`, `policy/`) | entries with ancestor/descendant totals | add, remove, reorg update, limit | incremental totals, non-topological re-adding | totals exact, limits kept |
| tx requests (`txrequest.*`) | announcements with a state, per-peer statistics | announce, time passes, request, answer, disconnect | expiry against a late answer; a clock that goes back; cached selection | one request in flight per transaction, always to the best candidate |
| tx download (`net_processing.cpp`) | which transactions are known, requests on the way | inv, tx, notfound, getdata, connect, disconnect | peers that stall, lie or go; other ways a transaction arrives | what an honest peer offers is received |
| orphans (`txorphanage.*`) | orphans by parent and by peer | add, erase, work sets | eviction against pending work | maps consistent |
| notifications (`validationinterface.*`, `scheduler.*`) | queue of callbacks | enqueue, run, sync | order, unregistering, back-pressure | every subscriber sees the chain's history in order |
| indexes (`index/*`) | best block, locator, tables | sync thread, BlockConnected, flush, rewind | hand-over between the two; stale notifications; crash between two writes | no block skipped, the caller's chain is served |
| headers sync (`headerssync.*`) | commitments, redownload buffer | process headers | two phases, a peer that changes its mind | headers stored only with enough work |
| version bits (`versionbits.*`) | cached state per period | state of a deployment | cache against recomputation | state depends on the chain only |
| net, addrman, wallet, GUI, RPC, crypto, script, LevelDB | | | | see `PROJECT.json` for why each is left out |

`PROJECT.json` lists every part under `components`, and under `hazards` what in
this code is hard to test, at the line where it bites, with the properties that
would catch it.

## 2. Plan

Done, in this order: `UtxoSet`, `CoinsCache` and its proofs; `CheckQueue`;
`FlushReplay`; `ChainSelection`; `TxAnnouncements` and `TxRequest`; `Mempool`;
`TxDownload`, which is composed with the tracker through `TxAnnouncements`;
`BaseIndex` with the notification queue; theorems about sums and about trees;
the proofs of `CheckQueue`, `TxRequest`, `FlushReplay`, `BaseIndex` and
`ChainSelection`.

Next, by importance:

1. theorems about `Mempool`: `Check` and `TotalsMatchLinks`, with the sums of
   `SumTheorems`;
2. pruning (`FindFilesToPrune`, `UnlinkPrunedFiles`) in `ChainSelection` and
   `FlushReplay`: the missing-data branch of `FindMostWorkChain`, the order of
   unlinking and flushing; failing writes; interruption of `InvalidateBlock`;
3. `TxOrphanage`; block download in flight; `HeadersSync`; `VersionBits` as
   functions against a reference definition.

Abstract specifications: `UtxoSet` and `TxAnnouncements` (done); a storage that
survives crashes as one atomic cell (coins + best block), which `FlushReplay`
would implement.

## 3. Modules

Mutated forms of definitions, each preceded by a comment "Mutant: ...", stand
beside the definitions they change. They are not used by the specifications;
each one shows that a property fails when the code has that bug.

Shared modules: `BlockTree` is the tree that `pprev` makes of the block index
(heights, paths, chains, the last common ancestor), used by `FlushReplay`,
`ChainSelection` and `BaseIndex`; `SeqFilter` the elements of a sequence that are in a set. What is
proved about them is in `TreeTheorems` and `SumTheorems`, and what is proved
about a component is in the module of its name with `Proofs` added.

### UtxoSet, CoinsCache

`CoinsCache` is the arrangement of `validation.cpp`: database, `CoinsTip()`,
and a view that `ConnectTip`/`DisconnectTip` construct over it.

| Model | Code |
|---|---|
| `coins[l][o]` | `cacheCoins`, entry (coin, DIRTY, FRESH) or `NoEntry` |
| `usage[l]`, `hashBlock[l]` | `cachedCoinsUsage`, `hashBlock` |
| `db`, `dbHash` | `CCoinsViewDB` |
| `GetCoin`, `AddCoin`, `SpendCoin`, `Uncache`, `EmplaceCoinInternalDANGER`, `GetBestBlock`, `SetBestBlock` | methods of the same name, on the topmost cache; a miss goes through the caches below and leaves an entry in each |
| `FlushView`, `SyncView`, `FlushTip`, `SyncTip` | `Flush`/`Sync` of each cache, with the `BatchWrite` of the one below |
| `OpenView`, `CloseView` | construction and destruction of the view |

The content of a coin is a value and the heap size of its script. A call of
`AddCoin` without `possible_overwrite` on a coin that exists is a logic error
of the caller and is guarded by what the callers check first.
`UtxoSet` is what a user of the stack may rely on: one map of coins and its
block, a scratch copy of both, `Commit` and `Discard`.

### CheckQueue

One step per critical section of `Loop`, one for running a batch, one for each
notify call made after the mutex is released. `waiting` are the threads blocked
in `cond.wait`; they leave it when notified or spuriously. The queue is a set.

### FlushReplay

What is on disk and the order in which it gets there. A block is a sequence of
transactions over outpoints; a coin is the block that created it. `view` and
`tip` are `CoinsTip()`, shown correct by `CoinsCache`, as one map here.
`FlushChainstateBlockFile`, `WriteBlockIndexDB`, `WritePartialBatch` and
`WriteFinalBatch` are the writes of `FlushStateToDisk` and of
`CCoinsViewDB::BatchWrite`; `StartClean` and `StartReplay` the two ways to
start. `Crash` can come between any two of them. With `PowerLoss`, data that
was not synced may be lost and the coins database falls back to the last state
written back. A partial batch holds any part of the changed coins, or none of
them but the markers.

### ChainSelection

| Model | Code |
|---|---|
| `known`, `level`, `failed`, `haveData`, `linked`, `seq`, `addr` | `CBlockIndex`: membership, validity level, failure bits, BLOCK_HAVE_DATA, nChainTx > 0, nSequenceId, address |
| `candidates`, `unlinked`, `tip`, `bestHeader`, `bestInvalid`, `failedBlocks`, `counters` | `setBlockIndexCandidates`, `m_blocks_unlinked`, `m_chain.Tip()`, `m_best_header`, `m_best_invalid`, `m_failed_blocks`, sequence counters |
| `holder`, `csMain` | `m_chainstate_mutex`; `cs_main` inside a round of `ActivateBestChain` |
| `ProcessNewBlockHeaders`, `ProcessNewBlock` | the same, with `AcceptBlockHeader`, `AcceptBlock`, `ReceivedBlockTransactions` |
| `AbcEnter`, `AbcRound`, `DropCandidate`, `Decide`, `DisconnectTip`, `ConnectTip`, `ConnectTipFails`, `AfterStep` | `ActivateBestChain`, `FindMostWorkChain`, `ActivateBestChainStep` |
| `PreciousBlock`, `InvalidateBlock` ... `InvalidateMark`, `ReconsiderBlock` | the three RPCs |
| `Restart` | shutdown, `LoadBlockIndex`, `LoadChainTip`, `ImportBlocks` |

Whether a block passes `ContextualCheckBlock` or `ConnectBlock` is a constant.
Ties that the code breaks by comparing pointers are broken by `addr`, chosen
anew at each start. The order in which the multimap `m_blocks_unlinked` holds
siblings is left open. Left out: `ContextualCheckBlockHeader`, minimum-work
checks on headers, BLOCK_MUTATED, system errors, interruption (so the early return of
`InvalidateBlock` for a block still in the chain cannot happen), pruning (so
the missing-data branch of `FindMostWorkChain` is modelled and not reached),
and snapshot chainstates.

### TxAnnouncements, TxRequest

| Model | Code |
|---|---|
| `m_index[t][p]` | the announcement of `p` about `t`: state, time, preferred |
| `m_order[p]` | the order given by `m_sequence` |
| `m_peerinfo[p]` | `PeerInfo` |
| `call`, `loop` | `GetRequestable` or `DisconnectedPeer` in progress; which loop of `SetTimePoint` runs |
| `ReceivedInv`, `RequestedTx`, `ReceivedResponse`, `ForgetTxHash` | methods of the same name |
| `DisconnectStep`, `SetTimePointForward`, `SetTimePointBackward` | one round of the loop in `DisconnectedPeer` and of the two in `SetTimePoint` |
| `FirstLoopBreaks` | the first loop of `SetTimePoint` ends and the second begins |
| `ReturnRequestable` | the end of `GetRequestable` |

The priority is a salted hash in the code and the constant `Rank` here, with
the preferred bit above it. Wtxids and txids are not told apart.
`TxAnnouncements` is the tracker as its header describes it and as the fuzz test
`test/fuzz/txrequest.cpp` reimplements it: three states instead of five and a
selection that is computed when it is asked for.

### TxDownload

The messages of `net_processing.cpp` that concern the download of transactions,
over a tracker of which only `TxAnnouncements` is known
(`m_txrequest == INSTANCE TxAnnouncements`); the run `tx_request` is what
justifies that. Times are relative to now, which keeps the states finite
without a bound on time. `have` is what `AlreadyHaveTx` answers; it abstracts
the pool, the orphanage, the confirmed and the rejected filters. Requests sent
to a peer that is not honest are not remembered: such a peer may send anything
at any time.

### Mempool

| Model | Code |
|---|---|
| `pool.mapTx[t]` | `CTxMemPoolEntry`: `m_parents`, `m_children`, modified fee, the totals with ancestors and with descendants |
| `pool.mapNextTx`, `pool.mapDeltas` | the same |
| `disconnectpool`, `vHashUpdate`, `cached`, `toRemove` | `DisconnectedBlockTransactions`, and the locals of `MaybeUpdateMempoolForReorg` and `UpdateTransactionsFromBlock` |
| `package`, `workspaces` | what `AcceptPackage` still has to try alone, and to submit together |
| `AcceptToMemoryPool`, `PrioritiseTransaction`, `ConnectTip`, `DisconnectTip` | the same |
| `BeginUpdate` ... `removeForReorg` | `MaybeUpdateMempoolForReorg`, step by step |
| `LimitMempoolSize`, `Limited` | `Expire` and `TrimToSize`, of any entries |
| `AcceptPackage` ... `SubmitPackage` | package submission, step by step |

`stage` says where an operation that holds `cs_main` and the pool's mutex
stands; nothing else runs meanwhile. Whether fees, scripts or policy refuse a
transaction is left open: each acceptance may or may not happen.

### BaseIndex

| Model | Code |
|---|---|
| `tip`, `known`, `diskTip`, `diskKnown` | the active chain and the block index, in memory and on disk |
| `queue`, `running` | `SerialTaskRunner`; a `BlockConnected` callback between its rewind and its append |
| `best`, `synced`, `sync` | `m_best_block_index`, `m_synced`, the thread in `Sync()` |
| `byHeight`, `byHash`, `locator`, `last_header` | the two tables of `BlockFilterIndex`, DB_BEST_BLOCK, `m_last_header` |
| `ActivateBestChainStep`, `DisconnectTip`, `FlushStateToDisk` | what moves the tip, writes the chain's state and queues notifications |
| `SyncNext`, `SyncRecheck`, `SyncRewind`, `SyncAppend`, `SyncInterrupted` | the loop of `Sync()` |
| `BlockConnected...`, `ChainStateFlushedStep` | the callbacks |
| `BlockUntilSyncedCall`, `BlockUntilSyncedReturn` | a reader |
| `Start`, `Rebuild`, `Interrupt`, `ShutdownFlush`, `ShutdownStop`, `Crash` | `Init`, its error, the life of the process |

A filter header is the sequence of blocks it was computed from, so a header
computed over a gap or a wrong branch is seen. A write of the locator may fail,
once in a rewind and once elsewhere.

## 4. Runs

| Run | Instance | Shows |
|---|---|---|
| `coins_cache` | 2 outpoints, 2 coins and an unspendable one, 1 hash | flags, counter, no unspendable coin kept, refinement of `UtxoSet`. Every rule about an entry involves one outpoint; the second is there so that a step on one could disturb the other. |
| `check_queue` | 2 workers, 4 checks with one bad, batches of up to 2, 2 sessions | exact verdict, counters, no stranded master, `Wait` and the destructor return. Two sessions are needed to see state carried over. |
| `flush_replay` | 2 branches of 2 blocks, 3 outpoints, one block file, 2 crashes or losses of power | recovery from a crash anywhere, also during a recovery; undo records fit their blocks. The branches share a transaction, so mixing them gives wrong coins. `BlocksPerFile = 2` with `PowerLoss = FALSE` passes too; both at once do not, see below. |
| `chain_activate` | 2 branches (2 and 4 blocks), the longer one invalid at its second block, with descendants, 2 threads, a restart | the asserts of `CheckBlockIndex`, lazily marked descendants, convergence, and that the best chain is active at rest. Steps of `ActivateBestChainStep` are cut to lists of 1 (32 in the code), so that the list ends inside a branch. |
| `chain_invalidate` | a fork of forks, 2 invalidateblock or preciousblock calls | what is missed while `cs_main` is released is made up for |
| `chain_reconsider` | 3 calls of invalidateblock and reconsiderblock | the active chain and the remembered target stay valid |
| `tx_request` | 3 peers, 2 transactions, at most 3 announcements, times 0 and 1, a clock that may go back | the tracker's own `SanityCheck` and `PostGetRequestableSanityCheck` (whatever the clock did, no due announcement is left waiting and none that is not due can be selected), and that it implements `TxAnnouncements`. A peer to be promoted, one selected and one completed are three; two transactions show what one row does to a peer's statistics and to the order of results. |
| `tx_download` | an honest peer that is not preferred, a preferred one that need not answer, 2 transactions, one request in flight per peer before it counts as overloaded, one reconnection | what the honest peer announced is received; nothing stays announced that is known. The quota of 2 announcements per peer never stops one; `MaxAnnouncements = 1`, where it does, passes too. |
| `mempool` | 8 transactions in a graph with a diamond, two conflicts and a replacement of its own ancestor, limits of 4 transactions and of a total size of 134, 3 blocks of up to 3 transactions, a queue for 4 disconnected ones, 2 packages | links and totals equal those computed from the graph, also between the steps of a reorganisation. Sizes and fees are powers of two, so that a wrong total cannot cancel. The largest transaction fits with its two nearest ancestors and not with a third, so that a parent that comes back exceeds either limit. |
| `index` | 2 branches of 2 blocks, the index enabled at height 1; 2 tip changes, a flush, a crash or shutdown, one failing commit of each kind | no gap, no stale locator, the caller's chain is served, the index catches up. Two tip changes are a block connected and a reorganisation away from it. |

Symmetry: the two threads of `ChainSelection`, in the runs without liveness
properties.
`MinBlocksToKeep` is 1 and `MinimumChainWork` 2, so that blocks nobody asked
for are both taken and ignored.

Fairness. `CheckQueue`: every thread that can run runs, a due notify call is
made, a control object goes out of scope; nothing is assumed of spurious
wakeups. `FlushReplay`: a node that is down is started again and a flush that
began goes on; crashes are bounded. `ChainSelection`: a thread inside
`ActivateBestChain` or `InvalidateBlock` goes on running; weak fairness is
enough because the only lock they wait for is released for good by a thread
whose call ends, and calls are bounded by the blocks and commands there are.
`TxDownload`: a handler that has
begun goes on; `SendMessages` is called for every connected peer again and
again, time passes and an honest peer answers. These three need strong fairness
because handlers of other messages, which hold `cs_main`, disable them again and
again; the message thread goes round all peers and the clock does not wait for
it. `BaseIndex`: the sync thread and the scheduler's thread run, a shutdown goes
on, a node that is down is started (and its index rebuilt if it says so);
tip changes and crashes are bounded.

### Where code and comments disagree

Each of these runs checks one statement that a comment or an assert makes, and
TLC shows a behaviour of the code that breaks it; the passing runs say what
holds instead.

| Run | Statement | What happens |
|---|---|---|
| `mempool_package` | "Since PreChecks() and PackageMempoolChecks() both enforce limits, this should never fail." (`SubmitPackage`) | the package's size is added up in a local that hides `m_subpackage.m_total_vsize`; the check gets 0 |
| `index_rewind` | `assert(current_tip == m_best_block_index)` (`BaseIndex::Rewind`) | fails when the sync thread meets a reorganisation between two commits |

In `mempool` the packages are small enough that only the limits on counts
matter to them, so that ancestors are always computed afresh in `SubmitPackage`;
single transactions and reorganisations reach both limits. `index` treats the failing
assert as the end of the process. For the same reason as the size, the fees
that `PackageMempoolChecks` compares for a package replacement are 0, and no
package can replace anything whose modified fees are positive.

The following have no run of their own; each was found with TLC by the change
of a configuration or the property given here.

- `BestChainActive` with a tree of headers and `reconsiderblock`: the command
  clears the marks of the block's ancestors but makes only its descendants
  candidates (`validation.cpp:3818`), so after `reconsiderblock` of a header-only
  child of an invalidated block a better chain stays inactive. The help text:
  "Removes invalidity status of a block, its ancestors and its descendants,
  reconsider them for activation" (`rpc/blockchain.cpp:1624`).
- `UnlinkedComplete` with `reconsiderblock`: a block that arrives below a failed
  one is not put into `m_blocks_unlinked` (`validation.cpp:3910`) and stays out
  after the failure is taken back; `CheckBlockIndex` asserts that it "must be in
  m_blocks_unlinked" (`validation.cpp:5414`).
- "We only want to mark the last disconnected block as BLOCK_FAILED_VALID"
  (`validation.cpp:3728`): the condition above it compares the wrong way round
  and all disconnected blocks keep the mark.
- "First make sure all block and undo data is flushed to disk"
  (`validation.cpp:2883`): only the file of the cursor is synced. With
  `BlocksPerFile = 2` and a loss of power, `RecoveryNeverFails` is violated: undo
  data of an earlier file is gone after the index has referred to it.
- `CandidatesComplete` in `ChainSelection_invalidate.cfg`: a block that arrives
  while `InvalidateBlock` has released `cs_main` may be as good as the tip and no
  candidate until the call ends. `InvalidateBlock` wants to "keep the block index
  in a consistent state as we disconnect blocks" and later calls this
  "an essentially unobservable error"; `CheckBlockIndex` could observe it.
  `CandidatesCompleteAtRest` is what holds.
- `FailedHasInvalid` in `ChainSelection_reconsider.cfg`: after `reconsiderblock`
  in one branch a sibling branch keeps BLOCK_FAILED_CHILD, against the assert of
  `CheckBlockIndex` "The failed mask cannot be set for blocks without invalid
  parents."
- `CandidatesCompleteAtRest` with three calls of `preciousblock`, blocks `G`, `A1`
  and `B1` and four threads; the proof of `PreciousBlockComplete` led to it. Two
  calls on blocks that have arrived and are not active yet give them -1 and -2;
  the second becomes the tip and the other is pruned. A third call, for the
  tip, finds "The chain has been extended since the last call"
  (`validation.cpp:3625`), starts again with -1 and so *raises* the number of
  the tip: it ties with the pruned block, and if addresses decide for that one, a
  block that is better than the tip is not a candidate, against the assert of
  `CheckBlockIndex` (`validation.cpp:5391`).
- `NoHeaderBelowInvalid` with `CtxInvalid = {B1}`: a block that fails
  `ContextualCheckBlock` is marked but not put into `m_failed_blocks`, so headers
  are still accepted below a known child of it.
- "If commit fails, revert the best block index to avoid corruption"
  (`index/base.cpp:262`): the best block is put back and `m_last_header` is not, so
  a block connected before the shutdown that follows gets a wrong filter header,
  which the last flush commits. This is why `TablesMatchBest` and
  `ServesCallersChain` say nothing of headers once `"rewind"` has failed.
- `index/base.h:41-47` says that a locator is stored because the block index may
  lag behind the index's database; `Init` looks only at the locator's first block
  and asks for a rebuild if it is unknown (`Rebuild`).
- `ChainStateFlushed` expects its check to fail only right after the sync
  (`index/base.cpp:352`); the flush in `ConnectTip` during a reorganisation also
  signals before the `BlockConnected` of the blocks of that step.
- "this should already be called whenever a transaction becomes AlreadyHaveTx()"
  (`net_processing.cpp:6345`): not when it comes in through RPC, the wallet or a
  disconnected block (`AcceptedElsewhere`); `Forgotten` is what holds.

## 5. Proofs

Every theorem holds for all values of the constants that satisfy the named
assumptions, and TLC evaluates those assumptions on the instances of the runs.

| Module | Theorems | Assumptions |
|---|---|---|
| `CoinsCacheProofs` | `InvHolds`, `TypeCorrect`, `FreshSoundHolds`, `CleanSoundHolds`, `SanityCheckHolds`, `UsageIsExact`, `Refinement` (of `UtxoSet`): every property of the run `coins_cache` | sentinels differ from what they stand apart from (`ConstantsDistinct`), unspent coins have a size (`UsageType`), finitely many outpoints |
| `CheckQueueProofs` | `CountersAreExact`, `WaitIsExact`, `WaitLeavesNothing` | `CheckQueueConstants`: finitely many workers and checks, batches of at least 1 |
| `TxRequestProofs` | `TrackerIsSane`, `TimeIsSet`, `TrackerRefines` (of `TxAnnouncements`) | priorities are numbers below the preferred bit (`RankType`) and differ (`RankDistinct`) |
| `FlushReplayProofs` | `FlushTypes`, `TipCoinsAreExact`, `MarkersAreTruthful`, `IndexCoversTheCoins`, `RecoverySucceeds` | the blocks form a tree (`BlockTreeRooted`), no block overwrites an unspent coin (`BlocksConnect`, what `ConnectBlock` checks with BIP30), `NullIsNoUndo` |
| `ChainSelectionProofs` | `TypeInvariant`, `FailedBlocksAreMarked`, `ActiveChainIsValid`, `MostWorkIsUsable`, `CandidatesAreSound`; `CandidatesAreComplete`, `BestChainIsActive`, `ProgressIsMade`; `BlockIndexChecks`; `HeadersAreBelowValid`: every safety property of the three runs | the blocks form a tree; `ChainSelectionConstants`: work grows along a chain, entries have different addresses; the second group, `Orderly`; the third, `Orderly` and `NoMarking`; the last, `NoMarking` and `OnlyConnectFails` |
| `BaseIndexProofs` | `TablesAreRight`, `CallersAreServed` | the blocks form a tree, `NullIsNoEntry` |

Induction. The library's induction theorems take an operator as a parameter,
which the provers cannot instantiate. The ones used here range over *sets*
instead: `SumTheorems` has induction over finite sets and the least element of
a set of numbers, and derives what a sum over a finite set does when one value
changes; `TreeTheorems` has induction along a tree and over an interval, and
shows that a function defined by recursion along `pprev` exists and satisfies
its equation (`TreeRecursion`: the least relation closed under the equation is a
function). Heights, paths, chains and their relations follow.

**Coins cache.** `FreshSound` and `CleanSound` are not inductive alone: what
`BatchWrite` may do with a child's FRESH entry depends on both flags of the
parent's entry and on whether the parent would answer the coin. `CacheInv`
therefore says, per outpoint, that an entry is sound over the *answer* of
what is below it (`EntryOK`), together with the types and with the fact that a
view that does not exist is empty. Lemmas about single entries (`AddedOK`,
`SpentOK`, `MergedOK`, `FetchedOK`, `SyncedOK`) show that each operation leaves
a sound entry and what it then answers. Lemmas about steps lift this to the two
maps and classify a step as invisible, as writing one coin, as setting the
block, or as publishing the view; the refinement follows from that
classification and the equations that express `TipCoins` and `ViewCoins` by
the answers. The memory counter is a sum over the entries: a step on one entry
changes one summand, a flush all of them.

**Check queue.** `QueueInv` adds to the properties where each thread may be and
what it holds there (`Places`), that nothing is counted between sessions
(`Settled`), and where a failure can be: in the queue, in a batch, in the `fOk`
of a thread that has not reported, or in `fAllOk` (`Verdict`). Three actions end
in the same critical section; `Mid` is what holds in its middle, when a thread
has taken its own part out of the counters.

**Request tracker.** `SanityCheck` is inductive. Each operation replaces the row
of one transaction, so it is proved for the functions that compute a new row
(`RowOK`), and for the statistics of a peer as cardinalities. `TimeIsSet` and the
refinement also need that nothing is due once the second loop of `SetTimePoint`
has begun (`FirstLoopDone`): what that loop makes wait has a time in the future,
and a candidate that is promoted in its place does not wait. For the
refinement, the best candidate that the abstract tracker computes is the one
the row has marked.

**Crash recovery.** Rolling a block forward or back changes only the outpoints
the block touches, and what it leaves there does not depend on what was there
before; rolling back retraces rolling forward exactly. A map that has, at each
outpoint, the coin of block `c` or that of block `new` (`Mixed`) can therefore be
taken down to the parent of `c` and up again without losing that property; a
half-written database is such a map, and `ReplayBlocks` ends with nothing but
the coins of `new`. `FlushInv` says that the database and the state a loss of
power would go back to are both what their markers say and covered by the block
index. `RecoverySucceeds` is conditional (`Lossless`): the process may die at any
time, but if power is lost all blocks have to be in one block file, because the
property is false otherwise (see the note on `validation.cpp:2883` above).

**Chain selection.** Four invariants, because not everything holds whatever the
commands are. `Sound` does: the fields of an index entry agree, the index and
the linked blocks are closed under parents, the active chain is connected and
unmarked, and whatever a call remembers while another thread may run is still
so when it goes on. It is inductive because a block is only ever marked if it is
the one that failed, lies above a marked block, or is being disconnected; none
of these is on the active chain or on that of `pindexMostWork`. Its part about
`InvalidateBlock` (`InvalidateSound`) says where the block to be marked last can
be relative to the tip.

`Complete` is about what must not be forgotten. That every usable block not
worse than the tip is a candidate does not survive a step of
`ActivateBestChainStep`: the tip goes *down* to the fork, and blocks between it
and the old tip have been pruned. Inside a round the claim is therefore made
only for blocks not worse than the tip the round *started* with, and
`RoundProgress` says that the tip reached, or the target, is not worse than that
one when `cs_main` is released. `TargetBest` says that the remembered target is
the best block there is unless a thread waits that is going to look again, and
`Settled` that nobody being at work means the tip is best. The hypothesis
`Orderly` leaves out `reconsiderblock`, and `preciousblock` in behaviours of more
than two commands: with either a usable block may be missing from the
candidates, as listed above, and the other claims rest on that.

`Exact` gives the rest of `CheckBlockIndex`. A block is linked as soon as its
chain is there: `NowLinked` follows `m_blocks_unlinked`, so every block that
waits has to be in it, except below a marked block that has not arrived
(`Stuck`), and that block is never accepted later. This needs the origin of every
mark: a child mark has a marked parent, and a block marked for itself is linked
or has no data. `NoMarking` leaves out the commands that mark blocks or take
marks back. `InvalidRemembered` says that a block `ConnectBlock` rejected is in
`m_failed_blocks`, or that a restart, which empties that set, has marked all that
descends from it; with it, the shortcut of `AcceptBlockHeader` for parents that
are SCRIPTS-valid is safe because such a chain holds no rejected block.
`OnlyConnectFails` is needed because the other kind of failure is not put into
`m_failed_blocks`. The run `chain_activate` satisfies all these hypotheses,
`chain_invalidate` satisfies `Orderly`, and `chain_reconsider` needs none.

**Index.** The tables are right along the chain of the *frontier*, the block
that the sync thread or the callbacks appended last or have rewound to; the best
block and the locator are on that chain. Without the frontier neither claim is
inductive: the thread appends above `m_best_block_index`, and a rewind goes below
it. For the callers, the queue matters: the parent of a block in the queue is on
the chain of the block before it (`Linked`), so once the index takes a
notification it takes all that follow, and gets to the last; `QueueRight` says
that this leads to the tip and, before a caller's promise is kept, to the
caller's chain. A rewind moves what it takes from the best block's chain into
the hash table, so that blocks once served stay served.

Only model-checked:

- liveness and what needs fairness (`ENABLED` is out of the prover's reach):
  `CatchesUp`, the progress properties of `CheckQueue`, `FlushReplay`,
  `ChainSelection` and `TxDownload`;
- `Mempool`: its totals are sums over the ancestors and descendants reached by
  links, so an inductive invariant has to follow the transitive closure through
  every removal and through the reorganisation, in which the links are
  incomplete; and `Check` is false for packages that exceed the limits on sizes (see
  `mempool_package`), so a theorem needs a hypothesis about them. This has not
  been written;
- the types of `TxDownload`, whose properties are otherwise liveness;
- `RecoveryNeverFails` for a loss of power with several block files, where it
  does not hold.

## 6. Not modelled

Within the modelled parts:

- `ChainSelection`, `FlushReplay`: pruning, snapshot chainstates, disk errors,
  interruption of a call by a shutdown, reindexing;
- `Mempool`: fees and feerates (replacement and eviction choose freely), sigop
  costs, entry times, version-3 topology rules and sibling eviction, saving and
  loading the pool, and package replacements: the one case in which fees of 0
  pass, where neither the conflicts nor the parent have positive modified fees
  (`validation.cpp:1206`), is left out with the others;
- `TxDownload`: the contents of the orphanage and of the filters behind
  `AlreadyHaveTx`, parents of orphans, reconciliation, relay permissions, and `TXID_RELAY_DELAY`, as txids and wtxids
  are not told apart;
- `BaseIndex`: a first start on an empty data directory, failures to write a
  table or to read a block (each ends in `FatalErrorf`), prune locks, filter
  files, the transaction and coin-statistics indexes, and the notifications for
  blocks that one critical section of `ActivateBestChain` connects and gives up
  again (`validation.cpp:3504-3544`); the stale notifications the index has to
  ignore come from other moves of the tip.

The parts with no module at all, and why, are in `PROJECT.json`: sockets and
transports, the address tables, RPC, the wallet and the GUI are I/O or programs
of their own; scripts, signatures and cryptography are evaluated byte by byte,
which is beyond model checking and enters as a constant verdict.
