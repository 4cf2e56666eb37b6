----------------------------- MODULE FlushReplay -----------------------------
(***************************************************************************)
(* What the node keeps on disk, and what it makes of it after a crash:     *)
(* the block and undo files, the block index database and the coins        *)
(* database, written by FlushStateToDisk (validation.cpp), BlockManager    *)
(* (node/blockstorage.cpp) and CCoinsViewDB::BatchWrite (txdb.cpp), and    *)
(* read again by LoadBlockIndex, ReplayBlocks and LoadChainTip.            *)
(*                                                                         *)
(* A block is a sequence of transactions, each spending a set of outpoints *)
(* and creating a set of outpoints.  A coin is the block that created it,  *)
(* which stands for its output and height: the same transaction in two     *)
(* branches makes different coins.  Which branch is followed is left open: *)
(* any tip may be disconnected and any child of it connected.  All of this *)
(* runs under cs_main, so the only thing that comes between two writes of  *)
(* a flush is a crash.                                                     *)
(***************************************************************************)
EXTENDS BlockTree, SequencesExt

CONSTANTS Outpoint,
          Vtx,            \* the transactions of each block
          Spent,          \* Coin::IsSpent()
          Null,           \* uint256(), nullptr
          BlocksPerFile,  \* MAX_BLOCKFILE_SIZE, in blocks
          PowerLoss,      \* does a crash lose data the system has not synced?
          MaxCrashes      \* bound: crashes in a behaviour

ASSUME FlushReplayConstants ==
    /\ IsFiniteSet(Block)
    /\ Vtx \in [Block -> Seq([in : SUBSET Outpoint, out : SUBSET Outpoint])]
    /\ Spent \notin Block /\ Null \notin Block \cup Nat
    /\ BlocksPerFile \in Nat \ {0}
    /\ PowerLoss \in BOOLEAN
    /\ MaxCrashes \in Nat

View == [Outpoint -> Block \cup {Spent}]
EmptyView == [o \in Outpoint |-> Spent]
-----------------------------------------------------------------------------
\* UpdateCoins, and one round of the loop of RollforwardBlock: spend the
\* inputs, then add the outputs, overwriting what is there.
UpdateCoins(b, view, tx) ==
    [o \in Outpoint |-> IF o \in tx.out THEN b
                        ELSE IF o \in tx.in THEN Spent ELSE view[o]]

RolledTxs(b, view) ==
    LET after[i \in 0 .. Len(Vtx[b])] ==
            IF i = 0 THEN view ELSE UpdateCoins(b, after[i - 1], Vtx[b][i])
    IN  after

RollforwardBlock(b, view) == RolledTxs(b, view)[Len(Vtx[b])]

\* ConnectBlock leaves the transactions of the genesis block out.
ConnectBlock(b, view) == IF b = Genesis THEN view ELSE RollforwardBlock(b, view)

\* CBlockUndo: for each transaction the coins its inputs had.
CBlockUndo(b) == [DOMAIN Vtx[b] -> UNION {[in -> Block \cup {Spent}] : in \in SUBSET Outpoint}]

ASSUME NullIsNoUndo == \A b \in Block : Null \notin CBlockUndo(b)

\* Mutant: the coinbase transaction has a record too, and every other one gets
\* that of the transaction before it.
BlockUndoShifted(b, view) ==
    [i \in DOMAIN Vtx[b] |->
        IF i = 1 THEN <<>>
        ELSE [o \in Vtx[b][i - 1].in |-> RolledTxs(b, view)[i - 2][o]]]

BlockUndo(b, view) ==
    [i \in DOMAIN Vtx[b] |-> [o \in Vtx[b][i].in |-> RolledTxs(b, view)[i - 1][o]]]

\* DisconnectBlock: in reverse order, remove the outputs and restore the inputs.
UndoTx(view, tx, txundo) ==
    [o \in Outpoint |-> IF o \in tx.in THEN txundo[o]
                        ELSE IF o \in tx.out THEN Spent ELSE view[o]]

UndoneTxs(b, view, blockUndo) ==
    LET n == Len(Vtx[b])
        after[i \in 0 .. n] ==
            IF i = 0 THEN view
            ELSE UndoTx(after[i - 1], Vtx[b][n + 1 - i], blockUndo[n + 1 - i])
    IN  after

DisconnectBlock(b, view, blockUndo) == UndoneTxs(b, view, blockUndo)[Len(Vtx[b])]

\* DISCONNECT_OK: every output was there, every input was not.
DisconnectClean(b, view, blockUndo) ==
    \A i \in DOMAIN Vtx[b] :
        LET found == UndoneTxs(b, view, blockUndo)[Len(Vtx[b]) - i]
        IN  /\ \A o \in Vtx[b][i].out : found[o] = b
            /\ \A o \in Vtx[b][i].in : found[o] = Spent

\* The coins the chain ending in a block should have.
Utxo[b \in Block] == IF b = Genesis THEN EmptyView ELSE RollforwardBlock(b, Utxo[Parent[b]])

\* The blocks are those that ConnectBlock accepts: no transaction spends what it
\* creates, or creates what is there already and unspent (BIP30).
ASSUME BlocksConnect ==
    \A b \in Block \ {Genesis} : \A i \in DOMAIN Vtx[b] :
        LET before == RolledTxs(b, Utxo[Parent[b]])[i - 1]
        IN  \A o \in Vtx[b][i].out : before[o] = Spent /\ o \notin Vtx[b][i].in
-----------------------------------------------------------------------------
VARIABLES stage,       \* where the node is: see below
          tip, view,   \* CoinsTip(): its best block and its coins
          file,        \* m_block_index: nFile of the blocks with BLOCK_HAVE_DATA, else Null
          undo,        \* the undo data of the blocks with BLOCK_HAVE_UNDO, else Null
          cursor,      \* m_blockfile_cursors: file_num and undo_height
          blkUnsynced, undoUnsynced,   \* blocks whose data or undo data is not synced
          blkLost, undoLost,           \* blocks whose data or undo data a crash has lost
          index,       \* the block index database: file and undo as last written
          db, dbBest, dbHeads,         \* the coins, DB_BEST_BLOCK and DB_HEAD_BLOCKS
          durable,     \* the coins database as a power loss would leave it
          crashes

vars == <<stage, tip, view, file, undo, cursor, blkUnsynced, undoUnsynced, blkLost,
          undoLost, index, db, dbBest, dbHeads, durable, crashes>>
memory == <<tip, view, file, undo, cursor>>
files == <<blkUnsynced, undoUnsynced, blkLost, undoLost>>
coinsdb == <<db, dbBest, dbHeads, durable>>

\* run: processing blocks;  index, coins: inside FlushStateToDisk, before the
\* block index and before the coins are written;  replay: inside the Flush of
\* ReplayBlocks;  down: not running;  failed: given up.
Stage == {"run", "index", "coins", "replay", "down", "failed"}

NoFiles == [b \in Block |-> Null]

Types ==
    /\ stage \in Stage
    /\ tip \in Block \cup {Null} /\ view \in View
    /\ file \in [Block -> Nat \cup {Null}]
    /\ cursor \in [file_num : Nat, undo_height : Nat]
    /\ blkUnsynced \subseteq Block /\ undoUnsynced \subseteq Block
    /\ blkLost \subseteq Block /\ undoLost \subseteq Block
    /\ db \in View /\ dbBest \in Block \cup {Null}
    /\ dbHeads = <<>> \/ dbHeads \in Block \X (Block \cup {Null})
    /\ crashes \in 0..MaxCrashes

\* An undo record has, for every transaction of its block, a coin for each of the
\* inputs: DisconnectBlock never finds block and undo data inconsistent.
UndoFits ==
    \A b \in Block : undo[b] # Null =>
        /\ DOMAIN undo[b] = DOMAIN Vtx[b]
        /\ \A i \in DOMAIN Vtx[b] : undo[b][i] \in [Vtx[b][i].in -> Block \cup {Spent}]

\* The variables have their types, also after a crash and a reload, and what is
\* kept of the undo files fits the blocks.
TypeOK == Types /\ UndoFits

\* A new data directory: LoadGenesisBlock has saved the genesis block, and
\* ActivateBestChain has connected it.
Init == /\ stage = "run"
        /\ tip = Genesis /\ view = EmptyView
        /\ file = [NoFiles EXCEPT ![Genesis] = 0]
        /\ undo = NoFiles
        /\ cursor = [file_num |-> 0, undo_height |-> 0]
        /\ blkUnsynced = {Genesis} /\ undoUnsynced = {}
        /\ blkLost = {} /\ undoLost = {}
        /\ index = [file |-> NoFiles, undo |-> NoFiles]
        /\ db = EmptyView /\ dbBest = Null /\ dbHeads = <<>>
        /\ durable = <<EmptyView, Null, <<>>>>
        /\ crashes = 0
-----------------------------------------------------------------------------
\* The blocks UpdateBlockInfo and FindNextBlockPos have put into a file.
InFile(n) == {b \in Block : file[b] = n}
\* FindNextBlockPos has to begin another file.
FileFull == Cardinality(InFile(cursor.file_num)) >= BlocksPerFile
HeightLast(n) == Max({0} \cup {Height[b] : b \in InFile(n)})

\* AcceptBlock saves a block: FindNextBlockPos leaves a full file after syncing
\* it, and its undo file too if that has kept up with it.
SaveBlockToDisk(b) ==
    LET old == cursor.file_num
        finalize_undo == HeightLast(old) = cursor.undo_height
        n == IF FileFull THEN old + 1 ELSE old
    IN  /\ stage = "run" /\ file[b] = Null
        /\ file' = [file EXCEPT ![b] = n]
        /\ cursor' = IF FileFull THEN [file_num |-> n, undo_height |-> 0] ELSE cursor
        /\ blkUnsynced' = (IF FileFull THEN blkUnsynced \ InFile(old) ELSE blkUnsynced) \cup {b}
        /\ undoUnsynced' = IF FileFull /\ finalize_undo THEN undoUnsynced \ InFile(old)
                                                        ELSE undoUnsynced
        /\ blkLost' = blkLost \ {b}
        /\ UNCHANGED <<stage, tip, view, undo, undoLost, index, coinsdb, crashes>>

\* WriteUndoDataForBlock: undo data already on disk is not written again.
WriteUndoDataForBlock(b) ==
    IF undo[b] # Null THEN UNCHANGED <<undo, undoUnsynced, undoLost, cursor>>
    ELSE /\ undo' = [undo EXCEPT ![b] = BlockUndo(b, view)]
         /\ undoLost' = undoLost \ {b}
         /\ undoUnsynced' = IF file[b] < cursor.file_num /\ Height[b] = HeightLast(file[b])
                              THEN undoUnsynced \ InFile(file[b])
                              ELSE undoUnsynced \cup {b}
         /\ cursor' = IF file[b] = cursor.file_num /\ Height[b] > cursor.undo_height
                        THEN [cursor EXCEPT !.undo_height = Height[b]] ELSE cursor

\* ReadBlockFromDisk and UndoReadFromDisk succeed.
BlockReadable(b) == b \notin blkLost
UndoReadable(b) == b \notin undoLost

ConnectTip(b) ==
    /\ stage = "run" /\ b # Genesis
    /\ Parent[b] = tip /\ file[b] # Null
    /\ stage' = IF BlockReadable(b) THEN "run" ELSE "failed"
    /\ WriteUndoDataForBlock(b)
    /\ view' = ConnectBlock(b, view)
    /\ tip' = b
    /\ UNCHANGED <<file, blkUnsynced, blkLost, index, coinsdb, crashes>>

DisconnectTip ==
    /\ stage = "run" /\ tip # Genesis
    /\ stage' = IF /\ BlockReadable(tip) /\ UndoReadable(tip) /\ undo[tip] # Null
                   /\ DisconnectClean(tip, view, undo[tip])
                  THEN "run" ELSE "failed"
    /\ IF undo[tip] = Null THEN UNCHANGED <<tip, view>>
       ELSE /\ view' = DisconnectBlock(tip, view, undo[tip])
            /\ tip' = Parent[tip]
    /\ UNCHANGED <<file, undo, cursor, files, index, coinsdb, crashes>>
-----------------------------------------------------------------------------
\* FlushStateToDisk begins: FlushChainstateBlockFile syncs the file the cursor
\* is at and its undo file.
FlushChainstateBlockFile ==
    /\ stage = "run"
    /\ stage' = "index"
    /\ blkUnsynced' = blkUnsynced \ InFile(cursor.file_num)
    /\ undoUnsynced' = undoUnsynced \ InFile(cursor.file_num)
    /\ UNCHANGED <<memory, blkLost, undoLost, index, coinsdb, crashes>>

\* Where FlushStateToDisk goes on after the index: the coins follow only in a
\* full flush.  What triggers a flush, and a full one, is left open.
FlushStateToDisk(fDoFullFlush) == IF fDoFullFlush THEN "coins" ELSE "run"

\* Mutant: the positions of the undo data are not written.
WriteBlockIndexDBNoUndo(fDoFullFlush) ==
    /\ stage = "index"
    /\ stage' = FlushStateToDisk(fDoFullFlush)
    /\ index' = [index EXCEPT !.file = file]
    /\ UNCHANGED <<memory, files, coinsdb, crashes>>

\* WriteBlockIndexDB, one synced batch.
WriteBlockIndexDB(fDoFullFlush) ==
    /\ stage = "index"
    /\ stage' = FlushStateToDisk(fDoFullFlush)
    /\ index' = [file |-> file, undo |-> undo]
    /\ UNCHANGED <<memory, files, coinsdb, crashes>>

\* CCoinsViewDB::BatchWrite of the coins in view, for block tip.  Entries equal
\* to what the database has may be among those written; they change nothing, so
\* that a partial batch may also do no more than set the markers.
Dirty == {o \in Outpoint : view[o] # db[o]}
Written(s) == [o \in Outpoint |-> IF o \in s THEN view[o] ELSE db[o]]
OldTip == IF dbBest # Null THEN dbBest ELSE IF dbHeads # <<>> THEN dbHeads[2] ELSE Null

\* assert(old_heads[0] == hashBlock)
HeadsAssert == (dbBest = Null /\ dbHeads # <<>>) => dbHeads[1] = tip

\* Mutant: the transition is not marked; DB_BEST_BLOCK stays during the write.
PartialBatchUnmarked(s) ==
    /\ stage \in {"coins", "replay"}
    /\ s \subseteq Dirty
    /\ stage' = IF HeadsAssert THEN stage ELSE "failed"
    /\ db' = Written(s)
    /\ UNCHANGED <<memory, files, index, dbBest, dbHeads, durable, crashes>>

WritePartialBatch(s) ==
    /\ stage \in {"coins", "replay"}
    /\ s \subseteq Dirty
    /\ stage' = IF HeadsAssert THEN stage ELSE "failed"
    /\ db' = Written(s)
    /\ dbBest' = Null
    /\ dbHeads' = <<tip, OldTip>>
    /\ UNCHANGED <<memory, files, index, durable, crashes>>

\* Mutant: after a replay the transition stays marked, and the node has to be
\* started again.
WriteFinalBatchStillMarked ==
    /\ stage \in {"coins", "replay"}
    /\ stage' = IF stage = "replay" THEN "down" ELSE "run"
    /\ db' = Written(Dirty)
    /\ dbBest' = IF stage = "replay" THEN Null ELSE tip
    /\ dbHeads' = IF stage = "replay" THEN <<tip, OldTip>> ELSE <<>>
    /\ UNCHANGED <<memory, files, index, durable, crashes>>

WriteFinalBatch ==
    /\ stage \in {"coins", "replay"}
    /\ stage' = IF HeadsAssert THEN "run" ELSE "failed"
    /\ db' = Written(Dirty)
    /\ dbBest' = tip
    /\ dbHeads' = <<>>
    /\ UNCHANGED <<memory, files, index, durable, crashes>>

\* LevelDB writes are not synced, but reach the disk in order.
WriteBack ==
    /\ PowerLoss
    /\ durable' = <<db, dbBest, dbHeads>>
    /\ UNCHANGED <<stage, memory, files, index, db, dbBest, dbHeads, crashes>>
-----------------------------------------------------------------------------
Indexed == {b \in Block : index.file[b] # Null}

\* The process dies; blocks the index database does not know are forgotten.
Crash ==
    /\ stage \notin {"down", "failed"} /\ crashes < MaxCrashes
    /\ crashes' = crashes + 1
    /\ stage' = "down"
    /\ tip' = Null /\ view' = EmptyView
    /\ file' = NoFiles /\ undo' = NoFiles
    /\ cursor' = [file_num |-> 0, undo_height |-> 0]
    /\ IF PowerLoss
         THEN /\ \E lost \in SUBSET blkUnsynced : blkLost' = (blkLost \cup lost) \cap Indexed
              /\ \E lost \in SUBSET undoUnsynced : undoLost' = (undoLost \cup lost) \cap Indexed
              /\ blkUnsynced' = {} /\ undoUnsynced' = {}
              /\ db' = durable[1] /\ dbBest' = durable[2] /\ dbHeads' = durable[3]
         ELSE /\ UNCHANGED <<blkLost, undoLost, db, dbBest, dbHeads>>
              /\ blkUnsynced' = blkUnsynced \cap Indexed
              /\ undoUnsynced' = undoUnsynced \cap Indexed
    /\ UNCHANGED <<index, durable>>

\* Mutant: the positions of the undo data are not read back.
LoadBlockIndexNoUndo ==
    /\ file' = IF index.file[Genesis] = Null THEN [index.file EXCEPT ![Genesis] = 0] ELSE index.file
    /\ undo' = NoFiles
    /\ cursor' = [file_num |-> Max({0} \cup {index.file[b] : b \in Indexed}), undo_height |-> 0]
    /\ blkUnsynced' = IF index.file[Genesis] = Null THEN blkUnsynced \cup {Genesis} ELSE blkUnsynced

\* LoadBlockIndexDB, and LoadGenesisBlock if the index is empty.
LoadBlockIndex ==
    /\ file' = IF index.file[Genesis] = Null THEN [index.file EXCEPT ![Genesis] = 0] ELSE index.file
    /\ undo' = index.undo
    /\ cursor' = [file_num |-> Max({0} \cup {index.file[b] : b \in Indexed}), undo_height |-> 0]
    /\ blkUnsynced' = IF index.file[Genesis] = Null THEN blkUnsynced \cup {Genesis} ELSE blkUnsynced

\* The coins database is consistent: LoadChainTip, or an empty chainstate whose
\* genesis block ActivateBestChain then connects.
StartClean ==
    /\ stage = "down" /\ dbHeads = <<>>
    /\ LoadBlockIndex
    /\ stage' = IF dbBest = Null \/ dbBest \in Indexed THEN "run" ELSE "failed"
    /\ tip' = IF dbBest = Null THEN Genesis ELSE dbBest
    /\ view' = db
    /\ UNCHANGED <<undoUnsynced, blkLost, undoLost, index, coinsdb, crashes>>

\* Height of the last common ancestor, 0 if there is no old tip.
nForkHeight(old, new) == IF old = Null THEN 0 ELSE ForkHeight(old, new)

\* The blocks of b's chain above height h.
Above(b, h) == {Path[b][i] : i \in h + 2 .. Height[b] + 1}

\* The two loops of ReplayBlocks, over the half-written database.
RolledBack(old, fork) ==
    LET after[i \in 0 .. Height[old] - fork] ==
            IF i = 0 THEN db
            ELSE LET b == Path[old][Height[old] + 2 - i]
                 IN  DisconnectBlock(b, after[i - 1], index.undo[b])
    IN  after[Height[old] - fork]

RolledForward(new, fork, from) ==
    LET after[i \in 0 .. Height[new] - fork] ==
            IF i = 0 THEN from ELSE RollforwardBlock(Path[new][fork + 1 + i], after[i - 1])
    IN  after[Height[new] - fork]

\* Mutant: the blocks of the old branch are not rolled back.
ReplayedForwardOnly(old, new) == RolledForward(new, nForkHeight(old, new), db)

\* The coins ReplayBlocks computes.
Replayed(old, new) ==
    LET fork == nForkHeight(old, new)
    IN  RolledForward(new, fork, IF old = Null THEN db ELSE RolledBack(old, fork))

\* Every block and undo record ReplayBlocks reads is there.
CanReplay(old, new) ==
    /\ new \in Indexed /\ old \in Indexed \cup {Null}
    /\ LET fork == nForkHeight(old, new)
       IN  /\ old # Null => \A b \in Above(old, fork) :
                               /\ b \in Indexed /\ index.undo[b] # Null
                               /\ BlockReadable(b) /\ UndoReadable(b)
           /\ \A b \in Above(new, fork) : b \in Indexed /\ BlockReadable(b)

\* ReplayBlocks up to its Flush, which is a BatchWrite like any other.
StartReplay ==
    /\ stage = "down" /\ dbHeads # <<>>
    /\ LoadBlockIndex
    /\ LET new == dbHeads[1]
           old == dbHeads[2]
       IN  /\ stage' = IF CanReplay(old, new) THEN "replay" ELSE "failed"
           /\ tip' = new
           /\ view' = IF CanReplay(old, new) THEN Replayed(old, new) ELSE db
    /\ UNCHANGED <<undoUnsynced, blkLost, undoLost, index, coinsdb, crashes>>

-----------------------------------------------------------------------------
Next == \/ \E b \in Block : SaveBlockToDisk(b) \/ ConnectTip(b)
        \/ DisconnectTip
        \/ FlushChainstateBlockFile
        \/ \E full \in BOOLEAN : WriteBlockIndexDB(full)
        \/ \E s \in SUBSET Outpoint : WritePartialBatch(s)
        \/ WriteFinalBatch \/ WriteBack
        \/ Crash \/ StartClean \/ StartReplay

\* A node that is down is started again, and a flush that has begun goes on.
Fairness == WF_vars(StartClean) /\ WF_vars(StartReplay) /\ WF_vars(WriteFinalBatch)

Spec == Init /\ [][Next]_vars /\ Fairness
-----------------------------------------------------------------------------
\* After a crash in the middle of a flush or of the recovery from an earlier one
\* the node finds every block and undo record it needs, and no assertion of
\* BatchWrite fails: no reindex is needed.  This is so whenever only the process
\* dies, and for a loss of power while there is one block file; with several
\* files and a loss of power it is not.
RecoveryNeverFails == stage # "failed"

\* The coins the node works with are those of its tip, also when they were
\* rebuilt from a database that holds coins of two branches.
TipCoinsExact == stage \notin {"down", "failed"} => view = Utxo[tip]

\* DB_BEST_BLOCK is present only if the coins database is exactly the state at
\* that block; while DB_HEAD_BLOCKS is there instead, every coin is that of the
\* old or of the new block; with neither the database is empty.
MarkersTruthful ==
    /\ dbBest = Null /\ dbHeads = <<>> => db = EmptyView
    /\ dbBest # Null => db = Utxo[dbBest] /\ dbHeads = <<>>
    /\ dbHeads # <<>> =>
         \A o \in Outpoint : \/ db[o] = Utxo[dbHeads[1]][o]
                             \/ db[o] = IF dbHeads[2] = Null THEN Spent ELSE Utxo[dbHeads[2]][o]

\* The coins database never refers to a block the block index database does not
\* know, or whose undo data it lacks.
Referenced == ({dbBest, durable[2]} \cup ToSet(dbHeads) \cup ToSet(durable[3])) \ {Null}
IndexCoversCoins ==
    \A b \in Referenced : \A c \in Chain[b] :
        /\ index.file[c] # Null
        /\ c # Genesis => index.undo[c] # Null

\* A node that went down comes up again.
Recovers == (stage = "down") ~> (stage = "run")
=============================================================================
