----------------------------- MODULE BaseIndex -----------------------------
(***************************************************************************)
(* An optional index of the block chain: BaseIndex (index/base.cpp) with   *)
(* the height and hash tables of BlockFilterIndex                          *)
(* (index/blockfilterindex.cpp).                                           *)
(*                                                                         *)
(* The chain moves under cs_main and puts a notification into the queue of *)
(* SerialTaskRunner (scheduler.cpp), which runs one callback at a time and *)
(* in order, at some later moment.  A thread of its own, Sync, follows the *)
(* chain from where the index stopped last; once it stands at the tip it   *)
(* sets m_synced and leaves the work to the notifications, of which the    *)
(* queue may hold some for blocks it has done already, or for blocks that  *)
(* are no longer in the chain.  The tables and the locator are on disk,    *)
(* and so are, written at other times, the block index and the chain tip.  *)
(*                                                                         *)
(* A filter header commits to all headers before it: it is modelled as the *)
(* sequence of the blocks it was computed from.  The chain has at least    *)
(* its genesis block: the index is enabled on a node that has been run.    *)
(***************************************************************************)
EXTENDS BlockTree, SequencesExt

CONSTANTS Null,            \* nullptr, a null locator, a missing entry
          FirstTip,        \* the chain tip when the index is enabled
          MaxTipChanges,   \* bound: changes of the chain tip
          MaxFlushes,      \* bound: flushes between changes of the tip
          MaxRestarts,     \* bound: crashes and shutdowns the index did not cause
          MayFail          \* the writes of the locator that fail, each once: "commit", "rewind"

ASSUME BaseIndexConstants ==
    /\ FirstTip \in Block
    /\ Null \notin Block
    /\ {MaxTipChanges, MaxFlushes, MaxRestarts} \subseteq Nat
    /\ MayFail \subseteq {"commit", "rewind"}

Heights == {Height[b] : b \in Block}

\* CBlockIndex::GetAncestor, and whether block a is on the chain that ends in b.
GetAncestor(b, h) == IF h \in 0 .. Height[b] THEN Path[b][h + 1] ELSE Null
OnChain(a, b) == GetAncestor(b, Height[a]) = a
\* CChain::FindFork, for the chain that ends in b.
FindFork(a, b) == GetAncestor(b, ForkHeight(a, b))

\* A value of the height table: the block and its header.
HeightValue == [hash : Block, header : Seq(Block)]

ASSUME NullIsNoEntry == Null \notin HeightValue

VARIABLES
    node,               \* "up", "stopping", "flushed" or "down"
    tip,                \* m_chain.Tip()
    known,              \* m_block_index, in memory
    diskTip, diskKnown, \* what a restart finds of the two
    queue,              \* m_callbacks_pending
    running,            \* a BlockConnected callback that still has to append
    best, synced,       \* m_best_block_index, m_synced
    sync,               \* the thread of Sync(): where it is, pindex, pindex_next
    last_header,        \* m_last_header
    byHeight, byHash,   \* DBHeightKey and DBHashKey entries
    locator,            \* DB_BEST_BLOCK: the first block of the locator
    reader,             \* a call of BlockUntilSyncedToCurrentChain
    tipChanges, flushes, restarts,
    failed              \* the writes that have failed

chainVars == <<tip, known, diskTip, diskKnown>>
indexVars == <<best, last_header, byHeight, byHash, locator, failed>>
bounds == <<tipChanges, flushes, restarts>>
vars == <<node, chainVars, queue, running, indexVars, synced, sync, reader, bounds>>

BlockConnected(b) == [type |-> "BlockConnected", block |-> b]
ChainStateFlushed(b) == [type |-> "ChainStateFlushed", block |-> b]
SyncPromise == [type |-> "SyncWithValidationInterfaceQueue", block |-> Null]

NoThread == [pc |-> "done", pindex |-> Null, next |-> Null]
Thread(b) == [pc |-> "loop", pindex |-> b, next |-> Null]
NoReader == [pc |-> "idle", tip |-> Null]

Init ==
    /\ node = "up"
    /\ tip = FirstTip /\ diskTip = FirstTip
    /\ known = {b \in Block : OnChain(b, FirstTip)} /\ diskKnown = known
    /\ queue = <<>> /\ running = Null
    /\ best = Null /\ synced = FALSE /\ sync = Thread(Null)
    /\ last_header = <<>>
    /\ byHeight = [h \in Heights |-> Null] /\ byHash = [b \in Block |-> Null]
    /\ locator = Null
    /\ reader = NoReader
    /\ tipChanges = 0 /\ flushes = 0 /\ restarts = 0 /\ failed = {}
-----------------------------------------------------------------------------
(* The chain                                                               *)

\* Blocks are connected and disconnected until Shutdown has stopped the threads
\* that do it.
ChainMoves == node \in {"up", "stopping"} /\ tipChanges < MaxTipChanges /\ tipChanges' = tipChanges + 1

\* The chain moves from tip to b, first down and then up.  ConnectTip and
\* DisconnectTip may flush after they have changed the coins and before they
\* have moved the tip, so that the locator of the notification and the coins
\* on disk are one block apart; and they do so before the blocks connected in
\* the same critical section are signalled.
MoveTip(b) ==
    LET f == ForkHeight(tip, b)
        connected == SubSeq(Path[b], f + 2, Height[b] + 1)
        disconnected == SubSeq(Path[tip], f + 2, Height[tip] + 1)
        signals == [i \in DOMAIN connected |-> BlockConnected(connected[i])]
        flushPoints == {<<Parent[c], c>> : c \in Range(connected)}
                         \cup {<<d, Parent[d]>> : d \in Range(disconnected)}
    IN  /\ tip' = b
        /\ known' = known \cup Range(connected)
        /\ \/ /\ queue' = queue \o signals
              /\ UNCHANGED <<diskTip, diskKnown, flushes>>
           \/ /\ flushes < MaxFlushes
              /\ \E p \in flushPoints :
                    /\ queue' = Append(queue, ChainStateFlushed(p[1])) \o signals
                    /\ diskTip' = p[2]
              /\ diskKnown' = known'
              /\ flushes' = flushes + 1

\* One critical section of ActivateBestChain: a better tip, or as good a one
\* that PreciousBlock prefers.  Blocks that the section connects and gives up
\* again after a failed ConnectBlock, and a section that ends where it began,
\* are left out: the stale notifications they cause also come from other moves.
ActivateBestChainStep(b) ==
    /\ ChainMoves
    /\ b # tip /\ Height[b] \in {Height[tip], Height[tip] + 1}
    /\ MoveTip(b)
    /\ UNCHANGED <<node, running, indexVars, synced, sync, reader, restarts>>

\* DisconnectTip in InvalidateBlock, which releases cs_main afterwards.  The
\* index does not listen to BlockDisconnected.
DisconnectTip ==
    /\ ChainMoves
    /\ tip # Genesis
    /\ MoveTip(Parent[tip])
    /\ UNCHANGED <<node, running, indexVars, synced, sync, reader, restarts>>

\* FlushStateToDisk: the block index alone, or all and a notification.
FlushStateToDisk(full) ==
    /\ node = "up" /\ flushes < MaxFlushes
    /\ diskKnown' = known
    /\ diskTip' = IF full THEN tip ELSE diskTip
    /\ queue' = IF full THEN Append(queue, ChainStateFlushed(tip)) ELSE queue
    /\ flushes' = flushes + 1
    /\ UNCHANGED <<node, tip, known, running, indexVars, synced, sync, reader, tipChanges, restarts>>
-----------------------------------------------------------------------------
(* The tables                                                              *)

\* BlockFilterIndex::CustomAppend and Write.
CustomAppend(b) ==
    LET header == Append(last_header, b)
    IN  /\ byHeight' = [byHeight EXCEPT ![Height[b]] = [hash |-> b, header |-> header]]
        /\ last_header' = header

\* Mutant: the tip that is rewound is left out.
CopyHeightIndexToHashIndexButTip(start, stop) ==
    [b \in Block |->
        IF \E h \in start .. stop - 1 : byHeight[h].hash = b
        THEN byHeight[Height[b]].header ELSE byHash[b]]

\* CopyHeightIndexToHashIndex, in one batch.
CopyHeightIndexToHashIndex(start, stop) ==
    [b \in Block |->
        IF \E h \in start .. stop : byHeight[h].hash = b
        THEN byHeight[Height[b]].header ELSE byHash[b]]

\* LookupOne.
LookupOne(b) ==
    IF byHeight[Height[b]] = Null THEN Null
    ELSE IF byHeight[Height[b]].hash = b THEN byHeight[Height[b]].header
    ELSE byHash[b]

\* Commit: the locator, in one batch; nothing if no block is indexed.
Commit(b) == locator' = (IF b = Null THEN locator ELSE b) /\ UNCHANGED failed
CommitFails(kind) == kind \in MayFail \ failed /\ failed' = failed \cup {kind} /\ UNCHANGED locator
\* A caller that need not handle errors.
CommitOrLog(b) == Commit(b) \/ CommitFails("commit")

\* The asserts of Rewind.
RewindAsserts(current, new) == current = best /\ OnChain(new, current)

\* Rewind: CustomRewind, then the locator.  If that cannot be written the best
\* block is put back, and the caller requests a shutdown.  That ReadFilterHeader
\* finds the header of new, which the code asserts, follows from TablesMatchBest.
Rewind(current, new) ==
    /\ byHash' = CopyHeightIndexToHashIndex(Height[new], Height[current])
    /\ last_header' = byHeight[Height[new]].header
    /\ UNCHANGED byHeight

\* Mutant: the locator is left to the next commit.
RewindCommitsLater(new) == best' = new /\ UNCHANGED <<locator, failed>>
RewindCommits(new) == best' = new /\ Commit(new)
RewindFails == UNCHANGED best /\ CommitFails("rewind")
\* FatalErrorf.
FatalError == node' = IF node = "up" THEN "stopping" ELSE node
-----------------------------------------------------------------------------
(* Start and end of the process                                            *)

\* All that is in memory goes.
Lost ==
    /\ node' = "down"
    /\ queue' = <<>> /\ running' = Null /\ reader' = NoReader
    /\ sync' = NoThread /\ synced' = FALSE /\ best' = Null /\ last_header' = <<>>
    /\ tip' = diskTip /\ known' = diskKnown

\* An assertion fails: the process aborts.
Abort == Lost /\ UNCHANGED <<diskTip, diskKnown, byHeight, byHash, locator, failed, bounds>>

Crash ==
    /\ node # "down" /\ restarts < MaxRestarts
    /\ restarts' = restarts + 1
    /\ Lost
    /\ UNCHANGED <<diskTip, diskKnown, byHeight, byHash, locator, failed, tipChanges, flushes>>

\* Interrupt() on a request to shut down; FatalErrorf requests the same.
Interrupt ==
    /\ node = "up" /\ restarts < MaxRestarts
    /\ restarts' = restarts + 1
    /\ node' = "stopping"
    /\ UNCHANGED <<chainVars, queue, running, indexVars, synced, sync, reader, tipChanges, flushes>>

\* Shutdown: flush the state, which signals, ...
ShutdownFlush ==
    /\ node = "stopping"
    /\ node' = "flushed"
    /\ diskTip' = tip /\ diskKnown' = known
    /\ queue' = Append(queue, ChainStateFlushed(tip))
    /\ UNCHANGED <<tip, known, running, indexVars, synced, sync, reader, bounds>>

\* ... run the callbacks that are left, and wait for the thread of Sync().
ShutdownStop ==
    /\ node = "flushed"
    /\ queue = <<>> /\ running = Null /\ sync.pc = "done"
    /\ Lost
    /\ UNCHANGED <<diskTip, diskKnown, byHeight, byHash, locator, failed, bounds>>

\* BaseIndex::Init: the best block of the locator has to be in the block index,
\* and CustomInit reads its header through the height table.
BestBlockFound == locator \in known \cup {Null}
HeaderReadable == locator # Null => byHeight[Height[locator]].hash = locator

Start ==
    /\ node = "down"
    /\ BestBlockFound /\ HeaderReadable
    /\ node' = "up"
    /\ best' = locator
    /\ last_header' = IF locator = Null THEN <<>> ELSE byHeight[Height[locator]].header
    /\ synced' = (locator = tip)
    /\ sync' = IF locator = tip THEN NoThread ELSE Thread(locator)
    /\ UNCHANGED <<chainVars, queue, running, byHeight, byHash, locator, failed, reader, bounds>>

\* InitError: "Please rebuild the index".  The user has it wiped.
Rebuild ==
    /\ node = "down"
    /\ ~(BestBlockFound /\ HeaderReadable)
    /\ locator' = Null
    /\ byHeight' = [h \in Heights |-> Null] /\ byHash' = [b \in Block |-> Null]
    /\ UNCHANGED <<node, chainVars, queue, running, best, last_header, failed, synced, sync, reader, bounds>>
-----------------------------------------------------------------------------
(* Sync()                                                                  *)

\* NextSyncBlock, under cs_main.
NextSyncBlock(pindex) ==
    IF pindex = Null THEN Genesis
    ELSE LET from == IF OnChain(pindex, tip) THEN pindex ELSE FindFork(pindex, tip)
         IN  GetAncestor(tip, Height[from] + 1)

\* What comes after pindex_next is known.
WithNext(next) ==
    [sync EXCEPT !.next = next,
                 !.pc = IF sync.pindex # Null /\ Parent[next] # sync.pindex THEN "rewind" ELSE "append"]

SyncInterrupted ==
    /\ sync.pc = "loop" /\ node # "up"
    /\ best' = sync.pindex
    /\ CommitOrLog(sync.pindex)
    /\ sync' = NoThread
    /\ UNCHANGED <<node, chainVars, queue, running, last_header, byHeight, byHash, synced, reader, bounds>>

SyncNext ==
    /\ sync.pc = "loop" /\ node = "up"
    /\ LET next == NextSyncBlock(sync.pindex)
       IN  IF next = Null
           THEN /\ sync' = [sync EXCEPT !.pc = "recheck"]
                /\ best' = sync.pindex
                /\ CommitOrLog(sync.pindex)
           ELSE /\ sync' = WithNext(next)
                /\ UNCHANGED <<best, locator, failed>>
    /\ UNCHANGED <<node, chainVars, queue, running, last_header, byHeight, byHash, synced, reader, bounds>>

\* Mutant: the tip is not looked at again.
SyncRecheckSkipped ==
    /\ sync.pc = "recheck"
    /\ synced' = TRUE
    /\ sync' = NoThread
    /\ UNCHANGED <<node, chainVars, queue, running, indexVars, reader, bounds>>

\* Still at the tip after the commit?  m_synced is set under cs_main.
SyncRecheck ==
    /\ sync.pc = "recheck"
    /\ LET next == NextSyncBlock(sync.pindex)
       IN  /\ synced' = (next = Null)
           /\ sync' = IF next = Null THEN NoThread ELSE WithNext(next)
    /\ UNCHANGED <<node, chainVars, queue, running, indexVars, reader, bounds>>

SyncRewind ==
    /\ sync.pc = "rewind"
    /\ LET new == Parent[sync.next]
       IN  IF RewindAsserts(sync.pindex, new)
           THEN /\ Rewind(sync.pindex, new)
                /\ \/ RewindCommits(new) /\ sync' = [sync EXCEPT !.pc = "append"] /\ UNCHANGED node
                   \/ RewindFails /\ sync' = NoThread /\ FatalError
                /\ UNCHANGED <<chainVars, queue, running, synced, reader, bounds>>
           ELSE Abort

\* The next block, and every 30 seconds the locator.
SyncAppend ==
    /\ sync.pc = "append"
    /\ CustomAppend(sync.next)
    /\ sync' = Thread(sync.next)
    /\ \/ UNCHANGED <<best, locator, failed>>
       \/ best' = sync.next /\ CommitOrLog(sync.next)
    /\ UNCHANGED <<node, chainVars, queue, running, byHash, synced, reader, bounds>>
-----------------------------------------------------------------------------
(* The callbacks, run one at a time by SerialTaskRunner::ProcessQueue      *)

ProcessQueue(type) ==
    /\ node # "down"
    /\ running = Null
    /\ queue # <<>> /\ Head(queue).type = type
    /\ queue' = Tail(queue)

\* BlockConnected is for the index if it connects to an ancestor of its best block.
Connects(b) == GetAncestor(best, Height[b] - 1) = Parent[b]

BlockConnectedIgnored ==
    /\ ProcessQueue("BlockConnected")
    /\ ~(synced /\ Connects(Head(queue).block))
    /\ UNCHANGED <<node, chainVars, running, indexVars, synced, sync, reader, bounds>>

BlockConnectedRewind ==
    /\ ProcessQueue("BlockConnected")
    /\ synced
    /\ LET b == Head(queue).block
       IN  /\ Connects(b)
           /\ \/ /\ best = Parent[b]
                 /\ running' = b
                 /\ UNCHANGED <<node, indexVars>>
              \/ /\ best # Parent[b]
                 /\ Rewind(best, Parent[b])
                 /\ \/ RewindCommits(Parent[b]) /\ running' = b /\ UNCHANGED node
                    \/ RewindFails /\ UNCHANGED running /\ FatalError
    /\ UNCHANGED <<chainVars, synced, sync, reader, bounds>>

BlockConnectedAppend ==
    /\ running # Null
    /\ CustomAppend(running)
    /\ best' = running
    /\ running' = Null
    /\ UNCHANGED <<node, chainVars, queue, byHash, locator, failed, synced, sync, reader, bounds>>

\* ChainStateFlushed commits if the flushed tip is on the index's chain.
ChainStateFlushedStep ==
    /\ ProcessQueue("ChainStateFlushed")
    /\ IF synced /\ OnChain(Head(queue).block, best)
       THEN CommitOrLog(best) ELSE UNCHANGED <<locator, failed>>
    /\ UNCHANGED <<node, chainVars, running, best, last_header, byHeight, byHash, synced, sync, reader, bounds>>
-----------------------------------------------------------------------------
(* BlockUntilSyncedToCurrentChain, before a request is answered            *)

\* The chain at the call is what the caller is going to ask about.
BlockUntilSyncedCall ==
    /\ node = "up" /\ reader.pc = "idle" /\ synced
    /\ IF OnChain(tip, best)
       THEN reader' = [pc |-> "returned", tip |-> tip] /\ UNCHANGED queue
       ELSE /\ reader' = [pc |-> "waiting", tip |-> tip]
            /\ queue' = Append(queue, SyncPromise)
    /\ UNCHANGED <<node, chainVars, running, indexVars, synced, sync, bounds>>

BlockUntilSyncedReturn ==
    /\ ProcessQueue("SyncWithValidationInterfaceQueue")
    /\ reader' = [reader EXCEPT !.pc = "returned"]
    /\ UNCHANGED <<node, chainVars, running, indexVars, synced, sync, bounds>>

\* The caller has its answer.
ReaderAnswered ==
    /\ reader.pc = "returned"
    /\ reader' = NoReader
    /\ UNCHANGED <<node, chainVars, queue, running, indexVars, synced, sync, bounds>>
-----------------------------------------------------------------------------
SyncStep == SyncInterrupted \/ SyncNext \/ SyncRecheck \/ SyncRewind \/ SyncAppend
Callback == \/ BlockConnectedIgnored \/ BlockConnectedRewind \/ BlockConnectedAppend
            \/ ChainStateFlushedStep \/ BlockUntilSyncedReturn
ShutdownStep == ShutdownFlush \/ ShutdownStop
Process == Start \/ Rebuild

Next ==
    \/ \E b \in Block : ActivateBestChainStep(b)
    \/ DisconnectTip
    \/ \E full \in BOOLEAN : FlushStateToDisk(full)
    \/ Crash \/ Interrupt
    \/ SyncStep \/ Callback \/ ShutdownStep \/ Process
    \/ BlockUntilSyncedCall \/ ReaderAnswered

\* The two threads run, a shutdown goes on, and the node is started again.
Fairness == WF_vars(SyncStep) /\ WF_vars(Callback) /\ WF_vars(ShutdownStep) /\ WF_vars(Process)

Spec == Init /\ [][Next]_vars /\ Fairness
-----------------------------------------------------------------------------
\* Every block up to the best block of the index, the one in memory and the one
\* that a restart would resume from, is in the height table: no gap is left
\* where Sync hands over to the notifications, and no crash and no missed
\* commit leaves a locator whose tables were overwritten, which CustomInit
\* reports as "index may be corrupted" (blockfilterindex.cpp).  And unless the
\* locator could not be written in a rewind, the filter header of each is
\* computed from those of its ancestors.
TablesMatchBest ==
    \A x \in {best, locator} \ {Null} : \A b \in Block : OnChain(b, x) =>
        /\ byHeight[Height[b]] # Null
        /\ byHeight[Height[b]].hash = b
        /\ "rewind" \notin failed => byHeight[Height[b]].header = Path[b]

\* After BlockUntilSyncedToCurrentChain has returned true, every block of the
\* chain as it was at the call is found, with the right header, whatever the
\* queue then does to the best block of the index: a rewind copies what it is
\* going to overwrite into the hash table.
ServesCallersChain ==
    reader.pc = "returned" /\ "rewind" \notin failed =>
        \A b \in Block : OnChain(b, reader.tip) => LookupOne(b) = Path[b]

\* Once the chain rests and the node stays up, the index comes to include the
\* chain tip, through Sync or through the notifications, and stays there.
CatchesUp == <>[](node = "up" /\ synced /\ OnChain(tip, best))

\* "assert(current_tip == m_best_block_index)" in Rewind (base.cpp), as reached
\* from Sync.
RewindFromBest == sync.pc = "rewind" => sync.pindex = best
=============================================================================
