--------------------------- MODULE ChainSelection ---------------------------
(***************************************************************************)
(* The block tree in memory and the choice of the active chain             *)
(* (validation.cpp, node/blockstorage.cpp): headers and blocks arrive in   *)
(* any order, ActivateBestChain moves the tip towards the best candidate,  *)
(* and the RPCs preciousblock, invalidateblock and reconsiderblock change  *)
(* what counts as best.                                                    *)
(*                                                                         *)
(* Threads call these functions concurrently.  Everything that touches the *)
(* index runs under cs_main, so a function that holds cs_main throughout   *)
(* is one step.  ActivateBestChain and InvalidateBlock release cs_main     *)
(* between rounds and hold m_chainstate_mutex (here `holder') throughout;  *)
(* the rounds of ActivateBestChain take several steps, with csMain set so  *)
(* that no other thread comes between them.  Block data is present or not; *)
(* whether a block passes ContextualCheckBlock and ConnectBlock is a       *)
(* constant.  Pruning, snapshots and the mempool are left out.             *)
(***************************************************************************)
EXTENDS BlockTree

CONSTANTS Work,              \* nChainWork
          CtxInvalid,        \* blocks that fail ContextualCheckBlock
          ConnectInvalid,    \* blocks that fail ConnectBlock
          Addresses,         \* bound: orders the index entries may have in memory
          Thread,
          Null,              \* nullptr
          ConnectBatch,      \* 32: blocks listed at a time by ActivateBestChainStep
          MinBlocksToKeep,   \* MIN_BLOCKS_TO_KEEP
          MinimumChainWork,
          Commands,          \* the RPCs that are used
          MaxCommands,       \* bound: RPC calls in a behaviour
          MaxRestarts        \* bound: restarts in a behaviour

ASSUME ChainSelectionConstants ==
    /\ Work \in [Block -> Nat]
    /\ \A b \in Block \ {Genesis} : Work[Parent[b]] < Work[b]
    /\ CtxInvalid \subseteq Block \ {Genesis}
    /\ ConnectInvalid \subseteq Block \ {Genesis}
    /\ Addresses # {} /\ Addresses \subseteq [Block -> Nat]
    /\ \A ad \in Addresses : \A a, b \in Block : ad[a] = ad[b] => a = b
    /\ Null \notin Block \cup Thread
    /\ ConnectBatch \in Nat \ {0}
    /\ MinBlocksToKeep \in Nat /\ MinimumChainWork \in Nat
    /\ Commands \subseteq {"preciousblock", "invalidateblock", "reconsiderblock"}
    /\ MaxCommands \in Nat /\ MaxRestarts \in Nat

VARIABLES
    \* BlockManager::m_block_index, one function for each field of CBlockIndex
    known,        \* the keys: the blocks whose header is in the index
    level,        \* nStatus & BLOCK_VALID_MASK
    failed,       \* nStatus & BLOCK_FAILED_MASK, as a set
    haveData,     \* the blocks with BLOCK_HAVE_DATA (and nTx > 0)
    linked,       \* the blocks with nChainTx > 0: HaveNumChainTxs()
    seq,          \* nSequenceId
    addr,         \* where the entry is in memory
    \* ChainstateManager and Chainstate
    candidates,   \* setBlockIndexCandidates
    unlinked,     \* m_blocks_unlinked: b stands for the pair (b->pprev, b)
    tip,          \* m_chain.Tip()
    bestHeader,   \* m_best_header
    bestInvalid,  \* m_best_invalid
    failedBlocks, \* m_failed_blocks
    counters,     \* nBlockSequenceId, nBlockReverseSequenceId, nLastPreciousChainwork
    \* threads
    pc, holder, csMain,
    abc,          \* locals of the running ActivateBestChain
    inv,          \* locals of the running InvalidateBlock
    target,       \* pindex, for a thread that has called InvalidateBlock
    used          \* bound: commands and restarts so far

indexVars == <<known, level, failed, haveData, linked, seq, addr>>
chainVars == <<candidates, unlinked, tip, bestHeader, bestInvalid, failedBlocks, counters>>
threadVars == <<pc, holder, csMain, abc, inv, target>>
vars == <<indexVars, chainVars, threadVars, used>>

Unknown == 0       \* not in the index
Tree == 2          \* BLOCK_VALID_TREE
Transactions == 3  \* BLOCK_VALID_TRANSACTIONS
Scripts == 5       \* BLOCK_VALID_SCRIPTS

NoAbc == [mostWork |-> Null, startTip |-> Null, oldTip |-> Null, front |-> Null,
          progressed |-> FALSE]
NoInv == [toMark |-> Null, byWork |-> {}]
-----------------------------------------------------------------------------
\* CBlockIndexWorkComparator: a sorts before b, that is a is the worse one.
ComparesWorse(sq, ad, a, b) ==
    \/ Work[a] < Work[b]
    \/ Work[a] = Work[b] /\ sq[a] > sq[b]
    \/ Work[a] = Work[b] /\ sq[a] = sq[b] /\ ad[a] > ad[b]

Worse(a, b) == ComparesWorse(seq, addr, a, b)
Best(S) == CHOOSE b \in S : \A c \in S : ~Worse(b, c)

IsValid(b, upTo) == failed[b] = {} /\ level[b] >= upTo

\* Mutant: a connected block is only raised to BLOCK_VALID_CHAIN.
RaiseValidityToChain(lv, b, upTo) ==
    [lv EXCEPT ![b] = IF failed[b] = {} /\ @ < upTo THEN IF upTo = Scripts THEN 4 ELSE upTo
                      ELSE @]

RaiseValidity(lv, b, upTo) ==
    [lv EXCEPT ![b] = IF failed[b] = {} /\ @ < upTo THEN upTo ELSE @]

\* InvalidChainFound on m = [invalid |-> m_best_invalid, header |-> m_best_header]
InvalidChainFound(m, b) ==
    [invalid |-> IF m.invalid = Null \/ Work[b] > Work[m.invalid] THEN b ELSE m.invalid,
     header |-> IF b \in Chain[m.header] THEN tip ELSE m.header]

Markers == [invalid |-> bestInvalid, header |-> bestHeader]

\* Mutant: the tip itself is deleted too.
PruneTipToo(cs, sq, ad, t) == {b \in cs : ComparesWorse(sq, ad, t, b)}

\* PruneBlockIndexCandidates, for tip t
PruneBlockIndexCandidates(cs, sq, ad, t) == {b \in cs : ~ComparesWorse(sq, ad, b, t)}
-----------------------------------------------------------------------------
(***************************************************************************)
(* Headers and blocks arrive: ProcessNewBlockHeaders and ProcessNewBlock.  *)
(***************************************************************************)
DescendsFromFailed(b) == \E f \in failedBlocks : f \in Chain[b]

\* Mutant: m_failed_blocks is not consulted.
HeaderAcceptedUnlessMarked(b) ==
    IF b \in known THEN failed[b] = {} ELSE Parent[b] \in known /\ failed[Parent[b]] = {}

\* AcceptBlockHeader returns true.
HeaderAccepted(b) ==
    IF b \in known THEN failed[b] = {}
    ELSE /\ Parent[b] \in known
         /\ failed[Parent[b]] = {}
         /\ IsValid(Parent[b], Scripts) \/ ~DescendsFromFailed(Parent[b])

\* Mutant: the walk back does not stop at the failed block.
FailedPastReject(b) ==
    IF b \notin known /\ Parent[b] \in known /\ failed[Parent[b]] = {}
    THEN [x \in Block |-> IF x \in Chain[Parent[b]] \ failedBlocks
                          THEN failed[x] \cup {"CHILD"} ELSE failed[x]]
    ELSE failed

\* nStatus after AcceptBlockHeader has rejected b: when b is new and descends
\* from a block in m_failed_blocks, the blocks in between are marked.
FailedAfterReject(b) ==
    IF b \notin known /\ Parent[b] \in known /\ failed[Parent[b]] = {}
    THEN LET S == failedBlocks \cap Chain[Parent[b]]
             f == CHOOSE x \in S : \A y \in S : addr[x] <= addr[y]
         IN  [x \in Block |-> IF x \in Chain[Parent[b]] \ Chain[f]
                              THEN failed[x] \cup {"CHILD"} ELSE failed[x]]
    ELSE failed

\* AddToBlockIndex, the part that does not concern the validity level
AddToBlockIndex(b) ==
    /\ known' = known \cup {b}
    /\ bestHeader' = IF b \notin known /\ Work[bestHeader] < Work[b] THEN b ELSE bestHeader

ProcessNewBlockHeaders(t, b) ==
    /\ pc[t] = "idle" /\ csMain = Null
    /\ b \notin known
    /\ IF HeaderAccepted(b)
       THEN AddToBlockIndex(b) /\ level' = [level EXCEPT ![b] = Tree] /\ UNCHANGED failed
       ELSE failed' = FailedAfterReject(b) /\ UNCHANGED <<known, bestHeader, level>>
    /\ UNCHANGED <<haveData, linked, seq, addr, candidates, unlinked, tip, bestInvalid,
                   failedBlocks, counters, threadVars, used>>

\* Mutant: only the block itself is linked, and its children stay where they are.
NowLinkedAlone(b) == {b}

\* The blocks that ReceivedBlockTransactions links when b arrives: b and the
\* descendants that wait in m_blocks_unlinked for nothing else.
NowLinked(b) == {x \in Block : b \in Chain[x] /\ Chain[x] \ Chain[b] \subseteq unlinked}

\* The orders in which the queue visits S: breadth first, children in the
\* order of their parents.  The order of siblings is that in which they were
\* put in the multimap, which is left open.
QueueOrders(S) ==
    {r \in [S -> 0 .. Cardinality(S) - 1] :
        \A x, y \in S : x # y =>
            /\ r[x] # r[y]
            /\ Height[x] < Height[y] => r[x] < r[y]
            /\ (/\ Height[x] = Height[y] /\ {Parent[x], Parent[y]} \subseteq S
                /\ r[Parent[x]] < r[Parent[y]]) => r[x] < r[y]}

\* Mutant: any linked block becomes a candidate.
TryAddAll(S, sq) == S

\* TryAddBlockIndexCandidate, for each block of S
TryAddBlockIndexCandidate(S, sq) == {x \in S : ~ComparesWorse(sq, addr, x, tip)}

\* Mutant: a block whose parent is itself waiting is not kept.
UnlinkedWithOrphan(b) == IF Parent[b] \notin haveData THEN unlinked \cup {b} ELSE unlinked

\* m_blocks_unlinked when b has to wait
UnlinkedWith(b) == IF failed[Parent[b]] = {} THEN unlinked \cup {b} ELSE unlinked

\* Mutant: the entries that have been visited are not erased.
UnlinkedKept(S) == unlinked

UnlinkedWithout(S) == unlinked \ S

ReceivedBlockTransactions(b) ==
    /\ haveData' = haveData \cup {b}
    /\ IF Parent[b] \in linked
       THEN LET S == NowLinked(b)
            IN  \E r \in QueueOrders(S) :
                  /\ seq' = [x \in Block |-> IF x \in S THEN counters.next + r[x] ELSE seq[x]]
                  /\ counters' = [counters EXCEPT !.next = @ + Cardinality(S)]
                  /\ linked' = linked \cup S
                  /\ unlinked' = UnlinkedWithout(S)
                  /\ candidates' = candidates \cup TryAddBlockIndexCandidate(S, seq')
       ELSE /\ unlinked' = UnlinkedWith(b)
            /\ UNCHANGED <<seq, counters, linked, candidates>>

\* AcceptBlock goes on with a block it has not asked for.
ProcessUnrequested(b) ==
    /\ Work[b] >= Work[tip]
    /\ Height[b] <= Height[tip] + MinBlocksToKeep
    /\ Work[b] >= MinimumChainWork

ToActivate(t) == pc' = [pc EXCEPT ![t] = "abc"]

\* ProcessNewBlock, up to the call of ActivateBestChain.
ProcessNewBlock(t, b, requested) ==
    /\ pc[t] = "idle" /\ csMain = Null
    /\ \/ /\ ~HeaderAccepted(b)
          /\ failed' = FailedAfterReject(b)
          /\ UNCHANGED <<known, bestHeader, level, haveData, linked, seq, candidates,
                         unlinked, counters, pc>>
       \/ /\ HeaderAccepted(b)
          /\ AddToBlockIndex(b)
          /\ LET lv == RaiseValidity(level, b, Tree)
             IN  \/ /\ b \in haveData \/ ~(requested \/ ProcessUnrequested(b))
                    /\ level' = lv
                    /\ ToActivate(t)
                    /\ UNCHANGED <<failed, haveData, linked, seq, candidates, unlinked, counters>>
                 \/ /\ b \notin haveData /\ (requested \/ ProcessUnrequested(b))
                    /\ b \in CtxInvalid
                    /\ level' = lv
                    /\ failed' = [failed EXCEPT ![b] = @ \cup {"VALID"}]
                    /\ UNCHANGED <<haveData, linked, seq, candidates, unlinked, counters, pc>>
                 \/ /\ b \notin haveData /\ (requested \/ ProcessUnrequested(b))
                    /\ b \notin CtxInvalid
                    /\ level' = RaiseValidity(lv, b, Transactions)
                    /\ ReceivedBlockTransactions(b)
                    /\ ToActivate(t)
                    /\ UNCHANGED failed
    /\ UNCHANGED <<addr, tip, bestInvalid, failedBlocks, holder, csMain, abc, inv, target, used>>
-----------------------------------------------------------------------------
(***************************************************************************)
(* ActivateBestChain.  pc: "abc" waiting for m_chainstate_mutex, "round"   *)
(* at the top of the outer loop; with cs_main, "find" at the top of the    *)
(* inner loop, "step" in ActivateBestChainStep, "stepped" after it.        *)
(***************************************************************************)
AbcEnter(t) ==
    /\ pc[t] = "abc" /\ holder = Null
    /\ holder' = t
    /\ pc' = [pc EXCEPT ![t] = "round"]
    /\ UNCHANGED <<indexVars, chainVars, csMain, abc, inv, target, used>>

AbcRound(t) ==
    /\ pc[t] = "round" /\ csMain = Null
    /\ csMain' = t
    /\ abc' = [abc EXCEPT !.startTip = tip, !.progressed = FALSE]
    /\ pc' = [pc EXCEPT ![t] = "find"]
    /\ UNCHANGED <<indexVars, chainVars, holder, inv, target, used>>

\* Mutant: the marks of the blocks on the way are not looked at.
UnusableMissing(b) == {x \in Chain[b] \ Chain[tip] : x \notin haveData}

\* The first block that FindMostWorkChain cannot use on the way from b back
\* to the active chain.
Unusable(b) == {x \in Chain[b] \ Chain[tip] : failed[x] # {} \/ x \notin haveData}

\* One round of FindMostWorkChain that finds its best candidate unusable, and
\* takes the blocks from it down to the highest unusable one, bad, out of the set.
DropCandidate(t) ==
    /\ pc[t] = "find" /\ abc.mostWork = Null /\ candidates # {}
    /\ LET b == Best(candidates)
           bad == CHOOSE x \in Unusable(b) : \A y \in Unusable(b) : Height[y] <= Height[x]
           above == Chain[b] \ Chain[bad]
       IN  /\ Unusable(b) # {}
           /\ IF failed[bad] # {}
              THEN /\ failed' = [x \in Block |-> IF x \in above THEN failed[x] \cup {"CHILD"}
                                                 ELSE failed[x]]
                   /\ bestInvalid' = IF bestInvalid = Null \/ Work[b] > Work[bestInvalid]
                                     THEN b ELSE bestInvalid
                   /\ UNCHANGED unlinked
              ELSE unlinked' = unlinked \cup above /\ UNCHANGED <<failed, bestInvalid>>
           /\ candidates' = candidates \ (above \cup {bad})
    /\ UNCHANGED <<known, level, haveData, linked, seq, addr, tip, bestHeader, failedBlocks,
                   counters, threadVars, used>>

\* Mutant: ActivateBestChain returns after its first step.
AnotherRoundNever(most, progressed) == FALSE

\* The condition of the outer loop, and the return before it when no step was taken
AnotherRound(most, progressed) == progressed /\ most # tip

\* Leave the inner loop: unlock cs_main and go round again, or return.
LeaveRound(t, most, progressed) ==
    /\ csMain' = Null
    /\ IF AnotherRound(most, progressed)
       THEN /\ pc' = [pc EXCEPT ![t] = "round"]
            /\ abc' = [NoAbc EXCEPT !.mostWork = most]
            /\ UNCHANGED holder
       ELSE /\ pc' = [pc EXCEPT ![t] = "idle"]
            /\ abc' = NoAbc
            /\ holder' = Null

\* The rest of FindMostWorkChain, unless pindexMostWork is still set, and the
\* test whether there is anything to do.
Decide(t) ==
    /\ pc[t] = "find"
    /\ \E most \in Block \cup {Null} :
         /\ \/ abc.mostWork # Null /\ most = abc.mostWork
            \/ abc.mostWork = Null /\ candidates = {} /\ most = Null
            \/ /\ abc.mostWork = Null /\ candidates # {}
               /\ most = Best(candidates) /\ Unusable(most) = {}
         /\ IF most \in {Null, tip}
            THEN LeaveRound(t, most, abc.progressed)
            ELSE /\ pc' = [pc EXCEPT ![t] = "step"]
                 /\ abc' = [abc EXCEPT !.mostWork = most, !.oldTip = tip, !.front = Null]
                 /\ UNCHANGED <<csMain, holder>>
    /\ UNCHANGED <<indexVars, chainVars, inv, target, used>>

\* ActivateBestChainStep, first loop: DisconnectTip until the fork.
DisconnectTip(t) ==
    /\ pc[t] = "step"
    /\ tip \notin Chain[abc.mostWork]
    /\ tip' = Parent[tip]
    /\ UNCHANGED <<indexVars, candidates, unlinked, bestHeader, bestInvalid, failedBlocks,
                   counters, threadVars, used>>

\* vpindexToConnect.front(): the highest block of the list being connected.
BatchEnd ==
    IF abc.front \notin {Null, tip} THEN abc.front
    ELSE CHOOSE b \in Chain[abc.mostWork] :
           Height[b] = IF Height[tip] + ConnectBatch < Height[abc.mostWork]
                       THEN Height[tip] + ConnectBatch ELSE Height[abc.mostWork]

NextToConnect == CHOOSE b \in Chain[abc.mostWork] \ {Genesis} : Parent[b] = tip

\* ConnectTip succeeds: ConnectBlock raises the validity.
ConnectTip(t) ==
    /\ pc[t] = "step"
    /\ tip \in Chain[abc.mostWork]
    /\ LET b == NextToConnect
       IN  /\ b \notin ConnectInvalid
           /\ level' = RaiseValidity(level, b, Scripts)
           /\ tip' = b
           /\ candidates' = PruneBlockIndexCandidates(candidates, seq, addr, b)
           /\ abc' = [abc EXCEPT !.front = BatchEnd]
           /\ pc' = [pc EXCEPT ![t] = IF b = abc.mostWork \/ Work[b] > Work[abc.oldTip]
                                      THEN "stepped" ELSE "step"]
    /\ UNCHANGED <<known, failed, haveData, linked, seq, addr, unlinked, bestHeader,
                   bestInvalid, failedBlocks, counters, holder, csMain, inv, target, used>>

\* InvalidBlockFound, but for its call of InvalidChainFound.
InvalidBlockFound(b) ==
    /\ failed' = [failed EXCEPT ![b] = @ \cup {"VALID"}]
    /\ failedBlocks' = failedBlocks \cup {b}
    /\ candidates' = candidates \ {b}

\* ConnectTip fails: InvalidBlockFound, then InvalidChainFound for the end of
\* the list; pindexMostWork is wiped.
ConnectTipFails(t) ==
    /\ pc[t] = "step"
    /\ tip \in Chain[abc.mostWork]
    /\ LET b == NextToConnect
           m == InvalidChainFound(InvalidChainFound(Markers, b), BatchEnd)
       IN  /\ b \in ConnectInvalid
           /\ InvalidBlockFound(b)
           /\ bestInvalid' = m.invalid
           /\ bestHeader' = m.header
    /\ abc' = [abc EXCEPT !.mostWork = Null]
    /\ pc' = [pc EXCEPT ![t] = "stepped"]
    /\ UNCHANGED <<known, level, haveData, linked, seq, addr, unlinked, tip, counters,
                   holder, csMain, inv, target, used>>

\* Mutant: cs_main is released after any step.
MustGoOnNever == FALSE

\* The condition of the inner loop of ActivateBestChain
MustGoOn == Worse(tip, abc.startTip)

AfterStep(t) ==
    /\ pc[t] = "stepped"
    /\ IF MustGoOn
       THEN /\ pc' = [pc EXCEPT ![t] = "find"]
            /\ abc' = [abc EXCEPT !.progressed = TRUE]
            /\ UNCHANGED <<csMain, holder>>
       ELSE LeaveRound(t, abc.mostWork, TRUE)
    /\ UNCHANGED <<indexVars, chainVars, inv, target, used>>
-----------------------------------------------------------------------------
(***************************************************************************)
(* The RPCs.  Each ends in a call of ActivateBestChain.                    *)
(***************************************************************************)
Command(name) ==
    /\ name \in Commands /\ used.commands < MaxCommands
    /\ used' = [used EXCEPT !.commands = @ + 1]

PreciousBlock(t, b) ==
    /\ pc[t] = "idle" /\ csMain = Null
    /\ b \in known /\ Work[b] >= Work[tip]
    /\ Command("preciousblock")
    /\ LET id == IF Work[tip] > counters.preciousWork THEN -1 ELSE counters.reverse
       IN  /\ seq' = [seq EXCEPT ![b] = id]
           /\ counters' = [counters EXCEPT !.reverse = id - 1, !.preciousWork = Work[tip]]
    /\ candidates' = IF IsValid(b, Transactions) /\ b \in linked
                     THEN PruneBlockIndexCandidates(candidates \cup {b}, seq', addr, tip)
                     ELSE candidates \ {b}
    /\ ToActivate(t)
    /\ UNCHANGED <<known, level, failed, haveData, linked, addr, unlinked, tip, bestHeader,
                   bestInvalid, failedBlocks, holder, csMain, abc, inv, target>>

\* InvalidateBlock.  pc: "invalidate" waiting for m_chainstate_mutex,
\* "disconnect" in the loop, "mark" before the last part.
InvalidateBlock(t, b) ==
    /\ pc[t] = "idle"
    /\ b \in known \ {Genesis}
    /\ Command("invalidateblock")
    /\ target' = [target EXCEPT ![t] = b]
    /\ pc' = [pc EXCEPT ![t] = "invalidate"]
    /\ UNCHANGED <<indexVars, chainVars, holder, csMain, abc, inv>>

\* candidate_blocks_by_work
CandidateBlocksByWork(b) ==
    {c \in known \ Chain[tip] : /\ ~Worse(c, Parent[b])
                                /\ IsValid(c, Transactions) /\ c \in linked}

InvalidateEnter(t) ==
    /\ pc[t] = "invalidate" /\ holder = Null /\ csMain = Null
    /\ holder' = t
    /\ inv' = [toMark |-> target[t], byWork |-> CandidateBlocksByWork(target[t])]
    /\ pc' = [pc EXCEPT ![t] = "disconnect"]
    /\ UNCHANGED <<indexVars, chainVars, csMain, abc, target, used>>

\* nStatus after the tip w has been disconnected and marked.
FailedAfterDisconnect(w) ==
    LET f == [failed EXCEPT ![w] = @ \cup {"VALID"}]
    IN  IF Parent[w] = inv.toMark /\ "VALID" \in f[inv.toMark]
        THEN [f EXCEPT ![inv.toMark] = (@ \ {"VALID"}) \cup {"CHILD"}]
        ELSE f

\* The blocks of candidate_blocks_by_work that go back into the set.
Readded(w) == {c \in inv.byWork : ~Worse(c, Parent[w])}

InvalidateDisconnect(t) ==
    /\ pc[t] = "disconnect" /\ csMain = Null
    /\ target[t] \in Chain[tip]
    /\ tip' = Parent[tip]
    /\ failed' = FailedAfterDisconnect(tip)
    /\ candidates' = (candidates \ {tip}) \cup {Parent[tip]} \cup Readded(tip)
    /\ inv' = [toMark |-> tip, byWork |-> inv.byWork \ Readded(tip)]
    /\ UNCHANGED <<known, level, haveData, linked, seq, addr, unlinked, bestHeader,
                   bestInvalid, failedBlocks, counters, pc, holder, csMain, abc, target, used>>

InvalidateLeaveLoop(t) ==
    /\ pc[t] = "disconnect" /\ csMain = Null
    /\ target[t] \notin Chain[tip]
    /\ pc' = [pc EXCEPT ![t] = "mark"]
    /\ UNCHANGED <<indexVars, chainVars, holder, csMain, abc, inv, target, used>>

\* Mutant: the last look over the block index is left out.
MissedCandidatesNone(fl) == {}

\* The entries that the last loop over the index adds.
MissedCandidates(fl) ==
    {b \in known : /\ fl[b] = {} /\ level[b] >= Transactions
                   /\ b \in linked /\ ~Worse(b, tip)}

InvalidateMark(t) ==
    /\ pc[t] = "mark" /\ csMain = Null
    /\ LET m == InvalidChainFound(Markers, inv.toMark)
       IN  /\ failed' = [failed EXCEPT ![inv.toMark] = @ \cup {"VALID"}]
           /\ failedBlocks' = failedBlocks \cup {inv.toMark}
           /\ candidates' = (candidates \ {inv.toMark}) \cup MissedCandidates(failed')
           /\ bestInvalid' = m.invalid
           /\ bestHeader' = m.header
    /\ holder' = Null
    /\ inv' = NoInv
    /\ target' = [target EXCEPT ![t] = Null]
    /\ ToActivate(t)
    /\ UNCHANGED <<known, level, haveData, linked, seq, addr, unlinked, tip, counters,
                   csMain, abc, used>>

\* Mutant: the ancestors are not erased.
FailedBlocksWithAncestors(below, b) == failedBlocks \ below

\* m_failed_blocks after ResetBlockFailureFlags
FailedBlocksWithout(below, b) == failedBlocks \ (below \cup {x \in Chain[b] : failed[x] # {}})

\* reconsiderblock: ResetBlockFailureFlags
ReconsiderBlock(t, b) ==
    /\ pc[t] = "idle" /\ csMain = Null
    /\ b \in known
    /\ Command("reconsiderblock")
    /\ LET below == {x \in known : b \in Chain[x] /\ ~IsValid(x, Transactions)}
           reset == below \cup Chain[b]
       IN  /\ failed' = [x \in Block |-> IF x \in reset THEN {} ELSE failed[x]]
           /\ candidates' = candidates \cup {x \in below : /\ level[x] >= Transactions
                                                           /\ x \in linked /\ Worse(tip, x)}
           /\ bestInvalid' = IF bestInvalid \in below THEN Null ELSE bestInvalid
           /\ failedBlocks' = FailedBlocksWithout(below, b)
    /\ ToActivate(t)
    /\ UNCHANGED <<known, level, haveData, linked, seq, addr, unlinked, tip, bestHeader,
                   counters, holder, csMain, abc, inv, target>>
-----------------------------------------------------------------------------
\* BlockManager::LoadBlockIndex reads the index back in the order of height and
\* works out again what is not stored.
ReloadIndex ==
    /\ addr' \in Addresses
    /\ seq' = [b \in Block |-> 0]
    /\ linked' = {b \in known : Chain[b] \subseteq haveData}
    /\ unlinked' = haveData \ linked'
    /\ failed' = [b \in Block |->
                    IF b \in known /\ failed[b] = {} /\ \E a \in Chain[b] : failed[a] # {}
                    THEN {"CHILD"} ELSE failed[b]]

\* ChainstateManager::LoadBlockIndex collects the candidates, the best of the
\* invalid blocks and the best header; LoadChainTip prunes the candidates.
ReloadCandidates ==
    LET valid == {b \in linked' : failed'[b] = {}}
        bad == {b \in known : failed'[b] # {}}
    IN  /\ candidates' = PruneBlockIndexCandidates(valid, seq', addr', tip)
        /\ IF bad = {} THEN bestInvalid' = Null
           ELSE bestInvalid' \in {b \in bad : \A c \in bad : Work[c] <= Work[b]}
        /\ bestHeader' = CHOOSE b \in known \ bad :
                           \A c \in known \ bad : ~ComparesWorse(seq', addr', b, c)

\* Shutdown and restart; LoadChainTip sets the tip and ImportBlocks calls
\* ActivateBestChain.
Restart(t) ==
    /\ \A u \in Thread : pc[u] = "idle"
    /\ used.restarts < MaxRestarts
    /\ used' = [used EXCEPT !.restarts = @ + 1]
    /\ ReloadIndex
    /\ ReloadCandidates
    /\ counters' = [next |-> 1, reverse |-> -1, preciousWork |-> 0]
    /\ failedBlocks' = {}
    /\ ToActivate(t)
    /\ UNCHANGED <<known, level, haveData, tip, holder, csMain, abc, inv, target>>
-----------------------------------------------------------------------------
Init ==
    /\ known = {Genesis} /\ haveData = {Genesis} /\ linked = {Genesis}
    /\ level = [b \in Block |-> IF b = Genesis THEN Transactions ELSE Unknown]
    /\ failed = [b \in Block |-> {}]
    /\ seq = [b \in Block |-> IF b = Genesis THEN 1 ELSE 0]
    /\ addr \in Addresses
    /\ candidates = {Genesis} /\ unlinked = {}
    /\ tip = Genesis /\ bestHeader = Genesis /\ bestInvalid = Null
    /\ failedBlocks = {}
    /\ counters = [next |-> 2, reverse |-> -1, preciousWork |-> 0]
    /\ pc = [t \in Thread |-> "idle"] /\ holder = Null /\ csMain = Null
    /\ abc = NoAbc /\ inv = NoInv /\ target = [t \in Thread |-> Null]
    /\ used = [commands |-> 0, restarts |-> 0]

\* The steps a thread takes once it has called ActivateBestChain or InvalidateBlock
Run(t) ==
    \/ AbcEnter(t) \/ AbcRound(t)
    \/ DropCandidate(t) \/ Decide(t)
    \/ DisconnectTip(t) \/ ConnectTip(t) \/ ConnectTipFails(t) \/ AfterStep(t)
    \/ InvalidateEnter(t) \/ InvalidateDisconnect(t) \/ InvalidateLeaveLoop(t)
    \/ InvalidateMark(t)

Next ==
    \E t \in Thread :
        \/ \E b \in Block : \/ ProcessNewBlockHeaders(t, b)
                            \/ \E requested \in BOOLEAN : ProcessNewBlock(t, b, requested)
                            \/ PreciousBlock(t, b)
                            \/ InvalidateBlock(t, b)
                            \/ ReconsiderBlock(t, b)
        \/ Run(t)
        \/ Restart(t)

\* A thread that runs goes on running.  Nothing is assumed of the arrival of
\* blocks and commands, nor of which waiting thread gets the mutex.
Fairness == \A t \in Thread : WF_vars(Run(t))

Spec == Init /\ [][Next]_vars /\ Fairness
-----------------------------------------------------------------------------
TypeOK ==
    /\ known \subseteq Block /\ haveData \subseteq Block /\ linked \subseteq Block
    /\ level \in [Block -> {Unknown, Tree, Transactions, Scripts}]
    /\ failed \in [Block -> SUBSET {"VALID", "CHILD"}]
    /\ seq \in [Block -> Int]
    /\ addr \in [Block -> Nat]
    /\ candidates \subseteq Block /\ unlinked \subseteq Block
    /\ tip \in Block /\ bestHeader \in Block /\ bestInvalid \in Block \cup {Null}
    /\ failedBlocks \subseteq Block
    /\ counters \in [next : Nat, reverse : Int, preciousWork : Nat]
    /\ pc \in [Thread -> {"idle", "abc", "round", "find", "step", "stepped",
                          "invalidate", "disconnect", "mark"}]
    /\ holder \in Thread \cup {Null} /\ csMain \in Thread \cup {Null}
    /\ abc \in [mostWork : Block \cup {Null}, startTip : Block \cup {Null},
                oldTip : Block \cup {Null}, front : Block \cup {Null}, progressed : BOOLEAN]
    /\ inv \in [toMark : Block \cup {Null}, byWork : SUBSET Block]
    /\ target \in [Thread -> Block \cup {Null}]
    /\ used \in [commands : Nat, restarts : Nat]

\* No ancestor of b, nor b, is marked BLOCK_FAILED_VALID (pindexFirstInvalid is null).
NoInvalid(b) == \A a \in Chain[b] : "VALID" \notin failed[a]

(* The asserts of CheckBlockIndex, which any thread may run whenever it can
   take cs_main. *)

\* CheckBlockIndex, validation data: nChainTx is set exactly for the blocks
\* that have arrived together with all their ancestors, in whatever order they
\* arrived; a block is only SCRIPTS-valid when its ancestors are; only linked
\* blocks have a positive sequence number.
LinksExact ==
    csMain = Null =>
        \A b \in known :
            /\ b \in linked <=> Chain[b] \subseteq haveData
            /\ b \in haveData <=> level[b] >= Transactions
            /\ level[b] = Scripts => \A a \in Chain[b] \ {Genesis} : level[a] = Scripts
            /\ b \notin linked => seq[b] <= 0

\* CheckBlockIndex: every block that could become the tip, being linked, not
\* known to be invalid and not worse than the tip, is a candidate.  A block
\* missing here would never be activated.
CandidatesComplete ==
    csMain = Null =>
        \A b \in linked : NoInvalid(b) /\ ~Worse(b, tip) => b \in candidates

\* The same while no InvalidateBlock is under way: whatever it missed, because it
\* arrived while cs_main was released, has been added when it returns.
CandidatesCompleteAtRest ==
    (\A t \in Thread : pc[t] \notin {"disconnect", "mark"}) => CandidatesComplete

\* CheckBlockIndex: a block that is worse than the tip or not linked is never
\* a candidate, whatever happened to the tip since it became one.
CandidatesNotWorse ==
    csMain = Null => \A b \in candidates : b \in linked /\ ~Worse(b, tip)

\* CheckBlockIndex: a block that waits for a missing ancestor is in
\* m_blocks_unlinked, from where the arrival of the ancestor picks it up.
UnlinkedComplete ==
    csMain = Null => \A b \in haveData \ linked : NoInvalid(b) => b \in unlinked

\* CheckBlockIndex: only such blocks are in m_blocks_unlinked.
UnlinkedSound == csMain = Null => unlinked \subseteq haveData \ linked

\* CheckBlockIndex: "The failed mask cannot be set for blocks without invalid
\* parents."
FailedHasInvalid == csMain = Null => \A b \in known : failed[b] # {} => ~NoInvalid(b)

\* What CheckBlockIndex asserts about the block index as a whole, at every
\* moment at which another thread could take cs_main and run it.
CheckBlockIndex ==
    /\ LinksExact
    /\ CandidatesComplete /\ CandidatesNotWorse
    /\ UnlinkedComplete /\ UnlinkedSound
    /\ FailedHasInvalid

\* The assert in AcceptBlockHeader: whatever is in m_failed_blocks is marked
\* BLOCK_FAILED_VALID.
FailedBlocksMarked == \A b \in failedBlocks : "VALID" \in failed[b]

\* Every block of the active chain has its data, has passed ConnectBlock and
\* carries no failure mark, also in the middle of a reorganisation and while
\* another thread marks the descendants of an invalid block.
ActiveChainValid ==
    /\ Chain[tip] \subseteq linked
    /\ \A b \in Chain[tip] \ {Genesis} :
          failed[b] = {} /\ level[b] = Scripts /\ b \notin ConnectInvalid \cup CtxInvalid

\* When every call has returned, no linked block that is not known to be
\* invalid would make a better tip: ActivateBestChain never returns too early.
BestChainActive ==
    (\A t \in Thread : pc[t] = "idle") =>
        \A b \in linked : NoInvalid(b) => ~Worse(tip, b)

\* The chain that pindexMostWork remembers while cs_main is released is still
\* usable when ActivateBestChain goes on with it.
MostWorkUsable ==
    abc.mostWork # Null => /\ abc.mostWork \in linked
                           /\ \A b \in Chain[abc.mostWork] : failed[b] = {}

\* "We absolutely may not unlock cs_main until we've made forward progress":
\* when ActivateBestChain releases cs_main, the tip is not worse than the one
\* it found.
ProgressBeforeUnlock ==
    [][csMain # Null /\ csMain' = Null => ~Worse(tip', abc.startTip)]_vars

\* AcceptBlockHeader: no header enters the index below a block that
\* has been found invalid.
NoHeaderBelowInvalid ==
    [][\A b \in known' \ known : \A a \in Chain[b] : "VALID" \notin failed[a]]_vars

\* A chain of valid blocks that has arrived completely is eventually matched by
\* the active chain, although blocks keep arriving and other chains turn out
\* to be invalid.
Converges ==
    \A b \in {c \in Block : Chain[c] \cap (CtxInvalid \cup ConnectInvalid) = {}} :
        b \in linked ~> Work[tip] >= Work[b]
=============================================================================
