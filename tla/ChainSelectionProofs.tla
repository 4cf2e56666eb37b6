------------------------ MODULE ChainSelectionProofs ------------------------
(***************************************************************************)
(* For any tree of blocks, any threads and any order in which headers,     *)
(* blocks and commands arrive: the active chain is valid and complete, the *)
(* chain that ActivateBestChain works towards stays usable while cs_main   *)
(* is released, and no candidate is worse than the tip.  Without           *)
(* reconsiderblock and with at most two calls of preciousblock no better   *)
(* chain is forgotten: ActivateBestChain returns only when the tip is      *)
(* best.  If moreover no block is invalidated by hand, the block index     *)
(* satisfies all asserts of CheckBlockIndex.                               *)
(*                                                                         *)
(* Four invariants, each on top of Sound, which holds of every             *)
(* specification: Complete under Orderly, Exact under NoMarking, and       *)
(* InvalidRemembered under NoMarking and OnlyConnectFails.                 *)
(***************************************************************************)
EXTENDS ChainSelection, TreeTheorems

\* The order of candidates is total, and more work is better.
LEMMA OrderFacts ==
    ASSUME NEW sq \in [Block -> Int], NEW ad \in Addresses
    PROVE  /\ \A a, b \in Block : Work[a] < Work[b] =>
                 ComparesWorse(sq, ad, a, b) /\ ~ComparesWorse(sq, ad, b, a)
           /\ \A a \in Block : ~ComparesWorse(sq, ad, a, a)
           /\ \A a, b \in Block : a # b =>
                 ComparesWorse(sq, ad, a, b) \/ ComparesWorse(sq, ad, b, a)
           /\ \A a, b \in Block : ComparesWorse(sq, ad, a, b) => ~ComparesWorse(sq, ad, b, a)
           /\ \A a, b, c \in Block :
                 ComparesWorse(sq, ad, a, b) /\ ComparesWorse(sq, ad, b, c)
                    => ComparesWorse(sq, ad, a, c)
           /\ \A a, b, c \in Block :
                 ~ComparesWorse(sq, ad, a, b) /\ ~ComparesWorse(sq, ad, b, c)
                    => ~ComparesWorse(sq, ad, a, c)
<1>1. /\ Work \in [Block -> Nat] /\ ad \in [Block -> Nat]
      /\ \A a, b \in Block : ad[a] = ad[b] => a = b
  BY ChainSelectionConstants
<1>2. \A a \in Block : Work[a] \in Int /\ sq[a] \in Int /\ ad[a] \in Int
  BY <1>1
<1>3. \A a, b, c \in Block :
        ComparesWorse(sq, ad, a, b) /\ ComparesWorse(sq, ad, b, c) => ComparesWorse(sq, ad, a, c)
  BY <1>2 DEF ComparesWorse
<1>4. \A a, b, c \in Block :
        ~ComparesWorse(sq, ad, a, b) /\ ~ComparesWorse(sq, ad, b, c)
           => ~ComparesWorse(sq, ad, a, c)
  BY <1>2 DEF ComparesWorse
<1> QED
  BY <1>1, <1>2, <1>3, <1>4 DEF ComparesWorse

\* A finite set of blocks has a best one.
LEMMA BestExists ==
    ASSUME NEW sq \in [Block -> Int], NEW ad \in Addresses,
           NEW S \in SUBSET Block, IsFiniteSet(S), S # {}
    PROVE  \E b \in S : \A c \in S : ~ComparesWorse(sq, ad, b, c)
<1> DEFINE C(a, b) == ComparesWorse(sq, ad, a, b)
           F == {T \in SUBSET S : T # {} => \E b \in T : \A c \in T : ~C(b, c)}
<1>0. /\ \A a \in Block : ~C(a, a)
      /\ \A a, b \in Block : C(a, b) => ~C(b, a)
      /\ \A a, b, c \in Block : ~C(a, b) /\ ~C(b, c) => ~C(a, c)
  BY OrderFacts
<1> HIDE DEF C
<1>1. {} \in F
  OBVIOUS
<1>2. ASSUME NEW T \in SUBSET S, NEW x \in S, T \in F, x \notin T PROVE T \cup {x} \in F
  <2>1. CASE T = {}
    BY <1>0, <2>1
  <2>2. CASE T # {}
    <3>1. PICK b \in T : \A c \in T : ~C(b, c)
      BY <1>2, <2>2
    <3>2. CASE C(b, x)
      BY <1>0, <3>1, <3>2
    <3>3. CASE ~C(b, x)
      BY <3>1, <3>3
    <3> QED BY <3>2, <3>3
  <2> QED BY <2>1, <2>2
<1>3. InductiveFamily(S, F)
  <2> HIDE DEF F
  <2> QED BY <1>1, <1>2 DEF InductiveFamily
<1>4. S \in F
  <2> HIDE DEF F
  <2> QED BY <1>3, FiniteSetInduction
<1> QED
  BY <1>4 DEF C

\* An ancestor has less work and less height.
LEMMA AncestorBelow ==
    ASSUME NEW b \in Block, NEW a \in Chain[b]
    PROVE  /\ a \in Block
           /\ a # b => Work[a] < Work[b] /\ Height[a] < Height[b]
<1> DEFINE S == {d \in Block : \A x \in Chain[d] :
                    x # d => Work[x] < Work[d] /\ Height[x] < Height[d]}
<1>0. Genesis \in Block /\ Parent \in [Block \ {Genesis} -> Block]
  BY TreeTypes
<1>1. Genesis \in S
  BY <1>0, ChainFacts
<1>2. ASSUME NEW d \in Block \ {Genesis}, Parent[d] \in S PROVE d \in S
  <2>1. Chain[d] = Chain[Parent[d]] \cup {d} /\ Chain[Parent[d]] \subseteq Block
    BY <1>0, <1>2, ChainFacts
  <2>2. Work[Parent[d]] < Work[d] /\ Height[Parent[d]] < Height[d]
    BY <1>0, <1>2, HeightFacts, ChainSelectionConstants
  <2>3. \A x \in Block : Work[x] \in Nat /\ Height[x] \in Nat
    BY HeightFacts, ChainSelectionConstants
  <2> QED BY <1>0, <1>2, <2>1, <2>2, <2>3
<1>3. S \in SUBSET Block
  OBVIOUS
<1>4. S = Block
  <2> HIDE DEF S
  <2> QED BY <1>1, <1>2, <1>3, BlockTreeRooted, TreeInduction
<1> QED
  BY <1>4, ChainFacts

\* What the steps need to know of chains.
LEMMA Chains ==
    /\ Genesis \in Block /\ Chain[Genesis] = {Genesis}
    /\ \A b \in Block : /\ Chain[b] \subseteq Block /\ b \in Chain[b] /\ Genesis \in Chain[b]
                        /\ \A a \in Chain[b] : Chain[a] \subseteq Chain[b]
                        /\ \A a \in Chain[b] : b \in Chain[a] => a = b
    /\ \A b \in Block \ {Genesis} : /\ Parent[b] \in Block /\ Parent[b] # b
                                    /\ Chain[b] = Chain[Parent[b]] \cup {b}
                                    /\ b \notin Chain[Parent[b]]
<1>0. Genesis \in Block /\ Parent \in [Block \ {Genesis} -> Block]
  BY TreeTypes
<1>1. ASSUME NEW b \in Block, NEW a \in Chain[b], b \in Chain[a] PROVE a = b
  <2>1. a \in Block /\ Work[a] \in Nat /\ Work[b] \in Nat
    BY AncestorBelow, ChainSelectionConstants
  <2> QED BY <1>1, <2>1, AncestorBelow
<1>2. ASSUME NEW b \in Block \ {Genesis} PROVE Parent[b] # b /\ b \notin Chain[Parent[b]]
  <2>1. Work[Parent[b]] < Work[b] /\ Work[b] \in Nat /\ Work[Parent[b]] \in Nat
    BY <1>0, ChainSelectionConstants
  <2> QED BY <1>0, <2>1, AncestorBelow
<1>3. \A b \in Block : Chain[b] \subseteq Block /\ b \in Chain[b] /\ Genesis \in Chain[b]
  BY ChainFacts, ChainSelf
<1>4. \A b \in Block : \A a \in Chain[b] : Chain[a] \subseteq Chain[b]
  BY <1>3, ChainTrans
<1> QED
  BY <1>0, <1>1, <1>2, <1>3, <1>4, ChainFacts
-----------------------------------------------------------------------------
(***************************************************************************)
(* The invariant of every specification.                                   *)
(***************************************************************************)
\* A thread has cs_main inside a round, and m_chainstate_mutex throughout.
Inner == {"find", "step", "stepped"}
Activating == {"round"} \cup Inner
Invalidating == {"disconnect", "mark"}
Holding == Activating \cup Invalidating

\* The index is closed under parents and its fields agree with one another.
IndexSound ==
    /\ IsFiniteSet(known) /\ Genesis \in linked
    /\ linked \subseteq haveData /\ haveData \subseteq known
    /\ haveData \cap CtxInvalid = {}
    /\ \A b \in known \ {Genesis} : Parent[b] \in known
    /\ \A b \in linked \ {Genesis} : Parent[b] \in linked
    /\ unlinked \subseteq haveData \ linked
    /\ \A b \in Block : b \in haveData <=> level[b] >= Transactions
    /\ \A b \in Block \ {Genesis} : level[b] = Scripts =>
          b \notin ConnectInvalid /\ (Parent[b] = Genesis \/ level[Parent[b]] = Scripts)
    /\ \A b \in Block : failed[b] # {} => b \in known \ {Genesis}
    /\ addr \in Addresses
    /\ counters.reverse < 0 /\ \A b \in Block \ linked : seq[b] <= 0

\* The chain of b has been connected and is not marked.
ChainSound(b) ==
    /\ Chain[b] \subseteq linked
    /\ \A a \in Chain[b] \ {Genesis} : failed[a] = {} /\ level[a] = Scripts

ActiveSound == ChainSound(tip)

CandidatesSound == candidates \subseteq linked /\ \A c \in candidates : ~Worse(c, tip)

ThreadsSound ==
    \A t \in Thread : (csMain = t <=> pc[t] \in Inner) /\ (holder = t <=> pc[t] \in Holding)

\* What ActivateBestChain remembers.
TargetSound ==
    /\ abc.mostWork # Null =>
          /\ holder \in Thread /\ pc[holder] \in Activating
          /\ abc.mostWork \in linked /\ \A b \in Chain[abc.mostWork] : failed[b] = {}
    /\ \A t \in Thread :
          /\ pc[t] = "step" =>
                /\ abc.mostWork \in Block \ {tip} /\ abc.oldTip \in Block
                /\ tip \in Chain[abc.mostWork] \/ ~Worse(abc.mostWork, tip)
          /\ pc[t] \in Inner => abc.startTip \in Block
          /\ pc[t] \in Activating \ {"step"} /\ abc.mostWork # Null =>
                tip \in Chain[abc.mostWork]

\* What InvalidateBlock remembers.
InvalidateSound ==
    \A t \in Thread :
        /\ pc[t] \in {"invalidate"} \cup Invalidating => target[t] \in known \ {Genesis}
        /\ pc[t] \in Invalidating => /\ inv.toMark \in known \ {Genesis}
                                     /\ inv.byWork \subseteq linked
        /\ pc[t] = "disconnect" => inv.toMark = target[t] \/ Parent[inv.toMark] = tip
        /\ pc[t] = "mark" => inv.toMark \notin Chain[tip]

Sound ==
    /\ TypeOK /\ IndexSound /\ ActiveSound /\ CandidatesSound /\ FailedBlocksMarked
    /\ ThreadsSound /\ TargetSound /\ InvalidateSound

\* What the steps need to know of the constants.
LEMMA Constants ==
    /\ Work \in [Block -> Nat]
    /\ CtxInvalid \subseteq Block \ {Genesis} /\ ConnectInvalid \subseteq Block \ {Genesis}
    /\ \A ad \in Addresses : ad \in [Block -> Nat]
    /\ Null \notin Block /\ Null \notin Thread
    /\ MinBlocksToKeep \in Nat /\ MaxCommands \in Nat
BY ChainSelectionConstants

\* The order, as it is now.
LEMMA WorseFacts ==
    ASSUME TypeOK, addr \in Addresses
    PROVE  /\ \A a, b \in Block : Work[a] < Work[b] => Worse(a, b) /\ ~Worse(b, a)
           /\ \A a \in Block : ~Worse(a, a)
           /\ \A a, b \in Block : a # b => Worse(a, b) \/ Worse(b, a)
           /\ \A a, b \in Block : Worse(a, b) => ~Worse(b, a)
           /\ \A a, b, c \in Block : ~Worse(a, b) /\ ~Worse(b, c) => ~Worse(a, c)
BY OrderFacts DEF TypeOK, Worse

LEMMA InitSound == Init => Sound
<1> SUFFICES ASSUME Init PROVE Sound
  OBVIOUS
<1> USE DEF Init
<1>1. TypeOK
  BY Chains, Constants DEF TypeOK, NoAbc, NoInv, Unknown, Tree, Transactions, Scripts
<1>2. IndexSound
  <2>1. IsFiniteSet(known)
    BY FS_Singleton
  <2>2. Genesis \in Block /\ Genesis \notin CtxInvalid
    BY Chains, Constants
  <2>3. \A b \in Block : /\ level[b] = IF b = Genesis THEN Transactions ELSE Unknown
                         /\ failed[b] = {} /\ seq[b] = IF b = Genesis THEN 1 ELSE 0
    OBVIOUS
  <2> QED BY <2>1, <2>2, <2>3 DEF IndexSound, Unknown, Transactions, Scripts
<1>3. ActiveSound
  BY Chains DEF ActiveSound, ChainSound
<1>4. CandidatesSound
  <2>1. ~Worse(Genesis, Genesis)
    BY <1>1, <1>2, Chains, WorseFacts DEF IndexSound
  <2> QED BY <2>1 DEF CandidatesSound
<1>5. FailedBlocksMarked
  BY DEF FailedBlocksMarked
<1>6. ThreadsSound /\ TargetSound /\ InvalidateSound
  BY Constants DEF ThreadsSound, TargetSound, InvalidateSound, NoAbc, Inner, Activating,
     Invalidating, Holding
<1> QED
  BY <1>1, <1>2, <1>3, <1>4, <1>5, <1>6 DEF Sound

\* A step that leaves the fields alone that a part of the invariant is about.
LEMMA IndexFrame ==
    ASSUME IndexSound, UNCHANGED <<indexVars, unlinked, counters>>
    PROVE  IndexSound'
BY DEF IndexSound, indexVars

LEMMA ActiveFrame ==
    ASSUME ActiveSound, UNCHANGED <<linked, failed, level, tip>>
    PROVE  ActiveSound'
BY DEF ActiveSound, ChainSound

LEMMA CandidatesFrame ==
    ASSUME CandidatesSound, UNCHANGED <<candidates, linked, seq, addr, tip>>
    PROVE  CandidatesSound'
BY DEF CandidatesSound, Worse

LEMMA MarkedFrame ==
    ASSUME FailedBlocksMarked, UNCHANGED <<failed, failedBlocks>>
    PROVE  FailedBlocksMarked'
BY DEF FailedBlocksMarked

\* A thread that is not inside a call, or only calls, disturbs no other.
LEMMA ThreadsFrame ==
    ASSUME TypeOK, ThreadsSound, NEW t \in Thread, NEW p \in {"idle", "abc", "invalidate"},
           pc[t] \in {"idle", "abc", "invalidate"},
           pc' = [pc EXCEPT ![t] = p], UNCHANGED <<csMain, holder>>
    PROVE  ThreadsSound'
BY DEF TypeOK, ThreadsSound, Inner, Activating, Invalidating, Holding

\* A chain stays sound when nothing on it is marked or unlinked.
LEMMA ChainKept ==
    ASSUME NEW b \in Block, ChainSound(b), linked \subseteq linked',
           \A a \in Chain[b] \ {Genesis} : failed'[a] = {} /\ level'[a] = Scripts
    PROVE  ChainSound(b)'
BY DEF ChainSound
-----------------------------------------------------------------------------
\* Steps that only move threads: locking, the choice of the target, the end
\* of a round, the calls of InvalidateBlock.
LEMMA AbcEnterSound ==
    ASSUME Sound, NEW t \in Thread, AbcEnter(t)
    PROVE  Sound'
<1> USE DEF Sound
<1>0. /\ pc[t] = "abc" /\ holder = Null /\ holder' = t
      /\ pc' = [pc EXCEPT ![t] = "round"]
      /\ UNCHANGED <<indexVars, chainVars, csMain, abc, inv, target, used>>
  BY DEF AbcEnter
<1>1. TypeOK'
  BY <1>0 DEF TypeOK, indexVars, chainVars
<1>2. IndexSound' /\ ActiveSound' /\ CandidatesSound' /\ FailedBlocksMarked'
  BY <1>0, IndexFrame, ActiveFrame, CandidatesFrame, MarkedFrame DEF indexVars, chainVars
<1>3. ThreadsSound'
  BY <1>0, Constants DEF TypeOK, ThreadsSound, Inner, Activating, Invalidating, Holding
<1>4. TargetSound'
  BY <1>0, Constants DEF TypeOK, TargetSound, Inner, Activating, indexVars, chainVars
<1>5. InvalidateSound'
  BY <1>0 DEF TypeOK, InvalidateSound, Invalidating, indexVars, chainVars
<1> QED
  BY <1>1, <1>2, <1>3, <1>4, <1>5

LEMMA AbcRoundSound ==
    ASSUME Sound, NEW t \in Thread, AbcRound(t)
    PROVE  Sound'
<1> USE DEF Sound
<1>0. /\ pc[t] = "round" /\ csMain = Null /\ csMain' = t
      /\ abc' = [abc EXCEPT !.startTip = tip, !.progressed = FALSE]
      /\ pc' = [pc EXCEPT ![t] = "find"]
      /\ UNCHANGED <<indexVars, chainVars, holder, inv, target, used>>
  BY DEF AbcRound
<1>1. TypeOK'
  BY <1>0 DEF TypeOK, indexVars, chainVars
<1>2. IndexSound' /\ ActiveSound' /\ CandidatesSound' /\ FailedBlocksMarked'
  BY <1>0, IndexFrame, ActiveFrame, CandidatesFrame, MarkedFrame DEF indexVars, chainVars
<1>3. ThreadsSound'
  BY <1>0, Constants DEF TypeOK, ThreadsSound, Inner, Activating, Invalidating, Holding
<1>4. TargetSound'
  <2>1. holder = t /\ \A u \in Thread : u # t => pc[u] \notin Inner
    BY <1>0, Constants DEF ThreadsSound, Holding, Activating
  <2>2. /\ abc'.mostWork = abc.mostWork /\ abc'.startTip \in Block
        /\ pc'[t] = "find" /\ \A u \in Thread : u # t => pc'[u] = pc[u]
    BY <1>0 DEF TypeOK
  <2>3. UNCHANGED <<linked, failed, holder, tip>>
    BY <1>0 DEF indexVars, chainVars
  <2> QED BY <1>0, <2>1, <2>2, <2>3 DEF TargetSound, Inner, Activating
<1>5. InvalidateSound'
  BY <1>0 DEF TypeOK, InvalidateSound, Invalidating, indexVars, chainVars
<1> QED
  BY <1>1, <1>2, <1>3, <1>4, <1>5

\* Leaving a round drops the target or remembers a usable one.
LEMMA LeaveRoundSound ==
    ASSUME Sound, NEW t \in Thread, pc[t] \in Inner, NEW most \in Block \cup {Null},
           NEW progressed \in BOOLEAN, LeaveRound(t, most, progressed),
           most # Null => /\ most \in linked /\ tip \in Chain[most]
                          /\ \A b \in Chain[most] : failed[b] = {},
           UNCHANGED <<indexVars, chainVars, inv, target, used>>
    PROVE  Sound'
<1> USE DEF Sound
<1>0. \/ /\ pc' = [pc EXCEPT ![t] = "round"] /\ holder' = holder
         /\ abc' = [NoAbc EXCEPT !.mostWork = most]
      \/ pc' = [pc EXCEPT ![t] = "idle"] /\ abc' = NoAbc /\ holder' = Null
  BY DEF LeaveRound
<1>1. csMain' = Null
  BY DEF LeaveRound
<1>2. csMain = t /\ holder = t
  BY DEF ThreadsSound, Holding, Activating
<1>3. TypeOK'
  <2>0. FALSE \in BOOLEAN
    OBVIOUS
  <2>1. abc' \in [mostWork : Block \cup {Null}, startTip : Block \cup {Null},
                  oldTip : Block \cup {Null}, front : Block \cup {Null}, progressed : BOOLEAN]
    <3>1. NoAbc \in [mostWork : Block \cup {Null}, startTip : Block \cup {Null},
                     oldTip : Block \cup {Null}, front : Block \cup {Null}, progressed : BOOLEAN]
      BY <2>0 DEF NoAbc
    <3> QED BY <1>0, <3>1
  <2>2. pc' \in [Thread -> {"idle", "abc", "round", "find", "step", "stepped",
                           "invalidate", "disconnect", "mark"}]
    BY <1>0 DEF TypeOK
  <2> QED BY <1>0, <1>1, <2>1, <2>2 DEF TypeOK, indexVars, chainVars
<1>4. IndexSound' /\ ActiveSound' /\ CandidatesSound' /\ FailedBlocksMarked'
  BY IndexFrame, ActiveFrame, CandidatesFrame, MarkedFrame DEF indexVars, chainVars
<1>5. ThreadsSound'
  BY <1>0, <1>1, <1>2, Constants DEF TypeOK, ThreadsSound, Inner, Activating, Invalidating, Holding
<1>6. TargetSound'
  <2>1. \A u \in Thread : pc'[u] \notin Inner
    BY <1>0, <1>2 DEF TypeOK, ThreadsSound, Inner
  <2>2. UNCHANGED <<linked, failed, tip>>
    BY DEF indexVars, chainVars
  <2>3. CASE pc' = [pc EXCEPT ![t] = "idle"] /\ abc' = NoAbc /\ holder' = Null
    BY <2>1, <2>3 DEF TargetSound, NoAbc, Inner
  <2>4. CASE /\ pc' = [pc EXCEPT ![t] = "round"] /\ holder' = holder
             /\ abc' = [NoAbc EXCEPT !.mostWork = most]
    <3>1. abc'.mostWork = most /\ pc'[t] = "round" /\ holder' = t
      BY <1>2, <2>4 DEF TypeOK, NoAbc
    <3> QED BY <2>1, <2>2, <3>1 DEF TargetSound, Inner, Activating
  <2> QED BY <1>0, <2>3, <2>4
<1>7. InvalidateSound'
  BY <1>0 DEF TypeOK, InvalidateSound, Invalidating, indexVars, chainVars
<1> QED
  BY <1>3, <1>4, <1>5, <1>6, <1>7

\* Best takes a best element of the set.
LEMMA BestIsBest ==
    ASSUME Sound, candidates # {}
    PROVE  /\ Best(candidates) \in candidates
           /\ \A c \in candidates : ~Worse(Best(candidates), c)
<1>1. IsFiniteSet(candidates)
  BY FS_Subset DEF Sound, IndexSound, CandidatesSound
<1>2. \E b \in candidates : \A c \in candidates : ~Worse(b, c)
  BY <1>1, BestExists DEF Sound, TypeOK, IndexSound, Worse
<1> QED
  BY <1>2 DEF Best

\* A linked block with nothing unusable above the active chain is usable.
LEMMA UsableChain ==
    ASSUME Sound, NEW b \in linked, Unusable(b) = {}
    PROVE  \A a \in Chain[b] : failed[a] = {}
<1>1. \A a \in Chain[b] : a \in Chain[tip] \/ failed[a] = {}
  BY DEF Unusable
<1>2. \A a \in Chain[tip] : failed[a] = {}
  BY Chains DEF Sound, TypeOK, ActiveSound, ChainSound, IndexSound
<1> QED
  BY <1>1, <1>2

\* What Decide chooses.
LEMMA DecideChoice ==
    ASSUME Sound, NEW t \in Thread, pc[t] = "find", NEW most \in Block \cup {Null},
           \/ abc.mostWork # Null /\ most = abc.mostWork
           \/ abc.mostWork = Null /\ candidates = {} /\ most = Null
           \/ /\ abc.mostWork = Null /\ candidates # {}
              /\ most = Best(candidates) /\ Unusable(most) = {},
           most # Null
    PROVE  /\ most \in linked /\ \A b \in Chain[most] : failed[b] = {}
           /\ tip \in Chain[most] \/ ~Worse(most, tip)
<1>1. CASE abc.mostWork # Null /\ most = abc.mostWork
  BY <1>1 DEF Sound, TargetSound, Activating, Inner
<1>2. CASE most = Best(candidates) /\ Unusable(most) = {} /\ candidates # {}
  <2>1. most \in linked /\ ~Worse(most, tip)
    BY <1>2, BestIsBest DEF Sound, CandidatesSound
  <2> QED BY <1>2, <2>1, UsableChain
<1> QED
  BY <1>1, <1>2

LEMMA DecideSound ==
    ASSUME Sound, NEW t \in Thread, Decide(t)
    PROVE  Sound'
<1>1. PICK most \in Block \cup {Null} :
         /\ \/ abc.mostWork # Null /\ most = abc.mostWork
            \/ abc.mostWork = Null /\ candidates = {} /\ most = Null
            \/ /\ abc.mostWork = Null /\ candidates # {}
               /\ most = Best(candidates) /\ Unusable(most) = {}
         /\ IF most \in {Null, tip}
            THEN LeaveRound(t, most, abc.progressed)
            ELSE /\ pc' = [pc EXCEPT ![t] = "step"]
                 /\ abc' = [abc EXCEPT !.mostWork = most, !.oldTip = tip, !.front = Null]
                 /\ UNCHANGED <<csMain, holder>>
  BY DEF Decide
<1>2. pc[t] = "find" /\ UNCHANGED <<indexVars, chainVars, inv, target, used>>
  BY DEF Decide
<1>3. most # Null => /\ most \in linked /\ \A b \in Chain[most] : failed[b] = {}
                     /\ tip \in Chain[most] \/ ~Worse(most, tip)
  BY <1>1, <1>2, DecideChoice
<1>4. CASE most \in {Null, tip}
  <2>1. /\ abc.progressed \in BOOLEAN /\ pc[t] \in Inner
        /\ most # Null => tip \in Chain[most]
    BY <1>2, <1>4, Chains DEF Sound, TypeOK, Inner
  <2> QED BY <1>1, <1>2, <1>3, <1>4, <2>1, LeaveRoundSound
<1>5. CASE most \notin {Null, tip}
  <2> USE DEF Sound
  <2>0. /\ pc' = [pc EXCEPT ![t] = "step"] /\ UNCHANGED <<csMain, holder>>
        /\ abc' = [abc EXCEPT !.mostWork = most, !.oldTip = tip, !.front = Null]
    BY <1>1, <1>5
  <2>1. TypeOK'
    BY <1>2, <2>0 DEF TypeOK, indexVars, chainVars
  <2>2. IndexSound' /\ ActiveSound' /\ CandidatesSound' /\ FailedBlocksMarked'
    BY <1>2, IndexFrame, ActiveFrame, CandidatesFrame, MarkedFrame DEF indexVars, chainVars
  <2>3. ThreadsSound'
    BY <1>2, <2>0 DEF TypeOK, ThreadsSound, Inner, Activating, Invalidating, Holding
  <2>4. TargetSound'
    <3>1. /\ abc'.mostWork = most /\ abc'.oldTip = tip /\ abc'.startTip = abc.startTip
          /\ pc'[t] = "step" /\ \A u \in Thread : u # t => pc'[u] = pc[u]
      BY <2>0 DEF TypeOK
    <3>2. csMain = t /\ holder = t /\ \A u \in Thread : u # t => pc[u] \notin Inner
      BY <1>2 DEF ThreadsSound, Inner, Holding, Activating
    <3>3. UNCHANGED <<linked, failed, seq, addr, tip, holder>> /\ tip \in Block
      BY <1>2, <2>0 DEF indexVars, chainVars, TypeOK
    <3>4. Worse(most, tip)' <=> Worse(most, tip)
      BY <3>3 DEF Worse
    <3>5. \A u \in Thread : u # t => pc[u] \notin Activating
      BY <3>2 DEF ThreadsSound, Holding
    <3> QED BY <1>2, <1>3, <1>5, <3>1, <3>2, <3>3, <3>4, <3>5 DEF TargetSound, Inner, Activating
  <2>5. InvalidateSound'
    BY <1>2, <2>0 DEF TypeOK, InvalidateSound, Invalidating, indexVars, chainVars
  <2> QED BY <2>1, <2>2, <2>3, <2>4, <2>5
<1> QED
  BY <1>4, <1>5

LEMMA AfterStepSound ==
    ASSUME Sound, NEW t \in Thread, AfterStep(t)
    PROVE  Sound'
<1>0. pc[t] = "stepped" /\ UNCHANGED <<indexVars, chainVars, inv, target, used>>
  BY DEF AfterStep
<1>1. CASE MustGoOn
  <2> USE DEF Sound
  <2>0. /\ pc' = [pc EXCEPT ![t] = "find"] /\ UNCHANGED <<csMain, holder>>
        /\ abc' = [abc EXCEPT !.progressed = TRUE]
    BY <1>1 DEF AfterStep
  <2>1. TypeOK'
    <3>1. TRUE \in BOOLEAN
      OBVIOUS
    <3> QED BY <1>0, <2>0, <3>1 DEF TypeOK, indexVars, chainVars
  <2>2. IndexSound' /\ ActiveSound' /\ CandidatesSound' /\ FailedBlocksMarked'
    BY <1>0, IndexFrame, ActiveFrame, CandidatesFrame, MarkedFrame DEF indexVars, chainVars
  <2>3. ThreadsSound'
    BY <1>0, <2>0 DEF TypeOK, ThreadsSound, Inner, Activating, Invalidating, Holding
  <2>4. TargetSound'
    <3>1. /\ abc'.mostWork = abc.mostWork /\ abc'.startTip = abc.startTip
          /\ abc'.oldTip = abc.oldTip
          /\ pc'[t] = "find" /\ \A u \in Thread : u # t => pc'[u] = pc[u]
      BY <2>0 DEF TypeOK
    <3>2. UNCHANGED <<linked, failed, seq, addr, tip, holder>>
      BY <1>0, <2>0 DEF indexVars, chainVars
    <3> QED BY <1>0, <3>1, <3>2 DEF TargetSound, Inner, Activating, Worse
  <2>5. InvalidateSound'
    BY <1>0, <2>0 DEF TypeOK, InvalidateSound, Invalidating, indexVars, chainVars
  <2> QED BY <2>1, <2>2, <2>3, <2>4, <2>5
<1>2. CASE ~MustGoOn
  <2>1. LeaveRound(t, abc.mostWork, TRUE) /\ TRUE \in BOOLEAN /\ pc[t] \in Inner
    BY <1>0, <1>2 DEF AfterStep, Inner
  <2>2. /\ abc.mostWork \in Block \cup {Null}
        /\ abc.mostWork # Null =>
              /\ abc.mostWork \in linked /\ tip \in Chain[abc.mostWork]
              /\ \A b \in Chain[abc.mostWork] : failed[b] = {}
    BY <1>0 DEF Sound, TypeOK, TargetSound, Activating, Inner
  <2> QED BY <1>0, <2>1, <2>2, LeaveRoundSound
<1> QED
  BY <1>1, <1>2

\* A command is counted.
LEMMA CommandTypes ==
    ASSUME TypeOK, NEW name, Command(name)
    PROVE  used' \in [commands : Nat, restarts : Nat]
BY DEF TypeOK, Command

LEMMA InvalidateBlockSound ==
    ASSUME Sound, NEW t \in Thread, NEW b \in Block, InvalidateBlock(t, b)
    PROVE  Sound'
<1> USE DEF Sound
<1>0. /\ pc[t] = "idle" /\ b \in known \ {Genesis}
      /\ target' = [target EXCEPT ![t] = b] /\ pc' = [pc EXCEPT ![t] = "invalidate"]
      /\ UNCHANGED <<indexVars, chainVars, holder, csMain, abc, inv>>
  BY DEF InvalidateBlock
<1>1. used' \in [commands : Nat, restarts : Nat]
  BY CommandTypes DEF InvalidateBlock
<1>2. TypeOK'
  BY <1>0, <1>1 DEF TypeOK, indexVars, chainVars
<1>3. IndexSound' /\ ActiveSound' /\ CandidatesSound' /\ FailedBlocksMarked'
  BY <1>0, IndexFrame, ActiveFrame, CandidatesFrame, MarkedFrame DEF indexVars, chainVars
<1>4. ThreadsSound'
  BY <1>0, ThreadsFrame
<1>5. TargetSound'
  BY <1>0, Constants DEF TypeOK, TargetSound, Inner, Activating, indexVars, chainVars, Worse
<1>6. InvalidateSound'
  BY <1>0 DEF TypeOK, InvalidateSound, Invalidating, indexVars, chainVars
<1> QED
  BY <1>2, <1>3, <1>4, <1>5, <1>6

LEMMA InvalidateEnterSound ==
    ASSUME Sound, NEW t \in Thread, InvalidateEnter(t)
    PROVE  Sound'
<1> USE DEF Sound
<1>0. /\ pc[t] = "invalidate" /\ holder = Null /\ csMain = Null /\ holder' = t
      /\ inv' = [toMark |-> target[t], byWork |-> CandidateBlocksByWork(target[t])]
      /\ pc' = [pc EXCEPT ![t] = "disconnect"]
      /\ UNCHANGED <<indexVars, chainVars, csMain, abc, target, used>>
  BY DEF InvalidateEnter
<1>1. /\ target[t] \in known \ {Genesis} /\ target[t] \in Block
      /\ CandidateBlocksByWork(target[t]) \subseteq linked
      /\ CandidateBlocksByWork(target[t]) \subseteq Block
  BY <1>0 DEF InvalidateSound, CandidateBlocksByWork, TypeOK
<1>2. TypeOK'
  BY <1>0, <1>1 DEF TypeOK, indexVars, chainVars
<1>3. IndexSound' /\ ActiveSound' /\ CandidatesSound' /\ FailedBlocksMarked'
  BY <1>0, IndexFrame, ActiveFrame, CandidatesFrame, MarkedFrame DEF indexVars, chainVars
<1>4. ThreadsSound'
  BY <1>0, Constants DEF TypeOK, ThreadsSound, Inner, Activating, Invalidating, Holding
<1>5. TargetSound'
  BY <1>0, Constants DEF TypeOK, TargetSound, Inner, Activating, indexVars, chainVars
<1>6. InvalidateSound'
  <2>1. \A u \in Thread : u # t => pc'[u] = pc[u] /\ pc[u] \notin Invalidating
    BY <1>0, Constants DEF TypeOK, ThreadsSound, Holding
  <2>2. pc'[t] = "disconnect" /\ UNCHANGED <<target, known, linked, tip>>
    BY <1>0 DEF TypeOK, indexVars, chainVars
  <2> QED BY <1>0, <1>1, <2>1, <2>2 DEF InvalidateSound, Invalidating
<1> QED
  BY <1>2, <1>3, <1>4, <1>5, <1>6

LEMMA InvalidateLeaveLoopSound ==
    ASSUME Sound, NEW t \in Thread, InvalidateLeaveLoop(t)
    PROVE  Sound'
<1> USE DEF Sound
<1>0. /\ pc[t] = "disconnect" /\ csMain = Null /\ target[t] \notin Chain[tip]
      /\ pc' = [pc EXCEPT ![t] = "mark"]
      /\ UNCHANGED <<indexVars, chainVars, holder, csMain, abc, inv, target, used>>
  BY DEF InvalidateLeaveLoop
<1>2. TypeOK'
  BY <1>0 DEF TypeOK, indexVars, chainVars
<1>3. IndexSound' /\ ActiveSound' /\ CandidatesSound' /\ FailedBlocksMarked'
  BY <1>0, IndexFrame, ActiveFrame, CandidatesFrame, MarkedFrame DEF indexVars, chainVars
<1>4. ThreadsSound'
  BY <1>0 DEF TypeOK, ThreadsSound, Inner, Activating, Invalidating, Holding
<1>5. TargetSound'
  BY <1>0 DEF TypeOK, TargetSound, Inner, Activating, indexVars, chainVars, Worse
<1>6. InvalidateSound'
  <2>1. inv.toMark \notin Chain[tip]
    BY <1>0, Chains DEF InvalidateSound, Invalidating, TypeOK
  <2>2. /\ \A u \in Thread : u # t => pc'[u] = pc[u]
        /\ pc'[t] = "mark" /\ UNCHANGED <<target, known, linked, tip, inv>>
    BY <1>0 DEF TypeOK, indexVars, chainVars
  <2> QED BY <1>0, <2>1, <2>2 DEF InvalidateSound, Invalidating
<1> QED
  BY <1>2, <1>3, <1>4, <1>5, <1>6
-----------------------------------------------------------------------------
\* Steps that move the tip or mark blocks.
LEMMA LinkedChain ==
    ASSUME Sound, NEW b \in linked
    PROVE  b \in Block /\ Chain[b] \subseteq linked
BY ChainClosed DEF Sound, TypeOK, IndexSound

\* Some blocks of a chain have a highest one.
LEMMA Highest ==
    ASSUME NEW b \in Block, NEW S \in SUBSET Chain[b], S # {}
    PROVE  \E x \in S : \A y \in S : Height[y] <= Height[x]
<1> DEFINE H == {Height[x] : x \in S}
<1>1. \A x \in S : x \in Block /\ Height[x] \in Nat /\ Height[x] <= Height[b]
  <2>1. \A x \in Chain[b] : x \in Block /\ (x = b \/ Height[x] < Height[b])
    BY AncestorBelow
  <2> QED BY <2>1, HeightFacts
<1>2. H \in SUBSET Nat /\ H # {} /\ Height[b] \in Nat /\ \A h \in H : h <= Height[b]
  BY <1>1, HeightFacts
<1>3. Max(H) \in H /\ \A h \in H : h <= Max(H)
  <2> HIDE DEF H
  <2> QED BY <1>2, MaxMember
<1>4. PICK x \in S : Max(H) = Height[x]
  BY <1>3
<1> QED
  BY <1>3, <1>4

\* The candidate that FindMostWorkChain drops, and where it is unusable.
Bad(b) == CHOOSE x \in Unusable(b) : \A y \in Unusable(b) : Height[y] <= Height[x]

LEMMA DropFacts ==
    ASSUME Sound, candidates # {}, NEW b, b = Best(candidates), Unusable(b) # {},
           NEW bad, bad = Bad(b)
    PROVE  /\ b \in linked /\ bad \in Chain[b] /\ bad \in Block /\ bad \notin Chain[tip]
           /\ failed[bad] # {}
           /\ \A x \in Chain[b] \ Chain[bad] :
                 x \notin Chain[tip] /\ x \in linked /\ x # Genesis /\ bad \in Chain[x]
<1>1. b \in linked /\ b \in Block /\ Chain[b] \subseteq linked /\ tip \in Block
  BY BestIsBest, LinkedChain DEF Sound, CandidatesSound, TypeOK
<1>2. Unusable(b) \in SUBSET Chain[b]
  BY DEF Unusable
<1>3. bad \in Unusable(b)
  BY <1>1, <1>2, Highest DEF Bad
<1>4. bad \in Chain[b] /\ bad \in Block /\ bad \notin Chain[tip] /\ bad \in haveData
  BY <1>1, <1>3, Chains DEF Unusable, Sound, IndexSound
<1>5. failed[bad] # {}
  BY <1>3, <1>4 DEF Unusable
<1>6. ASSUME NEW x \in Chain[b] \ Chain[bad]
      PROVE  x \notin Chain[tip] /\ x \in linked /\ x # Genesis /\ bad \in Chain[x]
  <2>1. bad \in Chain[x]
    BY <1>1, <1>4, <1>6, ChainLinear
  <2>2. x \in Block /\ Genesis \in Chain[bad]
    BY <1>1, <1>4, Chains
  <2>3. x \notin Chain[tip]
    BY <1>1, <1>4, <2>1, <2>2, Chains
  <2> QED BY <1>1, <2>1, <2>2, <2>3
<1> QED
  BY <1>1, <1>4, <1>5, <1>6

LEMMA DropCandidateSound ==
    ASSUME Sound, NEW t \in Thread, DropCandidate(t)
    PROVE  Sound'
<1> DEFINE b == Best(candidates)
           bad == Bad(b)
           above == Chain[b] \ Chain[bad]
<1>0. /\ pc[t] = "find" /\ abc.mostWork = Null /\ candidates # {} /\ Unusable(b) # {}
      /\ candidates' = candidates \ (above \cup {bad})
      /\ UNCHANGED <<known, level, haveData, linked, seq, addr, tip, bestHeader, failedBlocks,
                     counters, threadVars, used>>
  BY DEF DropCandidate, Bad
<1>1. /\ b \in linked /\ bad \in Chain[b] /\ failed[bad] # {}
      /\ \A x \in above : x \notin Chain[tip] /\ x \in linked /\ x # Genesis
  BY <1>0, DropFacts
<1>2. /\ failed' = [x \in Block |-> IF x \in above THEN failed[x] \cup {"CHILD"} ELSE failed[x]]
      /\ bestInvalid' = IF bestInvalid = Null \/ Work[b] > Work[bestInvalid]
                        THEN b ELSE bestInvalid
      /\ UNCHANGED unlinked
  BY <1>1 DEF DropCandidate, Bad
<1> HIDE DEF above, bad, b
<1> USE DEF Sound
<1>3. TypeOK'
  <2>1. failed' \in [Block -> SUBSET {"VALID", "CHILD"}]
    BY <1>2 DEF TypeOK
  <2>2. bestInvalid' \in Block \cup {Null}
    BY <1>1, <1>2 DEF TypeOK
  <2> QED BY <1>0, <1>2, <2>1, <2>2 DEF TypeOK, threadVars
<1>4. IndexSound'
  <2>1. \A x \in Block : failed'[x] # {} => x \in known \ {Genesis}
    BY <1>1, <1>2 DEF IndexSound, TypeOK
  <2> QED BY <1>0, <1>2, <2>1 DEF IndexSound
<1>5. ActiveSound'
  <2>1. \A a \in Chain[tip] \ {Genesis} : failed'[a] = {} /\ level'[a] = Scripts
    BY <1>0, <1>1, <1>2, Chains DEF ActiveSound, ChainSound, TypeOK
  <2> QED BY <1>0, <2>1 DEF ActiveSound, ChainSound
<1>6. CandidatesSound'
  BY <1>0 DEF CandidatesSound, Worse
<1>7. FailedBlocksMarked'
  BY <1>0, <1>2 DEF FailedBlocksMarked, TypeOK
<1>8. ThreadsSound' /\ TargetSound' /\ InvalidateSound'
  BY <1>0 DEF ThreadsSound, TargetSound, InvalidateSound, threadVars, Worse
<1> QED
  BY <1>3, <1>4, <1>5, <1>6, <1>7, <1>8

\* In a step of ActivateBestChainStep only the thread itself holds the mutex.
LEMMA StepFacts ==
    ASSUME Sound, NEW t \in Thread, pc[t] = "step"
    PROVE  /\ csMain = t /\ holder = t
           /\ \A u \in Thread : u # t => pc[u] \notin Holding
           /\ abc.mostWork \in linked /\ abc.mostWork \in Block /\ abc.mostWork # tip
           /\ abc.oldTip \in Block /\ abc.startTip \in Block
           /\ Chain[abc.mostWork] \subseteq linked
           /\ \A a \in Chain[abc.mostWork] : failed[a] = {}
<1>1. csMain = t /\ holder = t /\ \A u \in Thread : u # t => pc[u] \notin Holding
  BY DEF Sound, ThreadsSound, Inner, Holding, Activating
<1>2. abc.mostWork \in Block /\ abc.mostWork # tip /\ abc.oldTip \in Block /\ abc.startTip \in Block
  BY DEF Sound, TargetSound, Inner
<1>3. abc.mostWork \in linked /\ \A a \in Chain[abc.mostWork] : failed[a] = {}
  BY <1>2, Constants DEF Sound, TargetSound
<1> QED
  BY <1>1, <1>2, <1>3, LinkedChain

LEMMA DisconnectTipSound ==
    ASSUME Sound, NEW t \in Thread, DisconnectTip(t)
    PROVE  Sound'
<1> USE DEF Sound
<1>0. /\ pc[t] = "step" /\ tip \notin Chain[abc.mostWork] /\ tip' = Parent[tip]
      /\ UNCHANGED <<indexVars, candidates, unlinked, bestHeader, bestInvalid, failedBlocks,
                     counters, threadVars, used>>
  BY DEF DisconnectTip
<1>1. tip \in Block \ {Genesis} /\ abc.mostWork \in Block
  BY <1>0, Chains, StepFacts DEF TypeOK
<1>2. /\ Parent[tip] \in Block /\ Chain[Parent[tip]] \subseteq Chain[tip]
      /\ Work[Parent[tip]] < Work[tip]
  BY <1>1, Chains, ChainSelectionConstants
<1>3. TypeOK'
  BY <1>0, <1>2 DEF TypeOK, indexVars, threadVars
<1>4. IndexSound' /\ FailedBlocksMarked'
  BY <1>0, IndexFrame, MarkedFrame DEF indexVars
<1>5. ActiveSound'
  BY <1>0, <1>2 DEF ActiveSound, ChainSound, indexVars
<1>6. CandidatesSound'
  <2>1. \A c \in candidates : ~Worse(c, Parent[tip])
    <3>1. ~Worse(tip, Parent[tip])
      BY <1>1, <1>2, WorseFacts DEF IndexSound
    <3> QED BY <1>1, <1>2, <3>1, WorseFacts DEF CandidatesSound, IndexSound, TypeOK
  <2> QED BY <1>0, <2>1 DEF CandidatesSound, Worse, indexVars
<1>7. ThreadsSound'
  BY <1>0 DEF ThreadsSound, threadVars
<1>8. TargetSound'
  <2>1. ~Worse(abc.mostWork, tip)
    BY <1>0 DEF TargetSound
  <2>2. Worse(Parent[tip], tip)
    BY <1>1, <1>2, WorseFacts DEF IndexSound
  <2>3. Parent[tip] # abc.mostWork /\ ~Worse(abc.mostWork, Parent[tip])
    BY <1>1, <1>2, <2>1, <2>2, WorseFacts DEF IndexSound
  <2>4. \A u \in Thread : pc[u] \notin Activating \ {"step"}
    BY <1>0, StepFacts DEF Holding, Activating
  <2> QED BY <1>0, <2>3, <2>4 DEF TargetSound, threadVars, indexVars, Worse
<1>9. InvalidateSound'
  <2>1. \A u \in Thread : pc[u] \notin Invalidating
    BY <1>0, StepFacts DEF Holding, Invalidating
  <2> QED BY <1>0, <2>1 DEF InvalidateSound, threadVars, indexVars, Invalidating
<1> QED
  BY <1>3, <1>4, <1>5, <1>6, <1>7, <1>8, <1>9

\* The block that ActivateBestChainStep connects next, and the end of its list.
LEMMA NextFacts ==
    ASSUME Sound, NEW t \in Thread, pc[t] = "step", tip \in Chain[abc.mostWork]
    PROVE  /\ NextToConnect \in Chain[abc.mostWork] /\ NextToConnect \in Block \ {Genesis}
           /\ NextToConnect \in linked /\ Parent[NextToConnect] = tip
           /\ failed[NextToConnect] = {} /\ NextToConnect \notin Chain[tip]
           /\ Chain[NextToConnect] = Chain[tip] \cup {NextToConnect}
           /\ BatchEnd \in Block
<1>1. /\ abc.mostWork \in Block /\ tip # abc.mostWork
      /\ Chain[abc.mostWork] \subseteq linked /\ \A a \in Chain[abc.mostWork] : failed[a] = {}
  BY StepFacts
<1>2. \E c \in Chain[abc.mostWork] \ {Genesis} : Parent[c] = tip
  BY <1>1, ChainNext
<1>3. NextToConnect \in Chain[abc.mostWork] \ {Genesis} /\ Parent[NextToConnect] = tip
  BY <1>2 DEF NextToConnect
<1>4. NextToConnect \in Block
  BY <1>1, <1>3, Chains
<1>5. BatchEnd \in Block
  <2>1. abc.front \in Block \cup {Null}
    BY DEF Sound, TypeOK
  <2> DEFINE h == IF Height[tip] + ConnectBatch < Height[abc.mostWork]
                  THEN Height[tip] + ConnectBatch ELSE Height[abc.mostWork]
  <2>2. tip \in Block /\ Height[tip] \in Nat /\ Height[abc.mostWork] \in Nat /\ ConnectBatch \in Nat
    BY <1>1, HeightFacts, ChainSelectionConstants DEF Sound, TypeOK
  <2>3. h \in 0 .. Height[abc.mostWork]
    BY <2>2
  <2>4. \E c \in Chain[abc.mostWork] : Height[c] = h
    <3> HIDE DEF h
    <3> QED BY <1>1, <2>3, ChainHeights
  <2>5. (CHOOSE c \in Chain[abc.mostWork] : Height[c] = h) \in Block
    <3> HIDE DEF h
    <3> QED BY <1>1, <2>4, Chains
  <2> QED BY <2>1, <2>5 DEF BatchEnd
<1> QED
  BY <1>1, <1>3, <1>4, <1>5, Chains

LEMMA ConnectTipSound ==
    ASSUME Sound, NEW t \in Thread, ConnectTip(t)
    PROVE  Sound'
<1> DEFINE b == NextToConnect
<1> USE DEF Sound
<1>0. /\ pc[t] = "step" /\ tip \in Chain[abc.mostWork] /\ b \notin ConnectInvalid
      /\ level' = RaiseValidity(level, b, Scripts) /\ tip' = b
      /\ candidates' = PruneBlockIndexCandidates(candidates, seq, addr, b)
      /\ abc' = [abc EXCEPT !.front = BatchEnd]
      /\ pc' = [pc EXCEPT ![t] = IF b = abc.mostWork \/ Work[b] > Work[abc.oldTip]
                                 THEN "stepped" ELSE "step"]
      /\ UNCHANGED <<known, failed, haveData, linked, seq, addr, unlinked, bestHeader,
                     bestInvalid, failedBlocks, counters, holder, csMain, inv, target, used>>
  BY DEF ConnectTip
<1>1. /\ b \in Chain[abc.mostWork] /\ b \in Block \ {Genesis} /\ b \in linked /\ Parent[b] = tip
      /\ failed[b] = {} /\ b \notin Chain[tip] /\ Chain[b] = Chain[tip] \cup {b}
      /\ BatchEnd \in Block
  BY <1>0, NextFacts
<1> HIDE DEF b
<1>2. level' = [level EXCEPT ![b] = Scripts]
  <2>1. level[b] < Scripts \/ level[b] = Scripts
    BY <1>1 DEF TypeOK, Unknown, Tree, Transactions, Scripts
  <2>2. (IF failed[b] = {} /\ level[b] < Scripts THEN Scripts ELSE level[b]) = Scripts
    BY <1>1, <2>1
  <2>3. level' = [level EXCEPT ![b] =
                    IF failed[b] = {} /\ level[b] < Scripts THEN Scripts ELSE level[b]]
    BY <1>0 DEF RaiseValidity
  <2> QED BY <2>2, <2>3
<1>3. /\ abc'.mostWork = abc.mostWork /\ abc'.oldTip = abc.oldTip
      /\ abc'.startTip = abc.startTip /\ \A u \in Thread : u # t => pc'[u] = pc[u]
      /\ pc'[t] = IF b = abc.mostWork \/ Work[b] > Work[abc.oldTip] THEN "stepped" ELSE "step"
  BY <1>0 DEF TypeOK
<1>4. TypeOK'
  <2>1. level' \in [Block -> {Unknown, Tree, Transactions, Scripts}]
    BY <1>1, <1>2 DEF TypeOK
  <2>2. pc' \in [Thread -> {"idle", "abc", "round", "find", "step", "stepped",
                           "invalidate", "disconnect", "mark"}]
    BY <1>0 DEF TypeOK
  <2>3. candidates' \subseteq Block
    BY <1>0 DEF TypeOK, PruneBlockIndexCandidates
  <2> QED BY <1>0, <1>1, <2>1, <2>2, <2>3 DEF TypeOK
<1>5. IndexSound'
  <2>1. \A a \in Block : a \in haveData <=> level'[a] >= Transactions
    BY <1>1, <1>2 DEF IndexSound, TypeOK, Transactions, Scripts
  <2>2. tip = Genesis \/ level[tip] = Scripts
    BY <1>1, Chains DEF ActiveSound, ChainSound, TypeOK
  <2>3. \A a \in Block \ {Genesis} : level'[a] = Scripts =>
          a \notin ConnectInvalid /\ (Parent[a] = Genesis \/ level'[Parent[a]] = Scripts)
    <3>1. ASSUME NEW a \in Block \ {Genesis}, level'[a] = Scripts
          PROVE  a \notin ConnectInvalid /\ (Parent[a] = Genesis \/ level'[Parent[a]] = Scripts)
      <4>1. Parent[a] \in Block
        BY Chains
      <4>2. level[Parent[a]] = Scripts => level'[Parent[a]] = Scripts
        BY <1>2, <4>1 DEF TypeOK
      <4>3. CASE a = b
        BY <1>0, <1>1, <2>2, <4>2, <4>3
      <4>4. CASE a # b
        BY <1>2, <3>1, <4>2, <4>4 DEF IndexSound, TypeOK
      <4> QED BY <4>3, <4>4
    <3> QED BY <3>1
  <2> QED BY <1>0, <2>1, <2>3 DEF IndexSound
<1>6. ActiveSound'
  BY <1>0, <1>1, <1>2, Chains DEF ActiveSound, ChainSound, TypeOK
<1>7. CandidatesSound'
  BY <1>0 DEF CandidatesSound, Worse, PruneBlockIndexCandidates
<1>8. FailedBlocksMarked'
  BY <1>0, MarkedFrame
<1>9. ThreadsSound'
  BY <1>0 DEF TypeOK, ThreadsSound, Inner, Activating, Invalidating, Holding
<1>10. TargetSound'
  <2>1. /\ holder = t /\ \A u \in Thread : u # t => pc[u] \notin Holding
        /\ abc.mostWork \in linked /\ abc.mostWork \in Block /\ abc.oldTip \in Block
        /\ abc.startTip \in Block /\ \A a \in Chain[abc.mostWork] : failed[a] = {}
    BY <1>0, StepFacts
  <2>2. pc'[t] \in {"step", "stepped"} /\ (pc'[t] = "step" => b # abc.mostWork)
    BY <1>3
  <2> QED BY <1>0, <1>1, <1>3, <2>1, <2>2 DEF TargetSound, Inner, Activating, Holding
<1>11. InvalidateSound'
  <2>1. \A u \in Thread : pc'[u] \notin Invalidating
    BY <1>0, <1>3, StepFacts DEF Holding, Invalidating
  <2>2. \A u \in Thread : pc'[u] = "invalidate" => pc[u] = "invalidate"
    BY <1>3
  <2> QED BY <1>0, <2>1, <2>2 DEF InvalidateSound, Invalidating
<1> QED
  BY <1>4, <1>5, <1>6, <1>7, <1>8, <1>9, <1>10, <1>11

\* InvalidChainFound keeps the types.
LEMMA MarkersTypes ==
    ASSUME TypeOK, NEW m, m.invalid \in Block \cup {Null}, m.header \in Block, NEW b \in Block
    PROVE  /\ InvalidChainFound(m, b).invalid \in Block
           /\ InvalidChainFound(m, b).header \in Block
BY DEF TypeOK, InvalidChainFound

LEMMA ConnectTipFailsSound ==
    ASSUME Sound, NEW t \in Thread, ConnectTipFails(t)
    PROVE  Sound'
<1> DEFINE b == NextToConnect
           m == InvalidChainFound(InvalidChainFound(Markers, b), BatchEnd)
<1> USE DEF Sound
<1>0. /\ pc[t] = "step" /\ tip \in Chain[abc.mostWork]
      /\ failed' = [failed EXCEPT ![b] = @ \cup {"VALID"}]
      /\ failedBlocks' = failedBlocks \cup {b}
      /\ candidates' = candidates \ {b}
      /\ bestInvalid' = m.invalid /\ bestHeader' = m.header
      /\ abc' = [abc EXCEPT !.mostWork = Null] /\ pc' = [pc EXCEPT ![t] = "stepped"]
      /\ UNCHANGED <<known, level, haveData, linked, seq, addr, unlinked, tip, counters,
                     holder, csMain, inv, target, used>>
  BY DEF ConnectTipFails, InvalidBlockFound
<1>1. /\ b \in Block \ {Genesis} /\ b \in linked /\ b \notin Chain[tip] /\ BatchEnd \in Block
  BY <1>0, NextFacts
<1>2. m.invalid \in Block /\ m.header \in Block
  <2>1. /\ Markers.invalid \in Block \cup {Null} /\ Markers.header \in Block
    BY DEF Markers, TypeOK
  <2> HIDE DEF b
  <2> QED BY <1>1, <2>1, MarkersTypes
<1> HIDE DEF b, m
<1>3. /\ abc'.mostWork = Null /\ abc'.startTip = abc.startTip
      /\ pc'[t] = "stepped" /\ \A u \in Thread : u # t => pc'[u] = pc[u]
  BY <1>0 DEF TypeOK
<1>4. TypeOK'
  <2>1. failed' \in [Block -> SUBSET {"VALID", "CHILD"}]
    BY <1>0, <1>1 DEF TypeOK
  <2> QED BY <1>0, <1>1, <1>2, <2>1 DEF TypeOK
<1>5. IndexSound'
  <2>1. \A a \in Block : failed'[a] # {} => a \in known \ {Genesis}
    BY <1>0, <1>1 DEF IndexSound, TypeOK
  <2> QED BY <1>0, <2>1 DEF IndexSound
<1>6. ActiveSound'
  BY <1>0, <1>1, Chains DEF ActiveSound, ChainSound, TypeOK
<1>7. CandidatesSound'
  BY <1>0 DEF CandidatesSound, Worse
<1>8. FailedBlocksMarked'
  BY <1>0, <1>1 DEF FailedBlocksMarked, TypeOK
<1>9. ThreadsSound'
  BY <1>0 DEF TypeOK, ThreadsSound, Inner, Activating, Invalidating, Holding
<1>10. TargetSound'
  <2>1. \A u \in Thread : u # t => pc[u] \notin Holding
    BY <1>0, StepFacts
  <2>2. abc.startTip \in Block
    BY <1>0, StepFacts
  <2> QED BY <1>0, <1>3, <2>1, <2>2 DEF TargetSound, Inner, Activating, Holding
<1>11. InvalidateSound'
  <2>1. \A u \in Thread : pc'[u] \notin Invalidating
    BY <1>0, <1>3, StepFacts DEF Holding, Invalidating
  <2>2. \A u \in Thread : pc'[u] = "invalidate" => pc[u] = "invalidate"
    BY <1>3
  <2> QED BY <1>0, <2>1, <2>2 DEF InvalidateSound, Invalidating
<1> QED
  BY <1>4, <1>5, <1>6, <1>7, <1>8, <1>9, <1>10, <1>11

LEMMA InvalidateDisconnectSound ==
    ASSUME Sound, NEW t \in Thread, InvalidateDisconnect(t)
    PROVE  /\ Sound'
           /\ failed' = [failed EXCEPT ![tip] = @ \cup {"VALID"}]
<1> USE DEF Sound
<1>0. /\ pc[t] = "disconnect" /\ csMain = Null /\ target[t] \in Chain[tip]
      /\ tip' = Parent[tip] /\ failed' = FailedAfterDisconnect(tip)
      /\ candidates' = (candidates \ {tip}) \cup {Parent[tip]} \cup Readded(tip)
      /\ inv' = [toMark |-> tip, byWork |-> inv.byWork \ Readded(tip)]
      /\ UNCHANGED <<known, level, haveData, linked, seq, addr, unlinked, bestHeader,
                     bestInvalid, failedBlocks, counters, pc, holder, csMain, abc, target, used>>
  BY DEF InvalidateDisconnect
<1>1. /\ target[t] \in known \ {Genesis} /\ inv.toMark \in known \ {Genesis}
      /\ inv.byWork \subseteq linked
      /\ holder = t /\ \A u \in Thread : u # t => pc[u] \notin Holding
  BY <1>0 DEF InvalidateSound, ThreadsSound, Invalidating, Holding
<1>2. tip \in Block \ {Genesis}
  BY <1>0, <1>1, Chains DEF TypeOK
<1>3. /\ Parent[tip] \in Block /\ Parent[tip] # tip /\ Chain[tip] = Chain[Parent[tip]] \cup {tip}
      /\ tip \notin Chain[Parent[tip]] /\ Parent[tip] \in Chain[tip]
      /\ Work[Parent[tip]] < Work[tip]
  BY <1>2, Chains, ChainSelectionConstants
<1>4. /\ tip \in linked /\ Parent[tip] \in linked /\ failed[Parent[tip]] = {}
  BY <1>2, <1>3, Chains DEF ActiveSound, ChainSound, IndexSound
<1>5. failed' = [failed EXCEPT ![tip] = @ \cup {"VALID"}]
  <2> DEFINE f == [failed EXCEPT ![tip] = @ \cup {"VALID"}]
  <2>1. Parent[tip] = inv.toMark => f[inv.toMark] = {}
    BY <1>3, <1>4 DEF TypeOK
  <2> QED BY <1>0, <2>1 DEF FailedAfterDisconnect
<1>6. abc.mostWork = Null
  BY <1>0, <1>1 DEF TargetSound, Activating, Inner
<1>7. Readded(tip) \subseteq linked /\ \A c \in Readded(tip) : ~Worse(c, Parent[tip])
  BY <1>1 DEF Readded
<1>8. TypeOK'
  <2>1. failed' \in [Block -> SUBSET {"VALID", "CHILD"}]
    BY <1>2, <1>5 DEF TypeOK
  <2>2. inv' \in [toMark : Block \cup {Null}, byWork : SUBSET Block]
    BY <1>0, <1>2 DEF TypeOK
  <2> QED BY <1>0, <1>3, <1>7, <2>1, <2>2 DEF TypeOK
<1>9. IndexSound'
  <2>1. \A a \in Block : failed'[a] # {} => a \in known \ {Genesis}
    BY <1>2, <1>4, <1>5 DEF IndexSound, TypeOK
  <2> QED BY <1>0, <2>1 DEF IndexSound
<1>10. ActiveSound'
  <2>1. \A a \in Chain[Parent[tip]] \ {Genesis} : failed'[a] = {} /\ level'[a] = Scripts
    BY <1>0, <1>3, <1>5, Chains DEF ActiveSound, ChainSound, TypeOK
  <2> QED BY <1>0, <1>3, <2>1 DEF ActiveSound, ChainSound
<1>11. CandidatesSound'
  <2>1. ~Worse(tip, Parent[tip]) /\ ~Worse(Parent[tip], Parent[tip])
    BY <1>2, <1>3, WorseFacts DEF IndexSound
  <2>2. \A c \in candidates : ~Worse(c, Parent[tip])
    BY <1>2, <1>3, <2>1, WorseFacts DEF CandidatesSound, IndexSound, TypeOK
  <2> QED BY <1>0, <1>4, <1>7, <2>1, <2>2 DEF CandidatesSound, Worse
<1>12. FailedBlocksMarked'
  BY <1>0, <1>2, <1>5 DEF FailedBlocksMarked, TypeOK
<1>13. ThreadsSound'
  BY <1>0 DEF ThreadsSound
<1>14. TargetSound'
  <2>1. \A u \in Thread : pc[u] \notin Activating
    BY <1>0, <1>1 DEF Holding, Activating, Inner
  <2> QED BY <1>0, <1>6, <2>1 DEF TargetSound, Activating, Inner
<1>15. InvalidateSound'
  <2>1. tip \in known \ {Genesis} /\ Parent[tip] = tip'
    BY <1>0, <1>2, <1>4 DEF IndexSound
  <2>2. \A u \in Thread : pc[u] \in Invalidating => u = t
    BY <1>1 DEF Holding
  <2> QED BY <1>0, <1>1, <2>1, <2>2 DEF InvalidateSound, Invalidating
<1> QED
  BY <1>5, <1>8, <1>9, <1>10, <1>11, <1>12, <1>13, <1>14, <1>15

LEMMA InvalidateMarkSound ==
    ASSUME Sound, NEW t \in Thread, InvalidateMark(t)
    PROVE  Sound'
<1> DEFINE m == InvalidChainFound(Markers, inv.toMark)
<1> USE DEF Sound
<1>0. /\ pc[t] = "mark" /\ csMain = Null
      /\ failed' = [failed EXCEPT ![inv.toMark] = @ \cup {"VALID"}]
      /\ failedBlocks' = failedBlocks \cup {inv.toMark}
      /\ candidates' = (candidates \ {inv.toMark}) \cup MissedCandidates(failed')
      /\ bestInvalid' = m.invalid /\ bestHeader' = m.header
      /\ holder' = Null /\ inv' = NoInv /\ target' = [target EXCEPT ![t] = Null]
      /\ pc' = [pc EXCEPT ![t] = "abc"]
      /\ UNCHANGED <<known, level, haveData, linked, seq, addr, unlinked, tip, counters,
                     csMain, abc, used>>
  BY DEF InvalidateMark, ToActivate
<1>1. /\ inv.toMark \in known \ {Genesis} /\ inv.toMark \in Block /\ inv.toMark \notin Chain[tip]
      /\ holder = t /\ \A u \in Thread : u # t => pc[u] \notin Holding
  BY <1>0 DEF InvalidateSound, ThreadsSound, Invalidating, Holding, TypeOK
<1>2. m.invalid \in Block /\ m.header \in Block
  <2>1. /\ Markers.invalid \in Block \cup {Null} /\ Markers.header \in Block
    BY DEF Markers, TypeOK
  <2> QED BY <1>1, <2>1, MarkersTypes
<1> HIDE DEF m
<1>3. MissedCandidates(failed') \subseteq linked /\ \A c \in MissedCandidates(failed') : ~Worse(c, tip)
  BY DEF MissedCandidates
<1>4. abc.mostWork = Null
  BY <1>0, <1>1 DEF TargetSound, Activating, Inner
<1>5. TypeOK'
  <2>1. failed' \in [Block -> SUBSET {"VALID", "CHILD"}]
    BY <1>0, <1>1 DEF TypeOK
  <2>2. inv' \in [toMark : Block \cup {Null}, byWork : SUBSET Block]
    BY <1>0 DEF TypeOK, NoInv
  <2>3. candidates' \subseteq Block /\ failedBlocks' \subseteq Block
    BY <1>0, <1>1, <1>3 DEF TypeOK
  <2> QED BY <1>0, <1>2, <2>1, <2>2, <2>3 DEF TypeOK
<1>6. IndexSound'
  <2>1. \A a \in Block : failed'[a] # {} => a \in known \ {Genesis}
    BY <1>0, <1>1 DEF IndexSound, TypeOK
  <2> QED BY <1>0, <2>1 DEF IndexSound
<1>7. ActiveSound'
  <2>1. \A a \in Chain[tip] \ {Genesis} : failed'[a] = {} /\ level'[a] = Scripts
    BY <1>0, <1>1, Chains DEF ActiveSound, ChainSound, TypeOK
  <2> QED BY <1>0, <2>1 DEF ActiveSound, ChainSound
<1>8. CandidatesSound'
  BY <1>0, <1>3 DEF CandidatesSound, Worse
<1>9. FailedBlocksMarked'
  BY <1>0, <1>1 DEF FailedBlocksMarked, TypeOK
<1>10. ThreadsSound'
  BY <1>0, <1>1, Constants DEF TypeOK, ThreadsSound, Inner, Activating, Invalidating, Holding
<1>11. TargetSound'
  <2>1. \A u \in Thread : pc'[u] \notin Activating
    BY <1>0, <1>1 DEF Holding, Activating, Inner, TypeOK
  <2> QED BY <1>0, <1>4, <2>1 DEF TargetSound, Activating, Inner
<1>12. InvalidateSound'
  <2>1. pc'[t] = "abc" /\ \A u \in Thread : u # t => pc'[u] = pc[u] /\ target'[u] = target[u]
    BY <1>0 DEF TypeOK
  <2>2. \A u \in Thread : pc'[u] \notin Invalidating
    BY <1>1, <2>1 DEF Holding, Invalidating
  <2> QED BY <1>0, <2>1, <2>2 DEF InvalidateSound, Invalidating
<1> QED
  BY <1>5, <1>6, <1>7, <1>8, <1>9, <1>10, <1>11, <1>12
-----------------------------------------------------------------------------
\* Steps of a thread that holds no lock but cs_main, for the time of the step.
LEMMA OuterFrame ==
    ASSUME Sound, NEW t \in Thread, pc[t] = "idle", csMain = Null,
           pc' = pc \/ pc' = [pc EXCEPT ![t] = "abc"],
           UNCHANGED <<tip, abc, inv, target, holder, csMain>>,
           linked \subseteq linked', known \subseteq known',
           abc.mostWork # Null => \A a \in Chain[abc.mostWork] : failed'[a] = {}
    PROVE  ThreadsSound' /\ TargetSound' /\ InvalidateSound'
<1> USE DEF Sound
<1>1. \A u \in Thread : u # t => pc'[u] = pc[u]
  BY DEF TypeOK
<1>2. pc'[t] \in {"idle", "abc"}
  BY DEF TypeOK
<1>3. ThreadsSound'
  <2>1. pc' \in [Thread -> {"idle", "abc", "round", "find", "step", "stepped",
                           "invalidate", "disconnect", "mark"}]
    BY DEF TypeOK
  <2> QED BY <1>1, <1>2, <2>1 DEF ThreadsSound, Inner, Activating, Invalidating, Holding
<1>4. TargetSound'
  <2>1. \A u \in Thread : pc[u] \notin Inner
    BY Constants DEF ThreadsSound
  <2> QED BY <1>1, <1>2, <2>1 DEF TargetSound, Inner, Activating
<1>5. InvalidateSound'
  BY <1>1, <1>2 DEF InvalidateSound, Invalidating
<1> QED
  BY <1>3, <1>4, <1>5

\* What AcceptBlockHeader marks when it rejects b: blocks of the index that
\* descend from a block of m_failed_blocks.
LEMMA RejectFacts ==
    ASSUME Sound, NEW b \in Block, ~HeaderAccepted(b), NEW F, F = FailedAfterReject(b)
    PROVE  /\ F \in [Block -> SUBSET {"VALID", "CHILD"}]
           /\ \A x \in Block : failed[x] \subseteq F[x]
           /\ \A x \in Block : F[x] # failed[x] =>
                 /\ F[x] = failed[x] \cup {"CHILD"} /\ x \in known \ {Genesis}
                 /\ F[Parent[x]] # {}
                 /\ \E f \in failedBlocks : f \in Chain[x]
<1> USE DEF Sound
<1>1. CASE ~(b \notin known /\ Parent[b] \in known /\ failed[Parent[b]] = {})
  BY <1>1 DEF FailedAfterReject, TypeOK
<1>2. CASE b \notin known /\ Parent[b] \in known /\ failed[Parent[b]] = {}
  <2> DEFINE p == Parent[b]
             S == failedBlocks \cap Chain[p]
             f == CHOOSE x \in S : \A y \in S : addr[x] <= addr[y]
  <2>1. b # Genesis /\ p \in Block /\ Chain[p] \subseteq Block /\ Chain[p] \subseteq known
    <3>1. Genesis \in known
      BY DEF IndexSound
    <3>2. known \in SUBSET Block /\ \A c \in known \ {Genesis} : Parent[c] \in known
      BY DEF IndexSound, TypeOK
    <3> QED BY <1>2, <3>1, <3>2, ChainClosed, Chains DEF TypeOK
  <2>2. S # {}
    BY <1>2 DEF HeaderAccepted, DescendsFromFailed
  <2>3. f \in S
    <3> DEFINE A == {addr[x] : x \in S}
    <3>1. A \in SUBSET Nat /\ A # {}
      BY <2>1, <2>2 DEF TypeOK
    <3>2. PICK n \in A : \A m \in A : n <= m
      BY <3>1, NatLeast
    <3>3. PICK x \in S : addr[x] = n
      BY <3>2
    <3>4. \A y \in S : addr[x] <= addr[y]
      BY <3>2, <3>3
    <3> QED BY <3>3, <3>4
  <2>4. F = [x \in Block |-> IF x \in Chain[p] \ Chain[f]
                             THEN failed[x] \cup {"CHILD"} ELSE failed[x]]
    BY <1>2 DEF FailedAfterReject
  <2> HIDE DEF f
  <2>5. f \in Block /\ f \in failedBlocks /\ f \in Chain[p] /\ failed[f] # {}
    BY <2>1, <2>3 DEF FailedBlocksMarked
  <2>6. ASSUME NEW x \in Chain[p] \ Chain[f]
        PROVE  /\ x \in known \ {Genesis} /\ f \in Chain[x]
               /\ Parent[x] \in Block /\ (Parent[x] \in Chain[p] \ Chain[f] \/ Parent[x] = f)
    <3>1. x \in Block /\ x \in known \ {Genesis}
      BY <2>1, <2>5, <2>6, Chains
    <3>2. f \in Chain[x]
      BY <2>1, <2>5, <2>6, ChainLinear
    <3>3. /\ Parent[x] \in Block /\ Chain[x] = Chain[Parent[x]] \cup {x}
          /\ Parent[x] \in Chain[x]
      BY <3>1, Chains
    <3>4. f \in Chain[Parent[x]]
      BY <2>5, <2>6, <3>1, <3>2, <3>3, Chains
    <3>5. Parent[x] \in Chain[p]
      BY <2>1, <2>6, <3>3, Chains
    <3>6. Parent[x] \in Chain[f] => Parent[x] = f
      BY <2>5, <3>3, <3>4, Chains
    <3> QED BY <3>1, <3>2, <3>3, <3>5, <3>6
  <2>7. F \in [Block -> SUBSET {"VALID", "CHILD"}]
    BY <2>4 DEF TypeOK
  <2>8. ASSUME NEW x \in Block, F[x] # failed[x]
        PROVE  /\ F[x] = failed[x] \cup {"CHILD"} /\ x \in known \ {Genesis}
               /\ F[Parent[x]] # {}
               /\ \E g \in failedBlocks : g \in Chain[x]
    <3>1. x \in Chain[p] \ Chain[f]
      BY <2>4, <2>8
    <3>2. /\ x \in known \ {Genesis} /\ f \in Chain[x]
          /\ Parent[x] \in Block /\ (Parent[x] \in Chain[p] \ Chain[f] \/ Parent[x] = f)
      BY <2>6, <3>1
    <3>3. F[Parent[x]] # {}
      <4>1. CASE Parent[x] = f
        <5>1. F[f] = failed[f] \/ F[f] = failed[f] \cup {"CHILD"}
          BY <2>4, <2>5
        <5> QED BY <2>5, <4>1, <5>1
      <4>2. CASE Parent[x] \in Chain[p] \ Chain[f]
        <5>1. F[Parent[x]] = failed[Parent[x]] \cup {"CHILD"}
          BY <2>4, <3>2, <4>2
        <5> QED BY <5>1
      <4> QED BY <3>2, <4>1, <4>2
    <3>4. F[x] = failed[x] \cup {"CHILD"}
      BY <2>4, <3>1
    <3>5. \E g \in failedBlocks : g \in Chain[x]
      BY <2>5, <3>2
    <3> QED BY <3>2, <3>3, <3>4, <3>5
  <2>9. \A x \in Block : F[x] = failed[x] \/ F[x] = failed[x] \cup {"CHILD"}
    BY <2>4
  <2> QED BY <2>7, <2>8, <2>9
<1> QED
  BY <1>1, <1>2

LEMMA RejectedSound ==
    ASSUME Sound, NEW t \in Thread, pc[t] = "idle", csMain = Null, NEW b \in Block,
           ~HeaderAccepted(b), failed' = FailedAfterReject(b),
           UNCHANGED <<known, level, haveData, linked, seq, addr, chainVars, threadVars, used>>
    PROVE  Sound'
<1> USE DEF Sound
<1>1. /\ failed' \in [Block -> SUBSET {"VALID", "CHILD"}]
      /\ \A x \in Block : failed[x] \subseteq failed'[x]
      /\ \A x \in Block : failed'[x] # failed[x] =>
            x \in known \ {Genesis} /\ \E f \in failedBlocks : f \in Chain[x]
  BY RejectFacts
<1>2. \A x \in Block : (\A a \in Chain[x] : failed[a] = {}) => failed'[x] = {}
  <2>1. ASSUME NEW x \in Block, \A a \in Chain[x] : failed[a] = {} PROVE failed'[x] = {}
    <3>1. failed[x] = {}
      BY <2>1, Chains
    <3>2. ASSUME failed'[x] # failed[x] PROVE FALSE
      <4>1. PICK f \in failedBlocks : f \in Chain[x]
        BY <1>1, <3>2
      <4> QED BY <2>1, <4>1 DEF FailedBlocksMarked
    <3> QED BY <3>1, <3>2
  <2> QED BY <2>1
<1>3. TypeOK'
  BY <1>1 DEF TypeOK, chainVars, threadVars
<1>4. IndexSound'
  <2>1. \A a \in Block : failed'[a] # {} => a \in known \ {Genesis}
    BY <1>1 DEF IndexSound, TypeOK
  <2> QED BY <2>1 DEF IndexSound, chainVars
<1>5. ActiveSound'
  <2>1. \A a \in Chain[tip] : failed[a] = {}
    BY Chains DEF ActiveSound, ChainSound, IndexSound, TypeOK
  <2>2. \A a \in Chain[tip] : failed'[a] = {}
    BY <1>2, <2>1, Chains DEF TypeOK
  <2> QED BY <2>2 DEF ActiveSound, ChainSound, chainVars
<1>6. CandidatesSound'
  BY DEF CandidatesSound, Worse, chainVars
<1>7. FailedBlocksMarked'
  BY <1>1 DEF FailedBlocksMarked, TypeOK, chainVars
<1>8. ThreadsSound' /\ TargetSound' /\ InvalidateSound'
  <2>1. abc.mostWork # Null => \A a \in Chain[abc.mostWork] : failed'[a] = {}
    BY <1>2, Chains DEF TargetSound, TypeOK
  <2> QED BY <2>1, OuterFrame DEF threadVars, chainVars
<1> QED
  BY <1>3, <1>4, <1>5, <1>6, <1>7, <1>8

\* A header that is accepted is not marked, and the index has its parent.
LEMMA AcceptedFacts ==
    ASSUME Sound, NEW b \in Block, HeaderAccepted(b)
    PROVE  failed[b] = {} /\ (b = Genesis \/ Parent[b] \in known) /\ IsFiniteSet(known \cup {b})
<1>1. IsFiniteSet(known) /\ IsFiniteSet({b})
  BY FS_Singleton DEF Sound, IndexSound
<1>2. IsFiniteSet(known \cup {b})
  BY <1>1, FS_Union
<1> QED
  BY <1>2 DEF Sound, IndexSound, HeaderAccepted

\* The index with an accepted header, without data for it.
LEMMA AcceptedSound ==
    ASSUME Sound, NEW t \in Thread, pc[t] = "idle", csMain = Null, NEW b \in Block,
           HeaderAccepted(b), AddToBlockIndex(b),
           NEW l \in {Tree, Transactions, Scripts}, level' = [level EXCEPT ![b] = l],
           level[b] = l \/ (l = Tree /\ level[b] < Tree),
           \/ failed' = failed
           \/ /\ b \notin haveData /\ failed' = [failed EXCEPT ![b] = @ \cup {"VALID"}],
           pc' = pc \/ pc' = [pc EXCEPT ![t] = "abc"],
           UNCHANGED <<haveData, linked, seq, addr, candidates, unlinked, tip, bestInvalid,
                       failedBlocks, counters, holder, csMain, abc, inv, target, used>>
    PROVE  Sound'
<1> USE DEF Sound
<1>0. /\ failed[b] = {} /\ (b = Genesis \/ Parent[b] \in known) /\ IsFiniteSet(known \cup {b})
      /\ known' = known \cup {b} /\ bestHeader' \in {b, bestHeader}
  BY AcceptedFacts DEF AddToBlockIndex
<1>1. /\ failed' \in [Block -> SUBSET {"VALID", "CHILD"}]
      /\ \A a \in Block : a \in haveData \/ a # b => failed'[a] = failed[a]
      /\ \A a \in Block : failed[a] \subseteq failed'[a]
  BY DEF TypeOK
<1>2. /\ \A a \in Block : a # b => level'[a] = level[a]
      /\ level'[b] = l
  BY DEF TypeOK
<1>3. TypeOK'
  <2>1. pc' \in [Thread -> {"idle", "abc", "round", "find", "step", "stepped",
                           "invalidate", "disconnect", "mark"}]
    BY DEF TypeOK
  <2>2. level' \in [Block -> {Unknown, Tree, Transactions, Scripts}]
    BY DEF TypeOK
  <2> QED BY <1>0, <1>1, <2>1, <2>2 DEF TypeOK
<1>4. IndexSound'
  <2>1. \A a \in Block : a \in haveData <=> level'[a] >= Transactions
    BY <1>2 DEF IndexSound, TypeOK, Unknown, Tree, Transactions, Scripts
  <2>2. \A a \in Block : level'[a] = Scripts <=> level[a] = Scripts
    BY <1>2 DEF TypeOK, Unknown, Tree, Transactions, Scripts
  <2>3. \A a \in Block \ {Genesis} : Parent[a] \in Block
    BY Chains
  <2>4. \A a \in Block : failed'[a] # {} => a \in known' \ {Genesis}
    BY <1>0, <1>1 DEF IndexSound, TypeOK
  <2>5. \A a \in Block \ {Genesis} : level'[a] = Scripts =>
          a \notin ConnectInvalid /\ (Parent[a] = Genesis \/ level'[Parent[a]] = Scripts)
    BY <2>2, <2>3 DEF IndexSound
  <2> QED BY <1>0, <2>1, <2>4, <2>5 DEF IndexSound
<1>5. ActiveSound'
  <2>1. \A a \in Chain[tip] \ {Genesis} : failed'[a] = {} /\ level'[a] = Scripts
    <3>1. ASSUME NEW a \in Chain[tip] \ {Genesis} PROVE failed'[a] = {} /\ level'[a] = Scripts
      <4>1. a \in Block /\ a \in haveData /\ failed[a] = {} /\ level[a] = Scripts
        BY Chains DEF ActiveSound, ChainSound, TypeOK, IndexSound
      <4> QED BY <1>1, <1>2, <4>1 DEF Tree, Scripts
    <3> QED BY <3>1
  <2> QED BY <2>1 DEF ActiveSound, ChainSound
<1>6. CandidatesSound' /\ FailedBlocksMarked'
  BY <1>1, CandidatesFrame DEF FailedBlocksMarked, TypeOK
<1>7. ThreadsSound' /\ TargetSound' /\ InvalidateSound'
  <2>1. abc.mostWork # Null => \A a \in Chain[abc.mostWork] : failed'[a] = {}
    <3>1. ASSUME abc.mostWork # Null, NEW a \in Chain[abc.mostWork] PROVE failed'[a] = {}
      <4>1. abc.mostWork \in linked /\ failed[a] = {}
        BY <3>1 DEF TargetSound
      <4>2. a \in haveData /\ a \in Block
        BY <4>1, LinkedChain DEF IndexSound, TypeOK
      <4> QED BY <1>1, <4>1, <4>2
    <3> QED BY <3>1
  <2> QED BY <1>0, <2>1, OuterFrame
<1> QED
  BY <1>3, <1>4, <1>5, <1>6, <1>7

LEMMA ProcessNewBlockHeadersSound ==
    ASSUME Sound, NEW t \in Thread, NEW b \in Block, ProcessNewBlockHeaders(t, b)
    PROVE  Sound'
<1>0. /\ pc[t] = "idle" /\ csMain = Null /\ b \notin known
      /\ UNCHANGED <<haveData, linked, seq, addr, candidates, unlinked, tip, bestInvalid,
                     failedBlocks, counters, threadVars, used>>
  BY DEF ProcessNewBlockHeaders
<1>1. CASE HeaderAccepted(b)
  <2>1. AddToBlockIndex(b) /\ level' = [level EXCEPT ![b] = Tree] /\ UNCHANGED failed
    BY <1>1 DEF ProcessNewBlockHeaders
  <2>2. level[b] < Tree \/ level[b] = Tree
    BY <1>0 DEF Sound, IndexSound, TypeOK, Unknown, Tree, Transactions, Scripts
  <2>3. Tree \in {Tree, Transactions, Scripts}
    BY Zenon
  <2> QED BY <1>0, <1>1, <2>1, <2>2, <2>3, AcceptedSound DEF threadVars
<1>2. CASE ~HeaderAccepted(b)
  <2>1. failed' = FailedAfterReject(b) /\ UNCHANGED <<known, bestHeader, level>>
    BY <1>2 DEF ProcessNewBlockHeaders
  <2> QED BY <1>0, <1>2, <2>1, RejectedSound DEF chainVars
<1> QED
  BY <1>1, <1>2

\* The validity level of a block without failure marks.
LEMMA RaiseFacts ==
    ASSUME TypeOK, NEW b \in Block, failed[b] = {}
    PROVE  /\ \E l \in {Tree, Transactions, Scripts} :
                 /\ RaiseValidity(level, b, Tree) = [level EXCEPT ![b] = l]
                 /\ level[b] = l \/ (l = Tree /\ level[b] < Tree)
           /\ level[b] < Transactions =>
                 RaiseValidity(RaiseValidity(level, b, Tree), b, Transactions)
                    = [level EXCEPT ![b] = Transactions]
<1> DEFINE l == IF level[b] < Tree THEN Tree ELSE level[b]
<1>1. level[b] \in {Unknown, Tree, Transactions, Scripts} /\ level \in [Block -> Nat]
  BY DEF TypeOK, Unknown, Tree, Transactions, Scripts
<1>2. l \in {Tree, Transactions, Scripts} /\ (level[b] = l \/ (l = Tree /\ level[b] < Tree))
  <2>1. CASE level[b] = Unknown
    BY <2>1 DEF Unknown, Tree
  <2>2. CASE level[b] \in {Tree, Transactions, Scripts}
    <3>1. ~(level[b] < Tree)
      BY <2>2 DEF Tree, Transactions, Scripts
    <3>2. l = level[b]
      BY <3>1
    <3> HIDE DEF l
    <3> QED BY <2>2, <3>2 DEF Tree, Transactions, Scripts
  <2> QED BY <1>1, <2>1, <2>2
<1>3. RaiseValidity(level, b, Tree) = [level EXCEPT ![b] = l]
  BY <1>1 DEF RaiseValidity
<1>4. ASSUME level[b] < Transactions
      PROVE  RaiseValidity(RaiseValidity(level, b, Tree), b, Transactions)
                = [level EXCEPT ![b] = Transactions]
  <2>1. l < Transactions
    BY <1>1, <1>4 DEF Unknown, Tree, Transactions, Scripts
  <2> HIDE DEF l
  <2>2. [level EXCEPT ![b] = l][b] = l
    BY <1>1
  <2>3. RaiseValidity([level EXCEPT ![b] = l], b, Transactions)
          = [[level EXCEPT ![b] = l] EXCEPT ![b] = Transactions]
    BY <2>1, <2>2 DEF RaiseValidity
  <2> QED BY <1>1, <1>3, <2>3
<1> HIDE DEF l
<1> QED
  BY <1>2, <1>3, <1>4

\* The blocks that are linked when b arrives.
LEMMA NowLinkedFacts ==
    ASSUME Sound, NEW b \in Block, b \notin haveData, NEW S, S = NowLinked(b)
    PROVE  /\ b # Genesis /\ b \in S /\ S \in SUBSET Block
           /\ \A x \in S : x # b => x \in unlinked /\ x # Genesis /\ Parent[x] \in S
           /\ S \cap linked = {} /\ S \subseteq haveData \cup {b}
           /\ IsFiniteSet(S) /\ Cardinality(S) \in Nat
<1> USE DEF Sound
<1>1. b # Genesis /\ b \in S /\ S \in SUBSET Block
  BY Chains DEF NowLinked, IndexSound
<1>2. ASSUME NEW x \in S, x # b
      PROVE  x \in unlinked /\ x # Genesis /\ Parent[x] \in S
  <2>1. x \in Block /\ b \in Chain[x] /\ Chain[x] \ Chain[b] \subseteq unlinked
    BY DEF NowLinked
  <2>2. x \in Chain[x] /\ x \notin Chain[b] /\ x # Genesis
    BY <1>1, <1>2, <2>1, Chains
  <2>3. Parent[x] \in Block /\ Chain[x] = Chain[Parent[x]] \cup {x}
    BY <2>1, <2>2, Chains
  <2>4. b \in Chain[Parent[x]] /\ Chain[Parent[x]] \ Chain[b] \subseteq unlinked
    BY <1>2, <2>1, <2>3
  <2> QED BY <2>1, <2>2, <2>3, <2>4 DEF NowLinked
<1>3. S \cap linked = {} /\ S \subseteq haveData \cup {b}
  BY <1>2 DEF IndexSound
<1>4. IsFiniteSet(haveData)
  BY FS_Subset DEF IndexSound
<1>5. IsFiniteSet(haveData \cup {b})
  BY <1>4, FS_Singleton, FS_Union
<1>6. IsFiniteSet(S)
  BY <1>3, <1>5, FS_Subset
<1> QED
  BY <1>1, <1>2, <1>3, <1>6, FS_CardinalityType

\* The index, the candidates and the numbering after block data has arrived.
LEMMA ReceivedFacts ==
    ASSUME Sound, NEW b \in Block, b \notin haveData, ReceivedBlockTransactions(b)
    PROVE  /\ b # Genesis /\ haveData' = haveData \cup {b}
           /\ linked \subseteq linked' /\ linked' \subseteq haveData' /\ linked' \subseteq Block
           /\ \A x \in linked' \ {Genesis} : Parent[x] \in linked'
           /\ unlinked' \subseteq haveData' \ linked' /\ unlinked' \subseteq Block
           /\ seq' \in [Block -> Int]
           /\ \A x \in Block \ linked' : seq'[x] <= 0
           /\ \A x \in linked : seq'[x] = seq[x]
           /\ \A x \in Block : seq'[x] = seq[x] \/ seq'[x] >= 0
           /\ counters' \in [next : Nat, reverse : Int, preciousWork : Nat]
           /\ counters'.reverse = counters.reverse
           /\ candidates \subseteq candidates' /\ candidates' \subseteq linked'
           /\ \A x \in candidates' \ candidates : ~ComparesWorse(seq', addr, x, tip)
           /\ \A x \in linked' \ linked : ~ComparesWorse(seq', addr, x, tip) => x \in candidates'
<1> USE DEF Sound
<1>0. haveData' = haveData \cup {b} /\ b # Genesis
  BY NowLinkedFacts DEF ReceivedBlockTransactions
<1>1. CASE Parent[b] \in linked
  <2> DEFINE S == NowLinked(b)
  <2>1. /\ b \in S /\ S \in SUBSET Block
        /\ \A x \in S : x # b => x \in unlinked /\ x # Genesis /\ Parent[x] \in S
        /\ S \cap linked = {} /\ S \subseteq haveData \cup {b}
        /\ Cardinality(S) \in Nat
    BY NowLinkedFacts
  <2>2. PICK r \in QueueOrders(S) :
          /\ seq' = [x \in Block |-> IF x \in S THEN counters.next + r[x] ELSE seq[x]]
          /\ counters' = [counters EXCEPT !.next = @ + Cardinality(S)]
          /\ linked' = linked \cup S
          /\ unlinked' = UnlinkedWithout(S)
          /\ candidates' = candidates \cup TryAddBlockIndexCandidate(S, seq')
    BY <1>1 DEF ReceivedBlockTransactions
  <2> HIDE DEF S
  <2>3. \A x \in S : r[x] \in Nat
    BY <2>1 DEF QueueOrders
  <2>4. counters \in [next : Nat, reverse : Int, preciousWork : Nat]
    BY DEF TypeOK
  <2>5. seq' \in [Block -> Int]
    BY <2>2, <2>3, <2>4 DEF TypeOK
  <2>6. /\ counters' \in [next : Nat, reverse : Int, preciousWork : Nat]
        /\ counters'.reverse = counters.reverse
    BY <2>1, <2>2, <2>4
  <2>7. \A x \in linked' \ {Genesis} : Parent[x] \in linked'
    BY <1>1, <2>1, <2>2 DEF IndexSound
  <2>8. linked' \subseteq haveData' /\ linked' \subseteq Block
    BY <1>0, <2>1, <2>2 DEF IndexSound, TypeOK
  <2>9. unlinked' \subseteq haveData' \ linked' /\ unlinked' \subseteq Block
    BY <1>0, <2>1, <2>2 DEF IndexSound, TypeOK, UnlinkedWithout
  <2>10. \A x \in Block \ linked' : seq'[x] <= 0
    BY <2>1, <2>2 DEF IndexSound
  <2>11. \A x \in linked : seq'[x] = seq[x]
    BY <2>1, <2>2 DEF TypeOK
  <2>12. \A x \in Block : seq'[x] = seq[x] \/ seq'[x] >= 0
    BY <2>2, <2>3, <2>4
  <2>13. /\ candidates \subseteq candidates' /\ candidates' \subseteq linked'
         /\ \A x \in candidates' \ candidates : ~ComparesWorse(seq', addr, x, tip)
         /\ \A x \in linked' \ linked : ~ComparesWorse(seq', addr, x, tip) => x \in candidates'
    BY <2>2 DEF CandidatesSound, TryAddBlockIndexCandidate
  <2> QED BY <1>0, <2>2, <2>5, <2>6, <2>7, <2>8, <2>9, <2>10, <2>11, <2>12, <2>13
<1>2. CASE Parent[b] \notin linked
  <2>1. unlinked' = UnlinkedWith(b) /\ UNCHANGED <<seq, counters, linked, candidates>>
    BY <1>2 DEF ReceivedBlockTransactions
  <2>2. unlinked' \subseteq haveData' \ linked' /\ unlinked' \subseteq Block
    BY <1>0, <2>1 DEF UnlinkedWith, IndexSound, TypeOK
  <2>3. candidates' \subseteq linked'
    BY <2>1 DEF CandidatesSound
  <2> QED BY <1>0, <2>1, <2>2, <2>3 DEF IndexSound, TypeOK
<1> QED
  BY <1>1, <1>2

LEMMA ReceivedSound ==
    ASSUME Sound, NEW t \in Thread, pc[t] = "idle", csMain = Null, NEW b \in Block,
           HeaderAccepted(b), AddToBlockIndex(b), b \notin haveData \cup CtxInvalid,
           level' = [level EXCEPT ![b] = Transactions], ReceivedBlockTransactions(b),
           pc' = [pc EXCEPT ![t] = "abc"], failed' = failed,
           UNCHANGED <<addr, tip, bestInvalid, failedBlocks, holder, csMain, abc, inv,
                       target, used>>
    PROVE  Sound'
<1> USE DEF Sound
<1>0. /\ failed[b] = {} /\ (b = Genesis \/ Parent[b] \in known) /\ IsFiniteSet(known \cup {b})
      /\ known' = known \cup {b} /\ bestHeader' \in {b, bestHeader}
  BY AcceptedFacts DEF AddToBlockIndex
<1>1. /\ b # Genesis /\ haveData' = haveData \cup {b}
      /\ linked \subseteq linked' /\ linked' \subseteq haveData' /\ linked' \subseteq Block
      /\ \A x \in linked' \ {Genesis} : Parent[x] \in linked'
      /\ unlinked' \subseteq haveData' \ linked' /\ unlinked' \subseteq Block
      /\ seq' \in [Block -> Int] /\ \A x \in Block \ linked' : seq'[x] <= 0
      /\ \A x \in linked : seq'[x] = seq[x]
      /\ counters' \in [next : Nat, reverse : Int, preciousWork : Nat]
      /\ counters'.reverse = counters.reverse
      /\ candidates' \subseteq linked'
      /\ \A x \in candidates' \ candidates : ~ComparesWorse(seq', addr, x, tip)
  BY ReceivedFacts
<1>2. level'[b] = Transactions /\ \A a \in Block : a # b => level'[a] = level[a]
  BY DEF TypeOK
<1>3. TypeOK'
  <2>1. pc' \in [Thread -> {"idle", "abc", "round", "find", "step", "stepped",
                           "invalidate", "disconnect", "mark"}]
    BY DEF TypeOK
  <2>2. level' \in [Block -> {Unknown, Tree, Transactions, Scripts}]
    BY DEF TypeOK
  <2> QED BY <1>0, <1>1, <2>1, <2>2 DEF TypeOK
<1>4. IndexSound'
  <2>1. \A a \in Block : a \in haveData' <=> level'[a] >= Transactions
    BY <1>1, <1>2 DEF IndexSound, Transactions
  <2>2. \A a \in Block : level'[a] = Scripts <=> level[a] = Scripts
    BY <1>2 DEF IndexSound, TypeOK, Transactions, Scripts
  <2>3. \A a \in Block \ {Genesis} : Parent[a] \in Block
    BY Chains
  <2>4. \A a \in Block \ {Genesis} : level'[a] = Scripts =>
          a \notin ConnectInvalid /\ (Parent[a] = Genesis \/ level'[Parent[a]] = Scripts)
    BY <2>2, <2>3 DEF IndexSound
  <2>5. \A a \in known' \ {Genesis} : Parent[a] \in known'
    BY <1>0 DEF IndexSound
  <2> QED BY <1>0, <1>1, <2>1, <2>4, <2>5 DEF IndexSound
<1>5. ActiveSound'
  <2>1. \A a \in Chain[tip] \ {Genesis} : failed'[a] = {} /\ level'[a] = Scripts
    <3>1. ASSUME NEW a \in Chain[tip] \ {Genesis} PROVE failed'[a] = {} /\ level'[a] = Scripts
      <4>1. a \in Block /\ a \in haveData /\ failed[a] = {} /\ level[a] = Scripts
        BY Chains DEF ActiveSound, ChainSound, TypeOK, IndexSound
      <4> QED BY <1>2, <4>1
    <3> QED BY <3>1
  <2> QED BY <1>1, <2>1 DEF ActiveSound, ChainSound
<1>6. CandidatesSound'
  <2>1. tip \in linked /\ tip \in Block
    BY Chains DEF ActiveSound, ChainSound, TypeOK
  <2>2. \A x \in candidates : ~ComparesWorse(seq', addr, x, tip)
    BY <1>1, <2>1 DEF CandidatesSound, Worse, ComparesWorse
  <2> QED BY <1>1, <2>2 DEF CandidatesSound, Worse
<1>7. FailedBlocksMarked'
  BY MarkedFrame
<1>8. ThreadsSound' /\ TargetSound' /\ InvalidateSound'
  <2>1. abc.mostWork # Null => \A a \in Chain[abc.mostWork] : failed'[a] = {}
    BY DEF TargetSound
  <2>2. known \subseteq known'
    BY <1>0
  <2> QED BY <1>1, <2>1, <2>2, OuterFrame
<1> QED
  BY <1>3, <1>4, <1>5, <1>6, <1>7, <1>8

LEMMA ProcessNewBlockSound ==
    ASSUME Sound, NEW t \in Thread, NEW b \in Block, NEW requested \in BOOLEAN,
           ProcessNewBlock(t, b, requested)
    PROVE  Sound'
<1> DEFINE lv == RaiseValidity(level, b, Tree)
           go == requested \/ ProcessUnrequested(b)
<1>0. /\ pc[t] = "idle" /\ csMain = Null
      /\ UNCHANGED <<addr, tip, bestInvalid, failedBlocks, holder, csMain, abc, inv, target, used>>
  BY DEF ProcessNewBlock
<1>1. CASE /\ ~HeaderAccepted(b) /\ failed' = FailedAfterReject(b)
           /\ UNCHANGED <<known, bestHeader, level, haveData, linked, seq, candidates,
                          unlinked, counters, pc>>
  BY <1>0, <1>1, RejectedSound DEF chainVars, threadVars
<1>2. CASE /\ HeaderAccepted(b) /\ AddToBlockIndex(b)
           /\ b \in haveData \/ ~go
           /\ level' = lv /\ ToActivate(t)
           /\ UNCHANGED <<failed, haveData, linked, seq, candidates, unlinked, counters>>
  <2>1. PICK l \in {Tree, Transactions, Scripts} :
          /\ lv = [level EXCEPT ![b] = l] /\ (level[b] = l \/ (l = Tree /\ level[b] < Tree))
    BY <1>2, AcceptedFacts, RaiseFacts DEF Sound
  <2>2. level' = [level EXCEPT ![b] = l]
    BY <1>2, <2>1
  <2>3. /\ HeaderAccepted(b) /\ AddToBlockIndex(b)
        /\ failed' = failed
        /\ pc' = [pc EXCEPT ![t] = "abc"]
        /\ UNCHANGED <<haveData, linked, seq, addr, candidates, unlinked, tip, bestInvalid,
                       failedBlocks, counters, holder, csMain, abc, inv, target, used>>
    BY <1>0, <1>2 DEF ToActivate
  <2> QED BY <1>0, <2>1, <2>2, <2>3, AcceptedSound DEF Tree, Transactions, Scripts
<1>3. CASE /\ HeaderAccepted(b) /\ AddToBlockIndex(b)
           /\ b \notin haveData /\ go /\ b \in CtxInvalid
           /\ level' = lv /\ failed' = [failed EXCEPT ![b] = @ \cup {"VALID"}]
           /\ UNCHANGED <<haveData, linked, seq, candidates, unlinked, counters, pc>>
  <2>1. PICK l \in {Tree, Transactions, Scripts} :
          /\ lv = [level EXCEPT ![b] = l] /\ (level[b] = l \/ (l = Tree /\ level[b] < Tree))
    BY <1>3, AcceptedFacts, RaiseFacts DEF Sound
  <2>2. level' = [level EXCEPT ![b] = l]
    BY <1>3, <2>1
  <2>3. /\ HeaderAccepted(b) /\ AddToBlockIndex(b)
        /\ b \notin haveData /\ failed' = [failed EXCEPT ![b] = @ \cup {"VALID"}]
        /\ pc' = pc
        /\ UNCHANGED <<haveData, linked, seq, addr, candidates, unlinked, tip, bestInvalid,
                       failedBlocks, counters, holder, csMain, abc, inv, target, used>>
    BY <1>0, <1>3
  <2> QED BY <1>0, <2>1, <2>2, <2>3, AcceptedSound DEF Tree, Transactions, Scripts
<1>4. CASE /\ HeaderAccepted(b) /\ AddToBlockIndex(b)
           /\ b \notin haveData /\ go /\ b \notin CtxInvalid
           /\ level' = RaiseValidity(lv, b, Transactions)
           /\ ReceivedBlockTransactions(b) /\ ToActivate(t) /\ UNCHANGED failed
  <2>1. level[b] < Transactions
    BY <1>4 DEF Sound, IndexSound, TypeOK, Unknown, Tree, Transactions, Scripts
  <2>2. level' = [level EXCEPT ![b] = Transactions]
    BY <1>4, <2>1, AcceptedFacts, RaiseFacts DEF Sound
  <2> QED BY <1>0, <1>4, <2>2, ReceivedSound DEF ToActivate
<1> QED
  BY <1>1, <1>2, <1>3, <1>4 DEF ProcessNewBlock

\* The number that PreciousBlock gives.
PreciousId == IF Work[tip] > counters.preciousWork THEN -1 ELSE counters.reverse

LEMMA PreciousBlockSound ==
    ASSUME Sound, NEW t \in Thread, NEW b \in Block, PreciousBlock(t, b)
    PROVE  Sound'
<1> USE DEF Sound
<1>0. /\ pc[t] = "idle" /\ csMain = Null /\ b \in known
      /\ seq' = [seq EXCEPT ![b] = PreciousId]
      /\ counters' = [counters EXCEPT !.reverse = PreciousId - 1, !.preciousWork = Work[tip]]
      /\ candidates' = IF IsValid(b, Transactions) /\ b \in linked
                       THEN PruneBlockIndexCandidates(candidates \cup {b}, seq', addr, tip)
                       ELSE candidates \ {b}
      /\ pc' = [pc EXCEPT ![t] = "abc"]
      /\ UNCHANGED <<known, level, failed, haveData, linked, addr, unlinked, tip, bestHeader,
                     bestInvalid, failedBlocks, holder, csMain, abc, inv, target>>
  BY DEF PreciousBlock, ToActivate, PreciousId
<1>1. used' \in [commands : Nat, restarts : Nat]
  BY CommandTypes DEF PreciousBlock
<1>2. /\ PreciousId \in Int /\ PreciousId < 0
      /\ counters' \in [next : Nat, reverse : Int, preciousWork : Nat] /\ counters'.reverse < 0
  <2>1. /\ counters \in [next : Nat, reverse : Int, preciousWork : Nat] /\ counters.reverse < 0
        /\ Work[tip] \in Nat
    BY Constants DEF TypeOK, IndexSound
  <2>2. PreciousId \in Int /\ PreciousId < 0
    BY <2>1 DEF PreciousId
  <2>3. PreciousId - 1 \in Int /\ PreciousId - 1 < 0
    BY <2>2
  <2> QED BY <1>0, <2>1, <2>2, <2>3
<1>3. /\ seq' \in [Block -> Int] /\ seq'[b] = PreciousId
      /\ \A a \in Block : a # b => seq'[a] = seq[a]
  BY <1>0, <1>2 DEF TypeOK
<1>4. tip \in linked /\ tip \in Block /\ IsValid(tip, Transactions)
  BY Chains DEF ActiveSound, ChainSound, IndexSound, IsValid, TypeOK
<1>5. ASSUME IsValid(b, Transactions) /\ b \in linked PROVE CandidatesSound'
  <2>1. candidates' \subseteq linked /\ \A c \in candidates' : ~ComparesWorse(seq', addr, c, tip)
    BY <1>0, <1>5 DEF PruneBlockIndexCandidates, CandidatesSound
  <2> QED BY <1>0, <2>1 DEF CandidatesSound, Worse, TypeOK
<1>6. ASSUME ~(IsValid(b, Transactions) /\ b \in linked) PROVE CandidatesSound'
  <2>1. b # tip /\ candidates' = candidates \ {b}
    BY <1>0, <1>4, <1>6
  <2>2. \A c \in candidates' : c \in linked /\ ~ComparesWorse(seq', addr, c, tip)
    BY <1>3, <1>4, <2>1 DEF CandidatesSound, Worse, ComparesWorse, TypeOK
  <2> QED BY <1>0, <2>2 DEF CandidatesSound, Worse, TypeOK
<1>7. CandidatesSound'
  BY <1>5, <1>6
<1>8. TypeOK'
  <2>1. pc' \in [Thread -> {"idle", "abc", "round", "find", "step", "stepped",
                           "invalidate", "disconnect", "mark"}]
    BY <1>0 DEF TypeOK
  <2>2. candidates' \subseteq Block
    BY <1>0, <1>7 DEF CandidatesSound, TypeOK
  <2> QED BY <1>0, <1>1, <1>2, <1>3, <2>1, <2>2 DEF TypeOK
<1>9. IndexSound'
  <2>1. \A a \in Block \ linked : seq'[a] <= 0
    BY <1>2, <1>3 DEF IndexSound
  <2> QED BY <1>0, <1>2, <2>1 DEF IndexSound
<1>10. ActiveSound' /\ FailedBlocksMarked'
  BY <1>0, ActiveFrame, MarkedFrame
<1>11. ThreadsSound' /\ TargetSound' /\ InvalidateSound'
  <2>1. abc.mostWork # Null => \A a \in Chain[abc.mostWork] : failed'[a] = {}
    BY <1>0 DEF TargetSound
  <2> QED BY <1>0, <2>1, OuterFrame
<1> QED
  BY <1>7, <1>8, <1>9, <1>10, <1>11

LEMMA ReconsiderBlockSound ==
    ASSUME Sound, NEW t \in Thread, NEW b \in Block, ReconsiderBlock(t, b)
    PROVE  Sound'
<1> DEFINE below == {x \in known : b \in Chain[x] /\ ~IsValid(x, Transactions)}
           reset == below \cup Chain[b]
<1> USE DEF Sound
<1>0. /\ pc[t] = "idle" /\ csMain = Null /\ b \in known
      /\ failed' = [x \in Block |-> IF x \in reset THEN {} ELSE failed[x]]
      /\ candidates' = candidates \cup {x \in below : /\ level[x] >= Transactions
                                                      /\ x \in linked /\ Worse(tip, x)}
      /\ bestInvalid' = IF bestInvalid \in below THEN Null ELSE bestInvalid
      /\ failedBlocks' = FailedBlocksWithout(below, b)
      /\ pc' = [pc EXCEPT ![t] = "abc"]
      /\ UNCHANGED <<known, level, haveData, linked, seq, addr, unlinked, tip, bestHeader,
                     counters, holder, csMain, abc, inv, target>>
  BY DEF ReconsiderBlock, ToActivate
<1>1. used' \in [commands : Nat, restarts : Nat]
  BY CommandTypes DEF ReconsiderBlock
<1>2. \A x \in Block : failed'[x] = {} \/ (failed'[x] = failed[x] /\ x \notin reset)
  BY <1>0
<1>3. failedBlocks' \subseteq failedBlocks /\ failedBlocks' \cap reset = {}
  <2>1. failedBlocks' = failedBlocks \ (below \cup {x \in Chain[b] : failed[x] # {}})
    BY <1>0 DEF FailedBlocksWithout
  <2>2. \A x \in failedBlocks : failed[x] # {}
    BY DEF FailedBlocksMarked
  <2> QED BY <2>1, <2>2
<1>4. /\ candidates' \subseteq linked
      /\ \A x \in candidates' : x \in candidates \/ (x \in linked /\ Worse(tip, x))
  BY <1>0 DEF CandidatesSound
<1> HIDE DEF reset, below
<1>5. TypeOK'
  <2>1. failed' \in [Block -> SUBSET {"VALID", "CHILD"}]
    BY <1>0 DEF TypeOK
  <2>2. pc' \in [Thread -> {"idle", "abc", "round", "find", "step", "stepped",
                           "invalidate", "disconnect", "mark"}]
    BY <1>0 DEF TypeOK
  <2>3. bestInvalid' \in Block \cup {Null}
    BY <1>0 DEF TypeOK
  <2> QED BY <1>0, <1>1, <1>3, <1>4, <2>1, <2>2, <2>3 DEF TypeOK
<1>6. IndexSound'
  <2>1. \A a \in Block : failed'[a] # {} => a \in known \ {Genesis}
    BY <1>2 DEF IndexSound
  <2> QED BY <1>0, <2>1 DEF IndexSound
<1>7. ActiveSound'
  <2>1. \A a \in Chain[tip] \ {Genesis} : failed'[a] = {} /\ level'[a] = Scripts
    BY <1>0, <1>2, Chains DEF ActiveSound, ChainSound, TypeOK
  <2> QED BY <1>0, <2>1 DEF ActiveSound, ChainSound
<1>8. CandidatesSound'
  <2>1. \A x \in candidates' : ~Worse(x, tip)
    BY <1>4, WorseFacts DEF CandidatesSound, IndexSound, TypeOK
  <2> QED BY <1>0, <1>4, <2>1 DEF CandidatesSound, Worse
<1>9. FailedBlocksMarked'
  BY <1>0, <1>3 DEF FailedBlocksMarked, TypeOK
<1>10. ThreadsSound' /\ TargetSound' /\ InvalidateSound'
  <2>1. abc.mostWork # Null => \A a \in Chain[abc.mostWork] : failed'[a] = {}
    BY <1>2, Chains DEF TargetSound, TypeOK
  <2> QED BY <1>0, <2>1, OuterFrame
<1> QED
  BY <1>5, <1>6, <1>7, <1>8, <1>9, <1>10

\* The index after a restart.
LEMMA ReloadFacts ==
    ASSUME Sound, NEW t \in Thread, Restart(t)
    PROVE  /\ addr' \in Addresses /\ seq' = [b \in Block |-> 0]
           /\ linked' = {b \in known : Chain[b] \subseteq haveData}
           /\ unlinked' = haveData \ linked'
           /\ linked \subseteq linked' /\ linked' \subseteq haveData
           /\ \A b \in linked' \ {Genesis} : Parent[b] \in linked'
           /\ failed' \in [Block -> SUBSET {"VALID", "CHILD"}]
           /\ \A b \in Block : failed'[b] # failed[b] =>
                 /\ b \in known \ {Genesis} /\ failed[b] = {} /\ failed'[b] = {"CHILD"}
                 /\ \E a \in Chain[b] : failed[a] # {}
           /\ \A b \in known : (\E a \in Chain[b] : failed[a] # {}) => failed'[b] # {}
<1> USE DEF Sound
<1>1. /\ addr' \in Addresses /\ seq' = [b \in Block |-> 0]
      /\ linked' = {b \in known : Chain[b] \subseteq haveData}
      /\ unlinked' = haveData \ linked'
      /\ failed' = [b \in Block |->
                      IF b \in known /\ failed[b] = {} /\ \E a \in Chain[b] : failed[a] # {}
                      THEN {"CHILD"} ELSE failed[b]]
  BY DEF Restart, ReloadIndex
<1>2. linked \subseteq linked'
  BY <1>1, LinkedChain DEF IndexSound
<1>3. linked' \subseteq haveData
  BY <1>1, Chains DEF TypeOK
<1>4. ASSUME NEW b \in linked' \ {Genesis} PROVE Parent[b] \in linked'
  <2>1. b \in Block \ {Genesis} /\ Parent[b] \in known /\ Chain[b] \subseteq haveData
    BY <1>1 DEF IndexSound, TypeOK
  <2>2. Chain[Parent[b]] \subseteq Chain[b]
    BY <2>1, Chains
  <2> QED BY <1>1, <2>1, <2>2
<1>5. failed' \in [Block -> SUBSET {"VALID", "CHILD"}]
  BY <1>1 DEF TypeOK
<1>6. ASSUME NEW b \in Block, failed'[b] # failed[b]
      PROVE  /\ b \in known \ {Genesis} /\ failed[b] = {} /\ failed'[b] = {"CHILD"}
             /\ \E a \in Chain[b] : failed[a] # {}
  <2>1. /\ b \in known /\ failed[b] = {} /\ failed'[b] = {"CHILD"}
        /\ \E a \in Chain[b] : failed[a] # {}
    BY <1>1, <1>6
  <2>2. b # Genesis
    BY <2>1, Chains DEF IndexSound
  <2> QED BY <2>1, <2>2
<1>7. \A b \in known : (\E a \in Chain[b] : failed[a] # {}) => failed'[b] # {}
  BY <1>1 DEF TypeOK
<1> QED
  BY <1>1, <1>2, <1>3, <1>4, <1>5, <1>6, <1>7

LEMMA RestartSound ==
    ASSUME Sound, NEW t \in Thread, Restart(t)
    PROVE  Sound'
<1> DEFINE valid == {b \in linked' : failed'[b] = {}}
           bad == {b \in known : failed'[b] # {}}
           header == CHOOSE b \in known \ bad :
                       \A c \in known \ bad : ~ComparesWorse(seq', addr', b, c)
<1> USE DEF Sound
<1>0. /\ \A u \in Thread : pc[u] = "idle"
      /\ used' = [used EXCEPT !.restarts = @ + 1]
      /\ candidates' = PruneBlockIndexCandidates(valid, seq', addr', tip)
      /\ IF bad = {} THEN bestInvalid' = Null
         ELSE bestInvalid' \in {b \in bad : \A c \in bad : Work[c] <= Work[b]}
      /\ bestHeader' = header
      /\ counters' = [next |-> 1, reverse |-> -1, preciousWork |-> 0]
      /\ failedBlocks' = {} /\ pc' = [pc EXCEPT ![t] = "abc"]
      /\ UNCHANGED <<known, level, haveData, tip, holder, csMain, abc, inv, target>>
  BY DEF Restart, ReloadCandidates, ToActivate
<1>1. /\ addr' \in Addresses /\ seq' = [b \in Block |-> 0]
      /\ linked' = {b \in known : Chain[b] \subseteq haveData}
      /\ unlinked' = haveData \ linked'
      /\ linked \subseteq linked' /\ linked' \subseteq haveData
      /\ \A b \in linked' \ {Genesis} : Parent[b] \in linked'
      /\ failed' \in [Block -> SUBSET {"VALID", "CHILD"}]
      /\ \A b \in Block : failed'[b] # failed[b] =>
            b \in known \ {Genesis} /\ \E a \in Chain[b] : failed[a] # {}
  BY ReloadFacts
<1>2. csMain = Null
  <2>1. \A u \in Thread : pc[u] \notin Inner
    BY <1>0 DEF Inner
  <2> QED BY <2>1 DEF ThreadsSound, TypeOK
<1>3. abc.mostWork = Null
  BY <1>0 DEF TargetSound, Activating, Inner
<1>4. bestHeader' \in Block
  <2>1. Genesis \in known \ bad /\ known \ bad \in SUBSET Block
    <3>1. Genesis \in known /\ failed[Genesis] = {} /\ Genesis \in Block
      BY Chains DEF IndexSound
    <3> QED BY <1>1, <3>1 DEF TypeOK
  <2>2. IsFiniteSet(known \ bad)
    BY FS_Subset DEF IndexSound
  <2>3. seq' \in [Block -> Int]
    BY <1>1
  <2>4. \E b \in known \ bad : \A c \in known \ bad : ~ComparesWorse(seq', addr', b, c)
    <3> HIDE DEF bad
    <3> QED BY <1>1, <2>1, <2>2, <2>3, BestExists
  <2> HIDE DEF bad
  <2> QED BY <1>0, <2>1, <2>4
<1>5. TypeOK'
  <2>1. /\ seq' \in [Block -> Int] /\ addr' \in [Block -> Nat]
        /\ linked' \subseteq Block /\ unlinked' \subseteq Block
    BY <1>1, Constants DEF TypeOK
  <2>2. counters' \in [next : Nat, reverse : Int, preciousWork : Nat]
    BY <1>0
  <2>3. used' \in [commands : Nat, restarts : Nat]
    BY <1>0 DEF TypeOK
  <2>4. bestInvalid' \in Block \cup {Null}
    BY <1>0 DEF TypeOK
  <2>5. candidates' \subseteq Block
    BY <1>0, <2>1 DEF PruneBlockIndexCandidates
  <2>6. pc' \in [Thread -> {"idle", "abc", "round", "find", "step", "stepped",
                           "invalidate", "disconnect", "mark"}]
    BY <1>0 DEF TypeOK
  <2> HIDE DEF header, bad, valid
  <2> QED BY <1>0, <1>1, <1>4, <2>1, <2>2, <2>3, <2>4, <2>5, <2>6 DEF TypeOK
<1>6. IndexSound'
  <2>1. \A a \in Block : failed'[a] # {} => a \in known \ {Genesis}
    BY <1>1 DEF IndexSound
  <2>2. Genesis \in linked' /\ unlinked' \subseteq haveData \ linked'
    BY <1>1 DEF IndexSound
  <2>3. \A a \in Block : seq'[a] <= 0
    BY <1>1
  <2>4. counters'.reverse < 0
    BY <1>0
  <2> HIDE DEF header, bad, valid
  <2> QED BY <1>0, <1>1, <2>1, <2>2, <2>3, <2>4 DEF IndexSound
<1>7. ActiveSound'
  <2>1. ASSUME NEW a \in Chain[tip] \ {Genesis} PROVE failed'[a] = {} /\ level'[a] = Scripts
    <3>1. a \in Block /\ Chain[a] \subseteq Chain[tip] /\ failed[a] = {} /\ level[a] = Scripts
      BY Chains DEF TypeOK, ActiveSound, ChainSound
    <3>2. \A c \in Chain[a] : failed[c] = {}
      BY <3>1, Chains DEF ActiveSound, ChainSound, IndexSound
    <3> QED BY <1>0, <1>1, <3>1, <3>2
  <2> QED BY <1>0, <1>1, <2>1 DEF ActiveSound, ChainSound
<1>8. CandidatesSound'
  <2>1. candidates' = {b \in valid : ~ComparesWorse(seq', addr', b, tip)}
    BY <1>0 DEF PruneBlockIndexCandidates
  <2> QED BY <1>0, <2>1 DEF CandidatesSound, Worse
<1>9. FailedBlocksMarked'
  BY <1>0 DEF FailedBlocksMarked
<1>10. ThreadsSound' /\ TargetSound' /\ InvalidateSound'
  <2>1. pc[t] = "idle" /\ abc.mostWork # Null => \A a \in Chain[abc.mostWork] : failed'[a] = {}
    BY <1>3
  <2> HIDE DEF header, bad, valid
  <2>2. pc[t] = "idle"
    BY <1>0
  <2> QED BY <1>0, <1>1, <1>2, <1>3, <2>2, OuterFrame
<1> QED
  BY <1>5, <1>6, <1>7, <1>8, <1>9, <1>10

\* One step of a behaviour.
LEMMA NextSound == Sound /\ [Next]_vars => Sound'
<1> SUFFICES ASSUME Sound, [Next]_vars PROVE Sound'
  OBVIOUS
<1>1. CASE UNCHANGED vars
  <2>1. UNCHANGED <<indexVars, chainVars, threadVars, used>>
    BY <1>1 DEF vars
  <2> QED BY <2>1 DEF Sound, TypeOK, IndexSound, ActiveSound, ChainSound, CandidatesSound,
             FailedBlocksMarked, ThreadsSound, TargetSound, InvalidateSound, Worse,
             indexVars, chainVars, threadVars
<1>2. ASSUME NEW t \in Thread, NEW b \in Block, ProcessNewBlockHeaders(t, b) PROVE Sound'
  BY <1>2, ProcessNewBlockHeadersSound
<1>3. ASSUME NEW t \in Thread, NEW b \in Block, NEW requested \in BOOLEAN,
             ProcessNewBlock(t, b, requested)
      PROVE  Sound'
  BY <1>3, ProcessNewBlockSound
<1>4. ASSUME NEW t \in Thread, NEW b \in Block, PreciousBlock(t, b) PROVE Sound'
  BY <1>4, PreciousBlockSound
<1>5. ASSUME NEW t \in Thread, NEW b \in Block, InvalidateBlock(t, b) PROVE Sound'
  BY <1>5, InvalidateBlockSound
<1>6. ASSUME NEW t \in Thread, NEW b \in Block, ReconsiderBlock(t, b) PROVE Sound'
  BY <1>6, ReconsiderBlockSound
<1>7. ASSUME NEW t \in Thread, Restart(t) PROVE Sound'
  BY <1>7, RestartSound
<1>8. ASSUME NEW t \in Thread, Run(t) PROVE Sound'
  BY <1>8, AbcEnterSound, AbcRoundSound, DropCandidateSound, DecideSound, DisconnectTipSound,
     ConnectTipSound, ConnectTipFailsSound, AfterStepSound, InvalidateEnterSound,
     InvalidateDisconnectSound, InvalidateLeaveLoopSound, InvalidateMarkSound DEF Run
<1> QED
  BY <1>1, <1>2, <1>3, <1>4, <1>5, <1>6, <1>7, <1>8 DEF Next

\* The invariant holds of every behaviour, whatever the commands.
THEOREM SoundInvariant == Spec => []Sound
<1>1. Init => Sound
  BY InitSound
<1>2. Sound /\ [Next]_vars => Sound'
  BY NextSound
<1> QED
  BY <1>1, <1>2, PTL DEF Spec

\* Every variable keeps its type.
THEOREM TypeInvariant == Spec => []TypeOK
<1>1. Sound => TypeOK
  BY DEF Sound
<1> QED
  BY <1>1, SoundInvariant, PTL

\* The assert of AcceptBlockHeader: what is in m_failed_blocks is marked.
THEOREM FailedBlocksAreMarked == Spec => []FailedBlocksMarked
<1>1. Sound => FailedBlocksMarked
  BY DEF Sound
<1> QED
  BY <1>1, SoundInvariant, PTL

\* The active chain is complete, connected and unmarked at every moment.
THEOREM ActiveChainIsValid == Spec => []ActiveChainValid
<1>1. Sound => ActiveChainValid
  <2> SUFFICES ASSUME Sound PROVE ActiveChainValid
    OBVIOUS
  <2>1. ASSUME NEW b \in Chain[tip] \ {Genesis}
        PROVE  failed[b] = {} /\ level[b] = Scripts /\ b \notin ConnectInvalid \cup CtxInvalid
    <3>1. b \in Block /\ b \in haveData /\ failed[b] = {} /\ level[b] = Scripts
      BY Chains DEF Sound, ActiveSound, ChainSound, IndexSound, TypeOK
    <3> QED BY <3>1 DEF Sound, IndexSound
  <2> QED BY <2>1 DEF Sound, ActiveSound, ChainSound, ActiveChainValid
<1> QED
  BY <1>1, SoundInvariant, PTL

\* The target of ActivateBestChain stays usable while cs_main is released.
THEOREM MostWorkIsUsable == Spec => []MostWorkUsable
<1>1. Sound => MostWorkUsable
  BY DEF Sound, TargetSound, MostWorkUsable
<1> QED
  BY <1>1, SoundInvariant, PTL

\* At every moment at which CheckBlockIndex may run, no candidate is unlinked
\* or worse than the tip, and what waits in m_blocks_unlinked is not linked.
THEOREM CandidatesAreSound == Spec => [](CandidatesNotWorse /\ UnlinkedSound)
<1>1. Sound => CandidatesNotWorse /\ UnlinkedSound
  BY DEF Sound, CandidatesSound, IndexSound, CandidatesNotWorse, UnlinkedSound
<1> QED
  BY <1>1, SoundInvariant, PTL
-----------------------------------------------------------------------------
(***************************************************************************)
(* No better chain is forgotten.  reconsiderblock is left out, because it  *)
(* clears marks of blocks that it does not make candidates again; and so   *)
(* is a third preciousblock, which may give the tip a number above the one *)
(* it has, and so make a block better that has been pruned as worse.       *)
(***************************************************************************)
Orderly ==
    /\ "reconsiderblock" \notin Commands
    /\ "preciousblock" \notin Commands \/ MaxCommands <= 2

Usable(b) == b \in linked /\ NoInvalid(b)

\* A mark has its reason.
FailedInvalid == \A b \in Block : failed[b] # {} => ~NoInvalid(b)

\* Before the second call, preciousblock gives no number below -1.
PreciousNumbers ==
    "preciousblock" \in Commands =>
        /\ used.commands = 0 => counters.reverse = -1
        /\ used.commands <= 1 => \A b \in Block : seq[b] >= -1

\* A round goes down from the tip it started with only towards a better one.
RoundProgress ==
    \A t \in Thread :
        /\ pc[t] \in Inner =>
              /\ ChainSound(abc.startTip)
              /\ abc.mostWork # Null => ~Worse(abc.mostWork, abc.startTip)
              /\ pc[t] = "find" => ~Worse(abc.startTip, tip) /\ abc.mostWork # tip
              /\ pc[t] = "step" /\ tip \notin Chain[abc.mostWork] => ~Worse(abc.startTip, tip)
        /\ pc[t] = "round" => abc.mostWork # tip

\* The blocks that are better than the tip are candidates; inside a round, where
\* the tip goes down, those that are better than the tip it started with.
CandidatesKept ==
    /\ csMain = Null /\ (\A t \in Thread : pc[t] \notin Invalidating) =>
          \A b \in Block : Usable(b) /\ ~Worse(b, tip) => b \in candidates
    /\ csMain # Null =>
          \A b \in Block : Usable(b) /\ ~Worse(b, tip) /\ ~Worse(b, abc.startTip)
                              => b \in candidates

\* Nothing is better than the target, or someone is going to look again.
TargetBest ==
    abc.mostWork # Null =>
        \/ \E t \in Thread : pc[t] = "abc"
        \/ \A b \in Block : Usable(b) => ~Worse(abc.mostWork, b)

\* Nobody has anything left to do only if nothing is better than the tip.
Settled ==
    (\A t \in Thread : pc[t] \in {"idle", "invalidate"}) =>
        \A b \in Block : Usable(b) => ~Worse(tip, b)

Complete ==
    /\ FailedInvalid /\ PreciousNumbers /\ RoundProgress /\ CandidatesKept
    /\ TargetBest /\ Settled

LEMMA InitComplete == Init => Complete
<1> SUFFICES ASSUME Init PROVE Complete
  OBVIOUS
<1>0. Sound
  BY InitSound
<1>1. FailedInvalid
  BY DEF Init, FailedInvalid
<1>2. PreciousNumbers
  BY DEF Init, PreciousNumbers
<1>3. RoundProgress /\ TargetBest
  BY DEF Init, RoundProgress, TargetBest, NoAbc, Inner
<1>4. \A b \in Block : Usable(b) => b = Genesis
  BY DEF Init, Usable
<1>5. CandidatesKept
  BY <1>4 DEF Init, CandidatesKept
<1>6. Settled
  <2>1. ~Worse(Genesis, Genesis)
    BY <1>0, Chains, WorseFacts DEF Sound, IndexSound
  <2> QED BY <1>4, <2>1 DEF Init, Settled
<1> QED
  BY <1>1, <1>2, <1>3, <1>5, <1>6 DEF Complete

\* A step that keeps the invalid marks and links nothing makes no block usable.
LEMMA UsableShrinks ==
    ASSUME linked' = linked, \A a \in Block : "VALID" \in failed[a] => "VALID" \in failed'[a]
    PROVE  /\ \A b \in Block : NoInvalid(b)' => NoInvalid(b)
           /\ \A b \in Block : Usable(b)' => Usable(b)
<1>1. \A b \in Block : Chain[b] \subseteq Block
  BY Chains
<1> QED
  BY <1>1 DEF Usable, NoInvalid

\* Steps that leave the index, the candidates and the tip alone.
LEMMA QuietFrame ==
    ASSUME FailedInvalid, UNCHANGED <<indexVars, chainVars>>
    PROVE  /\ FailedInvalid'
           /\ \A b \in Block : Usable(b)' <=> Usable(b)
           /\ \A a, b \in Block : Worse(a, b)' <=> Worse(a, b)
           /\ \A b \in Block : ChainSound(b)' <=> ChainSound(b)
BY DEF FailedInvalid, NoInvalid, Usable, Worse, ChainSound, indexVars, chainVars

\* What holds of the tip that a round started with.
LEMMA StartFacts ==
    ASSUME Sound, Complete, NEW t \in Thread, pc[t] \in Inner
    PROVE  /\ csMain = t /\ holder = t /\ \A u \in Thread : u # t => pc[u] \notin Holding
           /\ abc.startTip \in Block /\ Usable(abc.startTip)
           /\ pc[t] = "find" => abc.startTip \in candidates
<1>1. csMain = t /\ holder = t /\ \A u \in Thread : u # t => pc[u] \notin Holding
  BY DEF Sound, ThreadsSound, Holding, Activating
<1>2. abc.startTip \in Block /\ ChainSound(abc.startTip)
  BY DEF Sound, TargetSound, Complete, RoundProgress
<1>3. Usable(abc.startTip)
  <2>1. \A a \in Chain[abc.startTip] : failed[a] = {}
    BY <1>2, Chains DEF ChainSound, Sound, IndexSound, TypeOK
  <2> QED BY <1>2, <2>1, Chains DEF Usable, NoInvalid, ChainSound
<1>4. ASSUME pc[t] = "find" PROVE abc.startTip \in candidates
  <2>1. ~Worse(abc.startTip, abc.startTip)
    BY <1>2, WorseFacts DEF Sound, IndexSound
  <2>2. ~Worse(abc.startTip, tip)
    BY <1>4 DEF Complete, RoundProgress
  <2> QED BY <1>1, <1>2, <1>3, <2>1, <2>2, Constants DEF Complete, CandidatesKept
<1> QED
  BY <1>1, <1>2, <1>3, <1>4

\* The best candidate of a round is the best of all usable blocks.
LEMMA BestOfAll ==
    ASSUME Sound, Complete, NEW t \in Thread, pc[t] = "find", NEW b, b = Best(candidates)
    PROVE  /\ b \in candidates /\ b \in Block
           /\ ~Worse(b, abc.startTip) /\ ~Worse(b, tip)
           /\ \A c \in Block : Usable(c) => ~Worse(b, c)
<1>1. csMain = t /\ abc.startTip \in Block /\ abc.startTip \in candidates
  BY StartFacts DEF Inner
<1>2. b \in candidates /\ b \in Block /\ \A c \in candidates : ~Worse(b, c)
  BY <1>1, BestIsBest DEF Sound, TypeOK
<1>3. ~Worse(b, abc.startTip) /\ ~Worse(b, tip)
  BY <1>1, <1>2 DEF Sound, CandidatesSound
<1>4. ASSUME NEW c \in Block, Usable(c) PROVE ~Worse(b, c)
  <2>1. CASE ~Worse(c, tip) /\ ~Worse(c, abc.startTip)
    BY <1>1, <1>2, <1>4, <2>1, Constants DEF Complete, CandidatesKept
  <2>2. CASE Worse(c, tip)
    <3>1. ~Worse(tip, c) /\ tip \in Block
      BY <2>2, <1>4, WorseFacts DEF Sound, IndexSound, TypeOK
    <3> QED BY <1>2, <1>3, <1>4, <3>1, WorseFacts DEF Sound, IndexSound
  <2>3. CASE Worse(c, abc.startTip)
    <3>1. ~Worse(abc.startTip, c)
      BY <1>1, <2>3, <1>4, WorseFacts DEF Sound, IndexSound
    <3> QED BY <1>1, <1>2, <1>3, <1>4, <3>1, WorseFacts DEF Sound, IndexSound
  <2> QED BY <2>1, <2>2, <2>3
<1> QED
  BY <1>2, <1>3, <1>4

LEMMA AbcEnterComplete ==
    ASSUME Sound, Complete, NEW t \in Thread, AbcEnter(t)
    PROVE  Complete'
<1>0. /\ pc[t] = "abc" /\ holder = Null /\ pc' = [pc EXCEPT ![t] = "round"]
      /\ UNCHANGED <<indexVars, chainVars, csMain, abc, inv, target, used>>
  BY DEF AbcEnter
<1>1. /\ FailedInvalid' /\ \A b \in Block : Usable(b)' <=> Usable(b)
      /\ \A a, b \in Block : Worse(a, b)' <=> Worse(a, b)
  BY <1>0, QuietFrame DEF Complete
<1>2. abc.mostWork = Null /\ csMain = Null /\ \A u \in Thread : pc[u] \notin Inner
  BY <1>0, Constants DEF Sound, TargetSound, ThreadsSound, TypeOK, Holding, Activating
<1>3. /\ pc'[t] = "round" /\ \A u \in Thread : u # t => pc'[u] = pc[u]
      /\ UNCHANGED <<tip, candidates, seq, counters>>
  BY <1>0 DEF Sound, TypeOK, indexVars, chainVars
<1>4. PreciousNumbers'
  BY <1>0, <1>3 DEF Complete, PreciousNumbers
<1>5. RoundProgress'
  BY <1>0, <1>2, <1>3, Constants DEF RoundProgress, Inner, Sound, TypeOK
<1>6. CandidatesKept'
  BY <1>0, <1>1, <1>2, <1>3 DEF Complete, CandidatesKept, Invalidating, Sound, TypeOK
<1>7. TargetBest' /\ Settled'
  BY <1>0, <1>2, <1>3 DEF TargetBest, Settled
<1> QED
  BY <1>1, <1>4, <1>5, <1>6, <1>7 DEF Complete

LEMMA AbcRoundComplete ==
    ASSUME Sound, Complete, NEW t \in Thread, AbcRound(t)
    PROVE  Complete'
<1>0. /\ pc[t] = "round" /\ csMain = Null /\ csMain' = t
      /\ abc' = [abc EXCEPT !.startTip = tip, !.progressed = FALSE]
      /\ pc' = [pc EXCEPT ![t] = "find"]
      /\ UNCHANGED <<indexVars, chainVars, holder, inv, target, used>>
  BY DEF AbcRound
<1>1. /\ FailedInvalid' /\ \A b \in Block : Usable(b)' <=> Usable(b)
      /\ \A a, b \in Block : Worse(a, b)' <=> Worse(a, b)
      /\ \A b \in Block : ChainSound(b)' <=> ChainSound(b)
  BY <1>0, QuietFrame DEF Complete
<1>2. /\ holder = t /\ \A u \in Thread : u # t => pc[u] \notin Holding
  BY <1>0 DEF Sound, ThreadsSound, Holding, Activating
<1>3. /\ abc'.mostWork = abc.mostWork /\ abc'.startTip = tip
      /\ pc'[t] = "find" /\ \A u \in Thread : u # t => pc'[u] = pc[u]
      /\ UNCHANGED <<tip, candidates, seq, counters>> /\ tip \in Block
  BY <1>0 DEF Sound, TypeOK, indexVars, chainVars
<1>4. PreciousNumbers'
  BY <1>0, <1>3 DEF Complete, PreciousNumbers
<1>5. RoundProgress'
  <2>1. abc.mostWork # Null =>
          abc.mostWork \in Block /\ tip \in Chain[abc.mostWork] /\ abc.mostWork # tip
    BY <1>0 DEF Sound, TargetSound, TypeOK, Activating, Complete, RoundProgress
  <2>2. abc.mostWork # Null => Work[tip] < Work[abc.mostWork]
    BY <2>1, AncestorBelow
  <2>3. abc.mostWork # Null => ~Worse(abc.mostWork, tip)
    BY <1>3, <2>1, <2>2, WorseFacts DEF Sound, IndexSound
  <2>4. ~Worse(tip, tip) /\ ChainSound(tip) /\ abc.mostWork # tip
    BY <1>0, <1>3, WorseFacts DEF Sound, IndexSound, ActiveSound, Complete, RoundProgress
  <2>5. \A u \in Thread : u # t => pc'[u] \notin Inner \cup {"round"}
    BY <1>2, <1>3 DEF Holding, Activating
  <2>6. abc.mostWork # Null => abc.mostWork \in Block
    BY <2>1
  <2> QED BY <1>1, <1>3, <2>3, <2>4, <2>5, <2>6 DEF RoundProgress
<1>6. CandidatesKept'
  <2>1. \A u \in Thread : pc[u] \notin Invalidating
    BY <1>0, <1>2 DEF Holding, Invalidating
  <2> QED BY <1>0, <1>1, <1>3, <2>1, Constants DEF Complete, CandidatesKept
<1>7. TargetBest'
  BY <1>0, <1>1, <1>3 DEF Complete, TargetBest, Sound, TypeOK
<1>8. Settled'
  BY <1>3 DEF Settled
<1> QED
  BY <1>1, <1>4, <1>5, <1>6, <1>7, <1>8 DEF Complete

LEMMA InvalidateBlockComplete ==
    ASSUME Sound, Complete, NEW t \in Thread, NEW b \in Block, InvalidateBlock(t, b)
    PROVE  Complete'
<1>0. /\ pc[t] = "idle" /\ pc' = [pc EXCEPT ![t] = "invalidate"]
      /\ used' = [used EXCEPT !.commands = @ + 1]
      /\ UNCHANGED <<indexVars, chainVars, holder, csMain, abc, inv>>
  BY DEF InvalidateBlock, Command
<1>1. /\ FailedInvalid' /\ \A c \in Block : Usable(c)' <=> Usable(c)
      /\ \A a, c \in Block : Worse(a, c)' <=> Worse(a, c)
      /\ \A c \in Block : ChainSound(c)' <=> ChainSound(c)
  BY <1>0, QuietFrame DEF Complete
<1>2. /\ pc'[t] = "invalidate" /\ \A u \in Thread : u # t => pc'[u] = pc[u]
      /\ UNCHANGED <<tip, candidates, seq, counters>> /\ tip \in Block
      /\ abc.mostWork # Null => abc.mostWork \in Block
  BY <1>0 DEF Sound, TypeOK, indexVars, chainVars
<1>3. PreciousNumbers'
  <2>1. used.commands \in Nat /\ used'.commands = used.commands + 1
    BY <1>0 DEF Sound, TypeOK
  <2> QED BY <1>2, <2>1 DEF Complete, PreciousNumbers
<1>4. \A u \in Thread : /\ pc'[u] \in Inner => pc'[u] = pc[u] /\ abc.startTip \in Block
                        /\ pc'[u] = "round" => pc[u] = "round"
  BY <1>0, <1>2 DEF Sound, TargetSound, Inner
<1>5. RoundProgress'
  BY <1>0, <1>1, <1>2, <1>4 DEF Complete, RoundProgress, Inner
<1>6. CandidatesKept'
  <2>1. csMain # Null => abc.startTip \in Block
    BY DEF Sound, ThreadsSound, TargetSound, TypeOK
  <2> QED BY <1>0, <1>1, <1>2, <2>1 DEF Complete, CandidatesKept, Invalidating
<1>7. TargetBest'
  BY <1>0, <1>1, <1>2 DEF Complete, TargetBest
<1>8. Settled'
  BY <1>0, <1>1, <1>2 DEF Complete, Settled
<1> QED
  BY <1>1, <1>3, <1>5, <1>6, <1>7, <1>8 DEF Complete

\* Steps of InvalidateBlock that leave the index alone.
LEMMA InvalidateMoveComplete ==
    ASSUME Sound, Complete, NEW t \in Thread, InvalidateEnter(t) \/ InvalidateLeaveLoop(t)
    PROVE  Complete'
<1>0. /\ \/ pc[t] = "invalidate" /\ holder = Null
         \/ pc[t] = "disconnect"
      /\ csMain = Null
      /\ \E p \in Invalidating : pc' = [pc EXCEPT ![t] = p]
      /\ UNCHANGED <<indexVars, chainVars, csMain, abc, used>>
  BY DEF InvalidateEnter, InvalidateLeaveLoop, Invalidating
<1>1. FailedInvalid'
  BY <1>0, QuietFrame DEF Complete
<1>2. /\ pc'[t] \in Invalidating /\ \A u \in Thread : u # t => pc'[u] = pc[u]
      /\ UNCHANGED <<tip, candidates, seq, counters>>
  BY <1>0 DEF Sound, TypeOK, indexVars, chainVars
<1>3. PreciousNumbers'
  BY <1>0, <1>2 DEF Complete, PreciousNumbers
<1>4. \A u \in Thread : u # t => pc[u] \notin Holding
  BY <1>0, Constants DEF Sound, ThreadsSound, Holding, Invalidating
<1>5. abc.mostWork = Null
  BY <1>0, <1>4, Constants DEF Sound, TargetSound, Holding, Activating, Inner
<1>6. RoundProgress' /\ CandidatesKept' /\ TargetBest' /\ Settled'
  BY <1>0, <1>2, <1>4, <1>5 DEF RoundProgress, CandidatesKept, TargetBest, Settled,
     Inner, Invalidating, Holding, Activating
<1> QED
  BY <1>1, <1>3, <1>6 DEF Complete

\* Leaving a round with the tip no worse than it was, and the target or the tip best.
LEMMA LeaveRoundComplete ==
    ASSUME Sound, Complete, NEW t \in Thread, pc[t] \in Inner, NEW most \in Block \cup {Null},
           NEW progressed \in BOOLEAN, LeaveRound(t, most, progressed),
           UNCHANGED <<indexVars, chainVars, inv, target, used>>,
           ~Worse(tip, abc.startTip),
           most # Null =>
              \/ \E u \in Thread : pc[u] = "abc"
              \/ \A b \in Block : Usable(b) => ~Worse(most, b),
           ~AnotherRound(most, progressed) => most = tip
    PROVE  Complete'
<1>0. /\ csMain' = Null
      /\ \/ /\ AnotherRound(most, progressed) /\ pc' = [pc EXCEPT ![t] = "round"]
            /\ abc' = [NoAbc EXCEPT !.mostWork = most]
         \/ most = tip /\ pc' = [pc EXCEPT ![t] = "idle"] /\ abc' = NoAbc
  BY DEF LeaveRound
<1>1. /\ FailedInvalid' /\ \A b \in Block : Usable(b)' <=> Usable(b)
      /\ \A a, b \in Block : Worse(a, b)' <=> Worse(a, b)
  BY QuietFrame DEF Complete
<1>2. /\ csMain = t /\ \A u \in Thread : u # t => pc[u] \notin Holding
      /\ abc.startTip \in Block
  BY StartFacts
<1>3. /\ pc'[t] \in {"round", "idle"} /\ \A u \in Thread : u # t => pc'[u] = pc[u]
      /\ UNCHANGED <<tip, candidates, seq, counters, used>> /\ tip \in Block
      /\ \A u \in Thread : pc[u] = "abc" => pc'[u] = "abc"
  BY <1>0 DEF Sound, TypeOK, indexVars, chainVars, Inner
<1>4. PreciousNumbers'
  BY <1>3 DEF Complete, PreciousNumbers
<1>5. /\ pc'[t] = "round" => abc'.mostWork = most /\ most # tip
      /\ pc'[t] = "idle" => most = tip /\ abc'.mostWork = Null
  BY <1>0 DEF AnotherRound, NoAbc, Sound, TypeOK
<1>6. RoundProgress'
  BY <1>2, <1>3, <1>5 DEF RoundProgress, Inner, Holding, Activating
<1>7. CandidatesKept'
  <2>1. ASSUME NEW b \in Block, Usable(b), ~Worse(b, tip) PROVE b \in candidates
    <3>1. ~Worse(b, abc.startTip)
      BY <1>2, <1>3, <2>1, WorseFacts DEF Sound, IndexSound
    <3> QED BY <1>2, <2>1, <3>1, Constants DEF Complete, CandidatesKept
  <2> QED BY <1>0, <1>1, <1>3, <2>1 DEF CandidatesKept
<1>8. TargetBest'
  BY <1>1, <1>3, <1>5 DEF TargetBest
<1>9. Settled'
  <2> SUFFICES ASSUME \A u \in Thread : pc'[u] \in {"idle", "invalidate"},
                      NEW b \in Block, Usable(b)
               PROVE  ~Worse(tip, b)
    BY <1>1, <1>3 DEF Settled
  <2>1. most = tip /\ most # Null
    BY <1>3, <1>5, Constants
  <2>2. \A u \in Thread : pc[u] # "abc"
    BY <1>3
  <2> QED BY <2>1, <2>2
<1> QED
  BY <1>1, <1>4, <1>6, <1>7, <1>8, <1>9 DEF Complete

\* Decide leaves a round only with the tip as the best candidate.
LEMMA DecideProgress ==
    ASSUME Sound, Complete, NEW t \in Thread, pc[t] = "find", NEW most \in Block \cup {Null},
           \/ abc.mostWork # Null /\ most = abc.mostWork
           \/ abc.mostWork = Null /\ candidates = {} /\ most = Null
           \/ /\ abc.mostWork = Null /\ candidates # {}
              /\ most = Best(candidates) /\ Unusable(most) = {}
    PROVE  /\ most \in Block
           /\ ~Worse(most, abc.startTip)
           /\ \/ \E u \in Thread : pc[u] = "abc"
              \/ \A b \in Block : Usable(b) => ~Worse(most, b)
<1>1. abc.startTip \in candidates
  BY StartFacts DEF Inner
<1>2. CASE abc.mostWork # Null /\ most = abc.mostWork
  BY <1>2 DEF Complete, RoundProgress, TargetBest, Inner
<1>3. CASE most = Best(candidates)
  BY <1>3, BestOfAll
<1> QED
  BY <1>1, <1>2, <1>3

LEMMA DecideComplete ==
    ASSUME Sound, Complete, NEW t \in Thread, Decide(t)
    PROVE  Complete'
<1>1. PICK most \in Block \cup {Null} :
         /\ \/ abc.mostWork # Null /\ most = abc.mostWork
            \/ abc.mostWork = Null /\ candidates = {} /\ most = Null
            \/ /\ abc.mostWork = Null /\ candidates # {}
               /\ most = Best(candidates) /\ Unusable(most) = {}
         /\ IF most \in {Null, tip}
            THEN LeaveRound(t, most, abc.progressed)
            ELSE /\ pc' = [pc EXCEPT ![t] = "step"]
                 /\ abc' = [abc EXCEPT !.mostWork = most, !.oldTip = tip, !.front = Null]
                 /\ UNCHANGED <<csMain, holder>>
  BY DEF Decide
<1>2. pc[t] = "find" /\ UNCHANGED <<indexVars, chainVars, inv, target, used>>
  BY DEF Decide
<1>3. /\ most \in Block /\ ~Worse(most, abc.startTip)
      /\ \/ \E u \in Thread : pc[u] = "abc"
         \/ \A b \in Block : Usable(b) => ~Worse(most, b)
  BY <1>1, <1>2, DecideProgress
<1>4. CASE most \in {Null, tip}
  <2>1. most = tip
    BY <1>3, <1>4, Constants
  <2>2. abc.progressed \in BOOLEAN /\ pc[t] \in Inner /\ LeaveRound(t, most, abc.progressed)
    BY <1>1, <1>2, <1>4 DEF Sound, TypeOK, Inner
  <2> QED BY <1>2, <1>3, <2>1, <2>2, LeaveRoundComplete
<1>5. CASE most \notin {Null, tip}
  <2>0. /\ pc' = [pc EXCEPT ![t] = "step"] /\ UNCHANGED <<csMain, holder>>
        /\ abc' = [abc EXCEPT !.mostWork = most, !.oldTip = tip, !.front = Null]
    BY <1>1, <1>5
  <2>1. /\ FailedInvalid' /\ \A b \in Block : Usable(b)' <=> Usable(b)
        /\ \A a, b \in Block : Worse(a, b)' <=> Worse(a, b)
        /\ \A b \in Block : ChainSound(b)' <=> ChainSound(b)
    BY <1>2, QuietFrame DEF Complete
  <2>2. /\ csMain = t /\ \A u \in Thread : u # t => pc[u] \notin Holding
        /\ abc.startTip \in Block
    BY <1>2, StartFacts DEF Inner
  <2>3. /\ abc'.mostWork = most /\ abc'.startTip = abc.startTip
        /\ pc'[t] = "step" /\ \A u \in Thread : u # t => pc'[u] = pc[u]
        /\ UNCHANGED <<tip, candidates, seq, counters>> /\ tip \in Block
        /\ \A u \in Thread : pc[u] = "abc" => pc'[u] = "abc"
    BY <1>2, <2>0 DEF Sound, TypeOK, indexVars, chainVars
  <2>4. PreciousNumbers'
    BY <1>2, <2>3 DEF Complete, PreciousNumbers
  <2>5. RoundProgress'
    <3>1. ChainSound(abc.startTip) /\ ~Worse(abc.startTip, tip)
      BY <1>2 DEF Complete, RoundProgress, Inner
    <3>2. \A u \in Thread : u # t => pc'[u] \notin Inner \cup {"round"}
      BY <2>2, <2>3 DEF Holding, Activating
    <3> QED BY <1>3, <2>1, <2>2, <2>3, <3>1, <3>2 DEF RoundProgress
  <2>6. CandidatesKept'
    BY <2>0, <2>1, <2>2, <2>3, Constants DEF Complete, CandidatesKept
  <2>7. TargetBest'
    BY <1>3, <2>1, <2>3 DEF TargetBest
  <2>8. Settled'
    BY <2>3 DEF Settled
  <2> QED BY <2>1, <2>4, <2>5, <2>6, <2>7, <2>8 DEF Complete
<1> QED
  BY <1>4, <1>5

LEMMA AfterStepComplete ==
    ASSUME Sound, Complete, NEW t \in Thread, AfterStep(t)
    PROVE  Complete'
<1>0. pc[t] = "stepped" /\ UNCHANGED <<indexVars, chainVars, inv, target, used>>
  BY DEF AfterStep
<1>1. /\ csMain = t /\ \A u \in Thread : u # t => pc[u] \notin Holding
      /\ abc.startTip \in Block /\ tip \in Block /\ abc.mostWork \in Block \cup {Null}
  BY <1>0, StartFacts DEF Inner, Sound, TypeOK
<1>2. CASE MustGoOn
  <2>0. /\ pc' = [pc EXCEPT ![t] = "find"] /\ UNCHANGED <<csMain, holder>>
        /\ abc' = [abc EXCEPT !.progressed = TRUE]
    BY <1>2 DEF AfterStep
  <2>1. /\ FailedInvalid' /\ \A b \in Block : Usable(b)' <=> Usable(b)
        /\ \A a, b \in Block : Worse(a, b)' <=> Worse(a, b)
        /\ \A b \in Block : ChainSound(b)' <=> ChainSound(b)
    BY <1>0, QuietFrame DEF Complete
  <2>2. /\ abc'.mostWork = abc.mostWork /\ abc'.startTip = abc.startTip
        /\ pc'[t] = "find" /\ \A u \in Thread : u # t => pc'[u] = pc[u]
        /\ UNCHANGED <<tip, candidates, seq, counters>>
        /\ \A u \in Thread : pc[u] = "abc" => pc'[u] = "abc"
    BY <1>0, <2>0 DEF Sound, TypeOK, indexVars, chainVars
  <2>3. PreciousNumbers'
    BY <1>0, <2>2 DEF Complete, PreciousNumbers
  <2>4. RoundProgress'
    <3>1. /\ ChainSound(abc.startTip)
          /\ abc.mostWork # Null => ~Worse(abc.mostWork, abc.startTip)
      BY <1>0 DEF Complete, RoundProgress, Inner
    <3>2. ~Worse(abc.startTip, tip) /\ abc.mostWork # tip
      BY <1>1, <1>2, <3>1, WorseFacts, Constants DEF MustGoOn, Sound, IndexSound
    <3>3. \A u \in Thread : u # t => pc'[u] \notin Inner \cup {"round"}
      BY <1>1, <2>2 DEF Holding, Activating
    <3> QED BY <1>1, <2>1, <2>2, <3>1, <3>2, <3>3 DEF RoundProgress
  <2>5. CandidatesKept'
    BY <1>1, <2>0, <2>1, <2>2, Constants DEF Complete, CandidatesKept
  <2>6. TargetBest'
    BY <1>1, <2>1, <2>2 DEF Complete, TargetBest
  <2>7. Settled'
    BY <2>2 DEF Settled
  <2> QED BY <2>1, <2>3, <2>4, <2>5, <2>6, <2>7 DEF Complete
<1>3. CASE ~MustGoOn
  <2>1. LeaveRound(t, abc.mostWork, TRUE) /\ TRUE \in BOOLEAN /\ pc[t] \in Inner
    BY <1>0, <1>3 DEF AfterStep, Inner
  <2>2. ~Worse(tip, abc.startTip)
    BY <1>3 DEF MustGoOn
  <2>3. abc.mostWork # Null =>
          \/ \E u \in Thread : pc[u] = "abc"
          \/ \A b \in Block : Usable(b) => ~Worse(abc.mostWork, b)
    BY DEF Complete, TargetBest
  <2>4. ~AnotherRound(abc.mostWork, TRUE) => abc.mostWork = tip
    BY DEF AnotherRound
  <2> QED BY <1>0, <1>1, <2>1, <2>2, <2>3, <2>4, LeaveRoundComplete
<1> QED
  BY <1>2, <1>3

\* Steps inside a round: no block becomes usable, the order and the tip that the
\* round started with stay as they are.
LEMMA InRound ==
    ASSUME Sound, Complete, NEW t \in Thread, pc[t] \in Inner, pc'[t] \in Inner,
           \A u \in Thread : u # t => pc'[u] = pc[u],
           UNCHANGED <<linked, seq, addr, counters, used, csMain>>,
           \A a \in Block : "VALID" \in failed[a] => "VALID" \in failed'[a],
           abc'.startTip = abc.startTip, abc'.mostWork \in {abc.mostWork, Null},
           FailedInvalid', ChainSound(abc.startTip)',
           pc'[t] = "find" => pc[t] = "find" /\ abc'.mostWork = abc.mostWork /\ tip' = tip,
           pc'[t] = "step" /\ tip' \notin Chain[abc'.mostWork] => ~Worse(abc.startTip, tip'),
           \A b \in Block : Usable(b)' /\ ~Worse(b, tip') /\ ~Worse(b, abc.startTip)
                              => b \in candidates'
    PROVE  Complete'
<1>1. \A b \in Block : Usable(b)' => Usable(b)
  BY UsableShrinks
<1>2. /\ csMain = t /\ \A u \in Thread : u # t => pc[u] \notin Holding
      /\ abc.startTip \in Block
  BY StartFacts
<1>3. PreciousNumbers'
  BY DEF Complete, PreciousNumbers
<1>4. RoundProgress'
  <2>1. \A u \in Thread : u # t => pc'[u] \notin Inner \cup {"round"}
    BY <1>2 DEF Holding, Activating
  <2>2. abc'.mostWork # Null => ~Worse(abc.mostWork, abc.startTip) /\ abc'.mostWork = abc.mostWork
    BY DEF Complete, RoundProgress
  <2>3. pc'[t] = "find" => ~Worse(abc.startTip, tip') /\ abc'.mostWork # tip'
    BY DEF Complete, RoundProgress
  <2>4. pc'[t] # "round"
    BY DEF Inner
  <2> QED BY <1>1, <2>1, <2>2, <2>3, <2>4 DEF RoundProgress, Worse
<1>5. CandidatesKept'
  BY <1>2, Constants DEF CandidatesKept, Worse
<1>6. TargetBest'
  <2>1. \A u \in Thread : pc[u] = "abc" => pc'[u] = "abc"
    BY DEF Inner
  <2> QED BY <1>1, <2>1 DEF Complete, TargetBest, Worse
<1>7. Settled'
  BY DEF Settled, Inner
<1> QED
  BY <1>3, <1>4, <1>5, <1>6, <1>7 DEF Complete

LEMMA DropCandidateComplete ==
    ASSUME Sound, Complete, NEW t \in Thread, DropCandidate(t)
    PROVE  Complete'
<1> DEFINE b == Best(candidates)
           bad == Bad(b)
           above == Chain[b] \ Chain[bad]
<1>0. /\ pc[t] = "find" /\ candidates # {} /\ Unusable(b) # {}
      /\ candidates' = candidates \ (above \cup {bad})
      /\ UNCHANGED <<known, level, haveData, linked, seq, addr, tip, bestHeader, failedBlocks,
                     counters, threadVars, used>>
  BY DEF DropCandidate, Bad
<1>1. /\ bad \in Block /\ failed[bad] # {}
      /\ \A x \in above : bad \in Chain[x] /\ x \in linked
  BY <1>0, DropFacts
<1>2. failed' = [x \in Block |-> IF x \in above THEN failed[x] \cup {"CHILD"} ELSE failed[x]]
  BY <1>1 DEF DropCandidate, Bad
<1> HIDE DEF above, bad, b
<1>3. /\ \A a \in Block : "VALID" \in failed'[a] <=> "VALID" \in failed[a]
      /\ \A a \in Block \ above : failed'[a] = failed[a]
  BY <1>2
<1>4. \A x \in Block : NoInvalid(x)' <=> NoInvalid(x)
  BY <1>3, Chains DEF NoInvalid
<1>5. \A x \in above \cup {bad} : x \in Block /\ ~NoInvalid(x)
  <2>1. PICK a \in Chain[bad] : "VALID" \in failed[a]
    BY <1>1 DEF Complete, FailedInvalid, NoInvalid
  <2>2. ASSUME NEW x \in above PROVE x \in Block /\ ~NoInvalid(x)
    <3>1. x \in Block /\ bad \in Chain[x]
      BY <1>1 DEF Sound, TypeOK
    <3>2. Chain[bad] \subseteq Chain[x]
      BY <3>1, Chains
    <3> QED BY <2>1, <3>1, <3>2 DEF NoInvalid
  <2> QED BY <1>1, <2>1, <2>2 DEF NoInvalid
<1>6. FailedInvalid'
  BY <1>3, <1>4, <1>5 DEF Complete, FailedInvalid
<1>7. csMain = t /\ abc.startTip \in Block /\ Usable(abc.startTip)
  BY <1>0, StartFacts DEF Inner
<1>8. ChainSound(abc.startTip)'
  <2>1. ChainSound(abc.startTip)
    BY <1>0 DEF Complete, RoundProgress, Inner
  <2>2. \A a \in Chain[abc.startTip] : a \in Block /\ NoInvalid(a)
    BY <1>7, Chains DEF Usable, NoInvalid
  <2>3. \A a \in Chain[abc.startTip] : failed'[a] = failed[a]
    BY <1>3, <1>5, <2>2
  <2>4. UNCHANGED <<linked, level, abc>>
    BY <1>0 DEF threadVars
  <2> QED BY <2>1, <2>3, <2>4 DEF ChainSound
<1>9. \A c \in Block : Usable(c)' /\ ~Worse(c, tip') /\ ~Worse(c, abc.startTip) => c \in candidates'
  <2>1. \A c \in Block : Usable(c)' => Usable(c)
    BY <1>0, <1>4 DEF Usable
  <2> QED BY <1>0, <1>5, <1>7, <2>1, Constants DEF Complete, CandidatesKept, Usable
<1> QED
  BY <1>0, <1>3, <1>6, <1>8, <1>9, InRound DEF threadVars, Inner

LEMMA DisconnectTipComplete ==
    ASSUME Sound, Complete, NEW t \in Thread, DisconnectTip(t)
    PROVE  Complete'
<1>0. /\ pc[t] = "step" /\ tip \notin Chain[abc.mostWork] /\ tip' = Parent[tip]
      /\ UNCHANGED <<indexVars, candidates, unlinked, bestHeader, bestInvalid, failedBlocks,
                     counters, threadVars, used>>
  BY DEF DisconnectTip
<1>1. tip \in Block \ {Genesis} /\ abc.mostWork \in Block
  BY <1>0, Chains, StepFacts DEF Sound, TypeOK
<1>2. Parent[tip] \in Block /\ Work[Parent[tip]] < Work[tip]
  BY <1>1, Chains, ChainSelectionConstants
<1>3. csMain = t /\ abc.startTip \in Block
  BY <1>0, StartFacts DEF Inner
<1>4. ~Worse(abc.startTip, tip) /\ ~Worse(tip, Parent[tip]) /\ ~Worse(abc.startTip, Parent[tip])
  BY <1>0, <1>1, <1>2, <1>3, WorseFacts DEF Complete, RoundProgress, Inner, Sound, IndexSound
<1>5. FailedInvalid' /\ ChainSound(abc.startTip)' /\ \A b \in Block : Usable(b)' => Usable(b)
  BY <1>0 DEF Complete, FailedInvalid, NoInvalid, RoundProgress, ChainSound, Inner, Usable,
     indexVars, threadVars
<1>6. \A b \in Block : Usable(b)' /\ ~Worse(b, tip') /\ ~Worse(b, abc.startTip) => b \in candidates'
  <2>1. ASSUME NEW b \in Block, Usable(b), ~Worse(b, abc.startTip) PROVE b \in candidates
    <3>1. ~Worse(b, tip)
      BY <1>1, <1>3, <1>4, <2>1, WorseFacts DEF Sound, IndexSound
    <3> QED BY <1>3, <2>1, <3>1, Constants DEF Complete, CandidatesKept
  <2> QED BY <1>0, <1>5, <2>1
<1>7. \A a \in Block : "VALID" \in failed[a] => "VALID" \in failed'[a]
  BY <1>0 DEF indexVars
<1> QED
  BY <1>0, <1>4, <1>5, <1>6, <1>7, InRound DEF threadVars, indexVars, Inner

LEMMA ConnectTipComplete ==
    ASSUME Sound, Complete, NEW t \in Thread, ConnectTip(t)
    PROVE  Complete'
<1> DEFINE n == NextToConnect
<1>0. /\ pc[t] = "step" /\ tip \in Chain[abc.mostWork]
      /\ level' = RaiseValidity(level, n, Scripts) /\ tip' = n
      /\ candidates' = PruneBlockIndexCandidates(candidates, seq, addr, n)
      /\ abc' = [abc EXCEPT !.front = BatchEnd]
      /\ pc' = [pc EXCEPT ![t] = IF n = abc.mostWork \/ Work[n] > Work[abc.oldTip]
                                 THEN "stepped" ELSE "step"]
      /\ UNCHANGED <<known, failed, haveData, linked, seq, addr, unlinked, bestHeader,
                     bestInvalid, failedBlocks, counters, holder, csMain, inv, target, used>>
  BY DEF ConnectTip
<1>1. /\ n \in Chain[abc.mostWork] /\ n \in Block \ {Genesis} /\ Parent[n] = tip
      /\ failed[n] = {} /\ tip \in Block
  BY <1>0, NextFacts DEF Sound, TypeOK
<1> HIDE DEF n
<1>2. /\ abc'.mostWork = abc.mostWork /\ abc'.startTip = abc.startTip
      /\ pc'[t] \in {"step", "stepped"} /\ \A u \in Thread : u # t => pc'[u] = pc[u]
  BY <1>0 DEF Sound, TypeOK
<1>3. csMain = t /\ abc.startTip \in Block
  BY <1>0, StartFacts DEF Inner
<1>4. FailedInvalid' /\ \A b \in Block : Usable(b)' => Usable(b)
  BY <1>0 DEF Complete, FailedInvalid, NoInvalid, Usable
<1>5. ChainSound(abc.startTip)'
  <2>1. \A a \in Block : level[a] = Scripts => level'[a] = Scripts
    BY <1>0, <1>1 DEF RaiseValidity, Sound, TypeOK, Scripts
  <2>2. ChainSound(abc.startTip) /\ Chain[abc.startTip] \subseteq Block
    BY <1>0, <1>3, Chains DEF Complete, RoundProgress, Inner
  <2> QED BY <1>0, <1>2, <2>1, <2>2 DEF ChainSound
<1>6. \A b \in Block : Usable(b)' /\ ~Worse(b, tip') /\ ~Worse(b, abc.startTip) => b \in candidates'
  <2>1. ~Worse(n, tip)
    BY <1>1, ChainSelectionConstants, WorseFacts DEF Sound, IndexSound
  <2>2. ASSUME NEW b \in Block, Usable(b), ~Worse(b, n), ~Worse(b, abc.startTip)
        PROVE  b \in candidates'
    <3>1. ~Worse(b, tip)
      BY <1>1, <2>1, <2>2, WorseFacts DEF Sound, IndexSound
    <3>2. b \in candidates
      BY <1>3, <2>2, <3>1, Constants DEF Complete, CandidatesKept
    <3> QED BY <1>0, <2>2, <3>2 DEF PruneBlockIndexCandidates, Worse
  <2> QED BY <1>0, <1>4, <2>2
<1>7. \A a \in Block : "VALID" \in failed[a] => "VALID" \in failed'[a]
  BY <1>0
<1> QED
  BY <1>0, <1>1, <1>2, <1>4, <1>5, <1>6, <1>7, InRound DEF Inner

LEMMA ConnectTipFailsComplete ==
    ASSUME Sound, Complete, NEW t \in Thread, ConnectTipFails(t)
    PROVE  Complete'
<1> DEFINE n == NextToConnect
<1>0. /\ pc[t] = "step" /\ tip \in Chain[abc.mostWork] /\ n \in ConnectInvalid
      /\ failed' = [failed EXCEPT ![n] = @ \cup {"VALID"}]
      /\ candidates' = candidates \ {n}
      /\ abc' = [abc EXCEPT !.mostWork = Null] /\ pc' = [pc EXCEPT ![t] = "stepped"]
      /\ UNCHANGED <<known, level, haveData, linked, seq, addr, unlinked, tip, counters,
                     holder, csMain, inv, target, used>>
  BY DEF ConnectTipFails, InvalidBlockFound
<1>1. n \in Block \ {Genesis}
  BY <1>0, NextFacts
<1> HIDE DEF n
<1>2. /\ abc'.mostWork = Null /\ abc'.startTip = abc.startTip
      /\ pc'[t] = "stepped" /\ \A u \in Thread : u # t => pc'[u] = pc[u]
  BY <1>0 DEF Sound, TypeOK
<1>3. csMain = t /\ abc.startTip \in Block
  BY <1>0, StartFacts DEF Inner
<1>4. /\ \A a \in Block : "VALID" \in failed[a] => "VALID" \in failed'[a]
      /\ \A a \in Block \ {n} : failed'[a] = failed[a]
      /\ "VALID" \in failed'[n]
  BY <1>0, <1>1 DEF Sound, TypeOK
<1>5. \A b \in Block : NoInvalid(b)' => NoInvalid(b) /\ b # n
  <2>1. \A b \in Block : NoInvalid(b)' => NoInvalid(b)
    BY <1>0, <1>4, UsableShrinks
  <2> QED BY <1>4, <2>1, Chains DEF NoInvalid
<1>6. FailedInvalid'
  BY <1>4, <1>5 DEF Complete, FailedInvalid
<1>7. ChainSound(abc.startTip)'
  <2>1. ChainSound(abc.startTip) /\ Chain[abc.startTip] \subseteq Block
    BY <1>0, <1>3, Chains DEF Complete, RoundProgress, Inner
  <2>2. n \notin Chain[abc.startTip]
    BY <1>0, <1>1, <2>1 DEF ChainSound, Sound, IndexSound
  <2> QED BY <1>0, <1>2, <1>4, <2>1, <2>2 DEF ChainSound
<1>8. \A b \in Block : Usable(b)' /\ ~Worse(b, tip') /\ ~Worse(b, abc.startTip) => b \in candidates'
  BY <1>0, <1>3, <1>5, Constants DEF Complete, CandidatesKept, Usable
<1> QED
  BY <1>0, <1>2, <1>4, <1>6, <1>7, <1>8, InRound DEF Inner

LEMMA InvalidateDisconnectComplete ==
    ASSUME Sound, Complete, NEW t \in Thread, InvalidateDisconnect(t)
    PROVE  Complete'
<1>0. /\ pc[t] = "disconnect" /\ csMain = Null
      /\ UNCHANGED <<linked, seq, addr, counters, pc, csMain, abc, used>>
  BY DEF InvalidateDisconnect
<1>1. failed' = [failed EXCEPT ![tip] = @ \cup {"VALID"}] /\ tip \in Block
  BY InvalidateDisconnectSound DEF Sound, TypeOK
<1>2. /\ \A a \in Block : "VALID" \in failed[a] => "VALID" \in failed'[a]
      /\ \A a \in Block \ {tip} : failed'[a] = failed[a]
      /\ "VALID" \in failed'[tip]
  BY <1>1 DEF Sound, TypeOK
<1>3. FailedInvalid'
  <2>1. \A b \in Block : NoInvalid(b)' => NoInvalid(b)
    BY <1>0, <1>2, UsableShrinks
  <2>2. ASSUME NEW b \in Block, failed'[b] # {} PROVE ~NoInvalid(b)'
    <3>1. CASE b = tip
      BY <1>1, <1>2, <3>1, Chains DEF NoInvalid
    <3>2. CASE b # tip
      BY <1>2, <2>1, <2>2, <3>2 DEF Complete, FailedInvalid
    <3> QED BY <3>1, <3>2
  <2> QED BY <2>2 DEF FailedInvalid
<1>4. \A u \in Thread : u # t => pc[u] \notin Holding
  BY <1>0 DEF Sound, ThreadsSound, Holding, Invalidating
<1>5. abc.mostWork = Null
  BY <1>0, <1>4 DEF Sound, TargetSound, Holding, Activating, Inner
<1>6. PreciousNumbers'
  BY <1>0 DEF Complete, PreciousNumbers
<1>7. RoundProgress' /\ CandidatesKept' /\ TargetBest' /\ Settled'
  BY <1>0, <1>4, <1>5 DEF RoundProgress, CandidatesKept, TargetBest, Settled, Inner,
     Invalidating, Holding, Activating
<1> QED
  BY <1>3, <1>6, <1>7 DEF Complete

LEMMA InvalidateMarkComplete ==
    ASSUME Sound, Complete, NEW t \in Thread, InvalidateMark(t)
    PROVE  Complete'
<1>0. /\ pc[t] = "mark" /\ csMain = Null
      /\ failed' = [failed EXCEPT ![inv.toMark] = @ \cup {"VALID"}]
      /\ candidates' = (candidates \ {inv.toMark}) \cup MissedCandidates(failed')
      /\ pc' = [pc EXCEPT ![t] = "abc"]
      /\ UNCHANGED <<known, level, haveData, linked, seq, addr, unlinked, tip, counters,
                     csMain, abc, used>>
  BY DEF InvalidateMark, ToActivate
<1>1. inv.toMark \in Block /\ \A u \in Thread : u # t => pc[u] \notin Holding
  BY <1>0 DEF Sound, InvalidateSound, ThreadsSound, Invalidating, Holding, TypeOK
<1>2. /\ \A a \in Block : "VALID" \in failed[a] => "VALID" \in failed'[a]
      /\ \A a \in Block \ {inv.toMark} : failed'[a] = failed[a]
      /\ "VALID" \in failed'[inv.toMark]
  BY <1>0, <1>1 DEF Sound, TypeOK
<1>3. FailedInvalid'
  <2>1. \A b \in Block : NoInvalid(b)' => NoInvalid(b) /\ b # inv.toMark
    <3>1. \A b \in Block : NoInvalid(b)' => NoInvalid(b)
      BY <1>0, <1>2, UsableShrinks
    <3> QED BY <1>2, <3>1, Chains DEF NoInvalid
  <2> QED BY <1>2, <2>1 DEF Complete, FailedInvalid
<1>4. pc'[t] = "abc" /\ \A u \in Thread : u # t => pc'[u] = pc[u]
  BY <1>0 DEF Sound, TypeOK
<1>5. abc.mostWork = Null
  BY <1>0, <1>1 DEF Sound, TargetSound, Holding, Activating, Inner
<1>6. CandidatesKept'
  <2>1. ASSUME NEW b \in Block, Usable(b)', ~Worse(b, tip) PROVE b \in candidates'
    <3>1. failed'[b] = {} /\ b \in linked
      BY <1>0, <1>3, <2>1 DEF FailedInvalid, Usable
    <3>2. b \in known /\ level[b] >= Transactions
      BY <3>1 DEF Sound, IndexSound
    <3> QED BY <1>0, <2>1, <3>1, <3>2 DEF MissedCandidates
  <2> QED BY <1>0, <2>1 DEF CandidatesKept, Worse
<1>7. PreciousNumbers'
  BY <1>0 DEF Complete, PreciousNumbers
<1>8. RoundProgress' /\ TargetBest' /\ Settled'
  BY <1>0, <1>1, <1>4, <1>5 DEF RoundProgress, TargetBest, Settled, Inner, Holding, Activating
<1> QED
  BY <1>3, <1>6, <1>7, <1>8 DEF Complete

\* Steps of a thread that holds cs_main for the time of the step only: it calls
\* ActivateBestChain afterwards, unless no block has become usable.
LEMMA OuterComplete ==
    ASSUME Sound, Complete, NEW t \in Thread, pc[t] = "idle", csMain = Null,
           UNCHANGED <<tip, abc, csMain>>, FailedInvalid', PreciousNumbers',
           \/ pc' = [pc EXCEPT ![t] = "abc"]
           \/ /\ pc' = pc /\ UNCHANGED <<seq, addr>>
              /\ \A b \in Block : Usable(b)' => Usable(b),
           (\A u \in Thread : pc[u] \notin Invalidating) =>
              \A b \in Block : Usable(b)' /\ ~Worse(b, tip)' => b \in candidates'
    PROVE  Complete'
<1>1. pc'[t] \in {"idle", "abc"} /\ \A u \in Thread : u # t => pc'[u] = pc[u]
  BY DEF Sound, TypeOK
<1>2. \A u \in Thread : pc[u] \notin Inner
  BY Constants DEF Sound, ThreadsSound
<1>3. RoundProgress'
  BY <1>1, <1>2 DEF Complete, RoundProgress, Inner
<1>4. CandidatesKept'
  BY <1>1 DEF CandidatesKept, Invalidating
<1>5. CASE pc' = [pc EXCEPT ![t] = "abc"]
  <2>1. pc'[t] = "abc"
    BY <1>5 DEF Sound, TypeOK
  <2>2. TargetBest' /\ Settled'
    BY <2>1 DEF TargetBest, Settled
  <2> QED BY <1>3, <1>4, <2>2 DEF Complete
<1>6. CASE /\ pc' = pc /\ UNCHANGED <<seq, addr>>
           /\ \A b \in Block : Usable(b)' => Usable(b)
  <2>1. TargetBest' /\ Settled'
    BY <1>6 DEF Complete, TargetBest, Settled, Worse
  <2> QED BY <1>3, <1>4, <2>1 DEF Complete
<1> QED
  BY <1>5, <1>6

\* The same for a step that marks blocks, or none, and links nothing.
LEMMA OuterMarks ==
    ASSUME Sound, Complete, NEW t \in Thread, pc[t] = "idle", csMain = Null,
           UNCHANGED <<tip, abc, csMain, linked, seq, addr, candidates, counters, used>>,
           \A a \in Block : "VALID" \in failed[a] => "VALID" \in failed'[a],
           \A a \in Block : failed'[a] # failed[a] => ~NoInvalid(a)',
           pc' = pc \/ pc' = [pc EXCEPT ![t] = "abc"]
    PROVE  Complete'
<1>1. \A b \in Block : (NoInvalid(b)' => NoInvalid(b)) /\ (Usable(b)' => Usable(b))
  BY UsableShrinks
<1>2. FailedInvalid'
  BY <1>1 DEF Complete, FailedInvalid
<1>3. PreciousNumbers'
  BY DEF Complete, PreciousNumbers
<1>4. (\A u \in Thread : pc[u] \notin Invalidating) =>
        \A b \in Block : Usable(b)' /\ ~Worse(b, tip)' => b \in candidates'
  BY <1>1 DEF Complete, CandidatesKept, Worse
<1> QED
  BY <1>1, <1>2, <1>3, <1>4, OuterComplete

LEMMA RejectedComplete ==
    ASSUME Sound, Complete, NEW t \in Thread, pc[t] = "idle", csMain = Null, NEW b \in Block,
           ~HeaderAccepted(b), failed' = FailedAfterReject(b),
           UNCHANGED <<tip, abc, csMain, linked, seq, addr, candidates, counters, used, pc>>
    PROVE  Complete'
<1>1. /\ \A x \in Block : failed[x] \subseteq failed'[x]
      /\ \A x \in Block : failed'[x] # failed[x] => \E f \in failedBlocks : f \in Chain[x]
  BY RejectFacts
<1>2. ASSUME NEW x \in Block, failed'[x] # failed[x] PROVE ~NoInvalid(x)'
  <2>1. PICK f \in failedBlocks : f \in Chain[x]
    BY <1>1, <1>2
  <2>2. f \in Block /\ "VALID" \in failed[f]
    BY DEF Sound, FailedBlocksMarked, TypeOK
  <2> QED BY <1>1, <2>1, <2>2 DEF NoInvalid
<1>3. \A a \in Block : "VALID" \in failed[a] => "VALID" \in failed'[a]
  BY <1>1
<1> QED
  BY <1>2, <1>3, OuterMarks

LEMMA ProcessNewBlockHeadersComplete ==
    ASSUME Sound, Complete, NEW t \in Thread, NEW b \in Block, ProcessNewBlockHeaders(t, b)
    PROVE  Complete'
<1>0. /\ pc[t] = "idle" /\ csMain = Null
      /\ UNCHANGED <<linked, seq, addr, candidates, tip, counters, abc, pc, csMain, used>>
  BY DEF ProcessNewBlockHeaders, threadVars
<1>1. CASE HeaderAccepted(b)
  <2>1. failed' = failed
    BY <1>1 DEF ProcessNewBlockHeaders
  <2> QED BY <1>0, <2>1, OuterMarks
<1>2. CASE ~HeaderAccepted(b)
  <2>1. failed' = FailedAfterReject(b)
    BY <1>2 DEF ProcessNewBlockHeaders
  <2> QED BY <1>0, <1>2, <2>1, RejectedComplete
<1> QED
  BY <1>1, <1>2

LEMMA ReceivedComplete ==
    ASSUME Sound, Complete, NEW t \in Thread, pc[t] = "idle", csMain = Null, NEW b \in Block,
           b \notin haveData, ReceivedBlockTransactions(b),
           pc' = [pc EXCEPT ![t] = "abc"], failed' = failed,
           UNCHANGED <<addr, tip, csMain, abc, used>>
    PROVE  Complete'
<1>1. /\ linked \subseteq linked' /\ \A x \in linked : seq'[x] = seq[x]
      /\ \A x \in Block : seq'[x] = seq[x] \/ seq'[x] >= 0
      /\ counters'.reverse = counters.reverse /\ candidates \subseteq candidates'
      /\ \A x \in linked' \ linked : ~ComparesWorse(seq', addr, x, tip) => x \in candidates'
  BY ReceivedFacts
<1>2. FailedInvalid'
  BY DEF Complete, FailedInvalid, NoInvalid
<1>3. PreciousNumbers'
  <2>1. \A x \in Block : seq'[x] = seq[x] \/ seq'[x] >= -1
    BY <1>1, ReceivedFacts
  <2> QED BY <1>1, <2>1 DEF Complete, PreciousNumbers
<1>4. ASSUME \A u \in Thread : pc[u] \notin Invalidating,
             NEW x \in Block, Usable(x)', ~Worse(x, tip)'
      PROVE  x \in candidates'
  <2>1. x \in linked' /\ NoInvalid(x) /\ ~ComparesWorse(seq', addr, x, tip)
    BY <1>4 DEF Usable, NoInvalid, Worse
  <2>2. CASE x \in linked
    <3>1. tip \in linked /\ tip \in Block
      BY Chains DEF Sound, ActiveSound, ChainSound, TypeOK
    <3>2. ~Worse(x, tip)
      BY <1>1, <2>1, <2>2, <3>1 DEF Worse, ComparesWorse
    <3> QED BY <1>1, <1>4, <2>1, <2>2, <3>2 DEF Complete, CandidatesKept, Usable
  <2>3. CASE x \notin linked
    BY <1>1, <2>1, <2>3
  <2> QED BY <2>2, <2>3
<1> QED
  BY <1>2, <1>3, <1>4, OuterComplete

LEMMA ProcessNewBlockComplete ==
    ASSUME Sound, Complete, NEW t \in Thread, NEW b \in Block, NEW requested \in BOOLEAN,
           ProcessNewBlock(t, b, requested)
    PROVE  Complete'
<1> DEFINE lv == RaiseValidity(level, b, Tree)
           go == requested \/ ProcessUnrequested(b)
<1>0. /\ pc[t] = "idle" /\ csMain = Null
      /\ UNCHANGED <<addr, tip, bestInvalid, failedBlocks, holder, csMain, abc, inv, target, used>>
  BY DEF ProcessNewBlock
<1>1. CASE /\ ~HeaderAccepted(b) /\ failed' = FailedAfterReject(b)
           /\ UNCHANGED <<known, bestHeader, level, haveData, linked, seq, candidates,
                          unlinked, counters, pc>>
  BY <1>0, <1>1, RejectedComplete
<1>2. CASE /\ HeaderAccepted(b) /\ AddToBlockIndex(b)
           /\ b \in haveData \/ ~go
           /\ level' = lv /\ ToActivate(t)
           /\ UNCHANGED <<failed, haveData, linked, seq, candidates, unlinked, counters>>
  BY <1>0, <1>2, OuterMarks DEF ToActivate
<1>3. CASE /\ HeaderAccepted(b) /\ AddToBlockIndex(b)
           /\ b \notin haveData /\ go /\ b \in CtxInvalid
           /\ level' = lv /\ failed' = [failed EXCEPT ![b] = @ \cup {"VALID"}]
           /\ UNCHANGED <<haveData, linked, seq, candidates, unlinked, counters, pc>>
  <2>1. /\ \A a \in Block : "VALID" \in failed[a] => "VALID" \in failed'[a]
        /\ \A a \in Block : failed'[a] # failed[a] => "VALID" \in failed'[a]
    BY <1>3 DEF Sound, TypeOK
  <2>2. \A a \in Block : failed'[a] # failed[a] => ~NoInvalid(a)'
    BY <2>1, Chains DEF NoInvalid
  <2> QED BY <1>0, <1>3, <2>1, <2>2, OuterMarks
<1>4. CASE /\ HeaderAccepted(b) /\ AddToBlockIndex(b)
           /\ b \notin haveData /\ go /\ b \notin CtxInvalid
           /\ level' = RaiseValidity(lv, b, Transactions)
           /\ ReceivedBlockTransactions(b) /\ ToActivate(t) /\ UNCHANGED failed
  BY <1>0, <1>4, ReceivedComplete DEF ToActivate
<1> QED
  BY <1>1, <1>2, <1>3, <1>4 DEF ProcessNewBlock

LEMMA PreciousBlockComplete ==
    ASSUME Orderly, Sound, Complete, NEW t \in Thread, NEW b \in Block, PreciousBlock(t, b)
    PROVE  Complete'
<1>0. /\ pc[t] = "idle" /\ csMain = Null /\ b \in known
      /\ seq' = [seq EXCEPT ![b] = PreciousId]
      /\ candidates' = IF IsValid(b, Transactions) /\ b \in linked
                       THEN PruneBlockIndexCandidates(candidates \cup {b}, seq', addr, tip)
                       ELSE candidates \ {b}
      /\ pc' = [pc EXCEPT ![t] = "abc"]
      /\ UNCHANGED <<known, level, failed, haveData, linked, addr, unlinked, tip, bestHeader,
                     bestInvalid, failedBlocks, holder, csMain, abc, inv, target>>
  BY DEF PreciousBlock, ToActivate, PreciousId
<1>1. /\ "preciousblock" \in Commands /\ used.commands \in Nat /\ used.commands <= 1
      /\ used'.commands = used.commands + 1
  <2>1. /\ used.commands < MaxCommands /\ "preciousblock" \in Commands
        /\ used' = [used EXCEPT !.commands = @ + 1]
    BY DEF PreciousBlock, Command
  <2>2. MaxCommands \in Nat /\ MaxCommands <= 2
    BY <2>1, Constants DEF Orderly
  <2> QED BY <2>1, <2>2 DEF Sound, TypeOK
<1>2. /\ PreciousId \in Int /\ PreciousId < 0
      /\ used.commands = 0 => PreciousId = -1
  <2>1. counters.reverse \in Int /\ counters.reverse < 0 /\ Work[tip] \in Nat /\ counters.preciousWork \in Nat
    BY Constants DEF Sound, TypeOK, IndexSound
  <2> QED BY <1>1, <2>1 DEF PreciousId, Complete, PreciousNumbers
<1>3. /\ seq'[b] = PreciousId /\ seq[b] \in Int /\ seq[b] >= -1
      /\ \A a \in Block : a # b => seq'[a] = seq[a]
  BY <1>0, <1>1 DEF Sound, TypeOK, Complete, PreciousNumbers
<1>4. FailedInvalid'
  BY <1>0 DEF Complete, FailedInvalid, NoInvalid
<1>5. PreciousNumbers'
  <2>1. used'.commands # 0
    BY <1>1
  <2>2. ASSUME used'.commands <= 1 PROVE \A a \in Block : seq'[a] >= -1
    <3>1. used.commands = 0
      BY <1>1, <2>2
    <3> QED BY <1>1, <1>2, <1>3, <3>1 DEF Complete, PreciousNumbers
  <2> QED BY <2>1, <2>2 DEF PreciousNumbers
<1>6. ASSUME \A u \in Thread : pc[u] \notin Invalidating,
             NEW x \in Block, Usable(x)', ~Worse(x, tip)'
      PROVE  x \in candidates'
  <2>1. Usable(x) /\ x \in linked /\ ~ComparesWorse(seq', addr, x, tip) /\ tip \in Block
    BY <1>0, <1>6 DEF Usable, NoInvalid, Worse, Sound, TypeOK
  <2>2. CASE x = b
    <3>1. IsValid(x, Transactions)
      BY <2>1 DEF Complete, FailedInvalid, Usable, IsValid, Sound, IndexSound
    <3> QED BY <1>0, <2>1, <2>2, <3>1 DEF PruneBlockIndexCandidates
  <2>3. CASE x # b
    <3>1. ~Worse(x, tip)
      <4>1. CASE b # tip
        BY <1>3, <2>1, <2>3, <4>1 DEF Worse, ComparesWorse
      <4>2. CASE b = tip
        <5>1. /\ Work[x] \in Int /\ Work[tip] \in Int /\ addr[x] \in Int /\ addr[tip] \in Int
              /\ seq[x] \in Int /\ seq[tip] \in Int /\ seq'[tip] \in Int
              /\ seq'[x] = seq[x] /\ seq'[tip] <= seq[tip]
          BY <1>2, <1>3, <2>1, <2>3, <4>2, Constants DEF Sound, TypeOK
        <5> QED BY <2>1, <5>1 DEF Worse, ComparesWorse
      <4> QED BY <4>1, <4>2
    <3>2. x \in candidates
      BY <1>0, <1>6, <2>1, <3>1 DEF Complete, CandidatesKept
    <3> QED BY <1>0, <2>1, <2>3, <3>2 DEF PruneBlockIndexCandidates
  <2> QED BY <2>2, <2>3
<1> QED
  BY <1>0, <1>4, <1>5, <1>6, OuterComplete

LEMMA RestartComplete ==
    ASSUME Sound, Complete, NEW t \in Thread, Restart(t)
    PROVE  Complete'
<1>0. /\ \A u \in Thread : pc[u] = "idle"
      /\ used' = [used EXCEPT !.restarts = @ + 1]
      /\ candidates' = PruneBlockIndexCandidates({b \in linked' : failed'[b] = {}}, seq', addr', tip)
      /\ counters' = [next |-> 1, reverse |-> -1, preciousWork |-> 0]
      /\ pc' = [pc EXCEPT ![t] = "abc"]
      /\ UNCHANGED <<known, level, haveData, tip, holder, csMain, abc, inv, target>>
  BY DEF Restart, ReloadCandidates, ToActivate
<1>1. /\ seq' = [b \in Block |-> 0]
      /\ \A b \in Block : failed'[b] # failed[b] =>
            /\ failed[b] = {} /\ failed'[b] = {"CHILD"}
            /\ \E a \in Chain[b] : failed[a] # {}
  BY ReloadFacts
<1>2. csMain = Null
  <2>1. \A u \in Thread : pc[u] \notin Inner
    BY <1>0 DEF Inner
  <2> QED BY <2>1 DEF Sound, ThreadsSound, TypeOK
<1>3. \A b \in Block : NoInvalid(b)' => NoInvalid(b)
  <2>1. \A a \in Block : "VALID" \in failed[a] => "VALID" \in failed'[a]
    BY <1>1
  <2> QED BY <2>1, Chains DEF NoInvalid
<1>4. FailedInvalid'
  <2>1. ASSUME NEW b \in Block, failed'[b] # {} PROVE ~NoInvalid(b)
    <3>1. PICK a \in Chain[b] : failed[a] # {}
      BY <1>1, <2>1, Chains
    <3>2. a \in Block /\ Chain[a] \subseteq Chain[b]
      BY <3>1, Chains
    <3>3. ~NoInvalid(a)
      BY <3>1, <3>2 DEF Complete, FailedInvalid
    <3> QED BY <3>2, <3>3 DEF NoInvalid
  <2> QED BY <1>3, <2>1 DEF FailedInvalid
<1>5. PreciousNumbers'
  <2>1. counters'.reverse = -1 /\ \A b \in Block : seq'[b] >= -1
    BY <1>0, <1>1
  <2> QED BY <2>1 DEF PreciousNumbers
<1>6. ASSUME NEW x \in Block, Usable(x)', ~Worse(x, tip)' PROVE x \in candidates'
  <2>1. x \in linked' /\ failed'[x] = {} /\ ~ComparesWorse(seq', addr', x, tip)
    BY <1>0, <1>4, <1>6 DEF Usable, FailedInvalid, Worse
  <2> QED BY <1>0, <2>1 DEF PruneBlockIndexCandidates
<1> QED
  BY <1>0, <1>2, <1>4, <1>5, <1>6, OuterComplete

\* One step of a behaviour.
LEMMA NextComplete ==
    ASSUME Orderly
    PROVE  Sound /\ Complete /\ [Next]_vars => Complete'
<1> SUFFICES ASSUME Sound, Complete, [Next]_vars PROVE Complete'
  OBVIOUS
<1>1. CASE UNCHANGED vars
  <2>1. UNCHANGED <<indexVars, chainVars, threadVars, used>>
    BY <1>1 DEF vars
  <2> QED BY <2>1 DEF Complete, FailedInvalid, PreciousNumbers, RoundProgress, CandidatesKept,
             TargetBest, Settled, Usable, NoInvalid, ChainSound, Worse, indexVars, chainVars,
             threadVars
<1>2. ASSUME NEW t \in Thread, NEW b \in Block, ProcessNewBlockHeaders(t, b) PROVE Complete'
  BY <1>2, ProcessNewBlockHeadersComplete
<1>3. ASSUME NEW t \in Thread, NEW b \in Block, NEW requested \in BOOLEAN,
             ProcessNewBlock(t, b, requested)
      PROVE  Complete'
  BY <1>3, ProcessNewBlockComplete
<1>4. ASSUME NEW t \in Thread, NEW b \in Block, PreciousBlock(t, b) PROVE Complete'
  BY <1>4, PreciousBlockComplete
<1>5. ASSUME NEW t \in Thread, NEW b \in Block, InvalidateBlock(t, b) PROVE Complete'
  BY <1>5, InvalidateBlockComplete
<1>6. ASSUME NEW t \in Thread, NEW b \in Block, ReconsiderBlock(t, b) PROVE Complete'
  BY <1>6 DEF ReconsiderBlock, Command, Orderly
<1>7. ASSUME NEW t \in Thread, Restart(t) PROVE Complete'
  BY <1>7, RestartComplete
<1>8. ASSUME NEW t \in Thread, Run(t) PROVE Complete'
  BY <1>8, AbcEnterComplete, AbcRoundComplete, DropCandidateComplete, DecideComplete,
     DisconnectTipComplete, ConnectTipComplete, ConnectTipFailsComplete, AfterStepComplete,
     InvalidateMoveComplete, InvalidateDisconnectComplete, InvalidateMarkComplete DEF Run
<1> QED
  BY <1>1, <1>2, <1>3, <1>4, <1>5, <1>6, <1>7, <1>8 DEF Next

\* Every chain that is usable and better than the tip is a candidate, or the
\* ActivateBestChain that has taken it out is still at work on it.
THEOREM CompleteInvariant ==
    ASSUME Orderly
    PROVE  Spec => []Complete
<1>1. Init => Complete
  BY InitComplete
<1>2. Sound /\ Complete /\ [Next]_vars => Complete'
  BY NextComplete
<1> QED
  BY <1>1, <1>2, SoundInvariant, PTL DEF Spec

\* CheckBlockIndex, while no InvalidateBlock is under way: a linked block that is
\* not known to be invalid and not worse than the tip is a candidate.
THEOREM CandidatesAreComplete ==
    ASSUME Orderly
    PROVE  Spec => []CandidatesCompleteAtRest
<1>1. Sound /\ Complete => CandidatesCompleteAtRest
  BY DEF Sound, TypeOK, Complete, CandidatesKept, Usable, Invalidating,
     CandidatesCompleteAtRest, CandidatesComplete
<1> QED
  BY <1>1, SoundInvariant, CompleteInvariant, PTL

\* ActivateBestChain never returns too early: when every call has returned, no
\* linked block that is not known to be invalid would make a better tip.
THEOREM BestChainIsActive ==
    ASSUME Orderly
    PROVE  Spec => []BestChainActive
<1>1. Sound /\ Complete => BestChainActive
  BY DEF Sound, TypeOK, Complete, Settled, Usable, BestChainActive
<1> QED
  BY <1>1, SoundInvariant, CompleteInvariant, PTL

\* "We absolutely may not unlock cs_main until we've made forward progress":
\* when ActivateBestChain releases cs_main, the tip is not worse than the one
\* that it found.
THEOREM ProgressIsMade ==
    ASSUME Orderly
    PROVE  Spec => ProgressBeforeUnlock
<1>1. ASSUME Sound, Complete, [Next]_vars, csMain # Null, csMain' = Null
      PROVE  ~Worse(tip', abc.startTip)
  <2>1. PICK t \in Thread : Decide(t) \/ AfterStep(t)
    <3>1. ASSUME NEW u \in Thread, NEW b \in Block
          PROVE  /\ ~ProcessNewBlockHeaders(u, b) /\ ~PreciousBlock(u, b)
                 /\ ~InvalidateBlock(u, b) /\ ~ReconsiderBlock(u, b)
                 /\ \A requested \in BOOLEAN : ~ProcessNewBlock(u, b, requested)
      BY <1>1 DEF ProcessNewBlockHeaders, PreciousBlock, InvalidateBlock, ReconsiderBlock,
         ProcessNewBlock
    <3>2. ASSUME NEW u \in Thread, Run(u) PROVE Decide(u) \/ AfterStep(u)
      BY <1>1, <3>2, Constants DEF Run, AbcEnter, AbcRound, DropCandidate, DisconnectTip, ConnectTip,
         ConnectTipFails, InvalidateEnter, InvalidateDisconnect, InvalidateLeaveLoop,
         InvalidateMark, threadVars
    <3>3. ASSUME NEW u \in Thread PROVE ~Restart(u)
      BY <1>1 DEF Restart
    <3>4. ~UNCHANGED vars
      BY <1>1 DEF vars, threadVars
    <3> QED BY <1>1, <3>1, <3>2, <3>3, <3>4 DEF Next
  <2>2. CASE AfterStep(t)
    <3>1. UNCHANGED tip /\ ~MustGoOn
      BY <1>1, <2>2 DEF AfterStep, chainVars
    <3> QED BY <3>1 DEF MustGoOn
  <2>3. CASE Decide(t)
    <3>1. PICK most \in Block \cup {Null} :
             /\ \/ abc.mostWork # Null /\ most = abc.mostWork
                \/ abc.mostWork = Null /\ candidates = {} /\ most = Null
                \/ /\ abc.mostWork = Null /\ candidates # {}
                   /\ most = Best(candidates) /\ Unusable(most) = {}
             /\ most \in {Null, tip}
      BY <1>1, <2>3 DEF Decide
    <3>2. pc[t] = "find" /\ UNCHANGED tip
      BY <2>3 DEF Decide, chainVars
    <3>3. most \in Block /\ ~Worse(most, abc.startTip)
      BY <1>1, <3>1, <3>2, DecideProgress
    <3> QED BY <3>1, <3>2, <3>3, Constants
  <2> QED BY <2>1, <2>2, <2>3
<1>2. Sound /\ Complete /\ [Next]_vars =>
        [csMain # Null /\ csMain' = Null => ~Worse(tip', abc.startTip)]_vars
  BY <1>1
<1> QED
  BY <1>2, SoundInvariant, CompleteInvariant, PTL DEF Spec, ProgressBeforeUnlock
-----------------------------------------------------------------------------
(***************************************************************************)
(* The rest of CheckBlockIndex, for as long as no command marks blocks or  *)
(* takes marks back.                                                       *)
(***************************************************************************)
NoMarking == Commands \subseteq {"preciousblock"}

\* A marked ancestor of b has not arrived.
Stuck(b) == \E x \in Chain[b] \ haveData : failed[x] # {}

\* A block is linked as soon as its chain has arrived; one that waits is in
\* m_blocks_unlinked, or waits for a block that will not be accepted; marks go
\* down from a block that ConnectBlock or ContextualCheckBlock has rejected.
Exact ==
    /\ \A b \in known : Chain[b] \subseteq haveData => b \in linked
    /\ \A b \in haveData \ linked : b \in unlinked \/ Stuck(b)
    /\ \A b \in Block : failed[b] # {} /\ "VALID" \notin failed[b] => failed[Parent[b]] # {}
    /\ \A b \in Block : "VALID" \in failed[b] => b \in linked \/ b \notin haveData
    /\ \A t \in Thread : pc[t] \notin {"invalidate"} \cup Invalidating

LEMMA InitExact == Init => Exact
<1> SUFFICES ASSUME Init PROVE Exact
  OBVIOUS
<1>1. \A b \in Block : failed[b] = {}
  BY DEF Init
<1>2. known = {Genesis} /\ haveData = {Genesis} /\ linked = {Genesis} /\ pc = [t \in Thread |-> "idle"]
  BY DEF Init
<1> QED
  BY <1>1, <1>2 DEF Exact, Invalidating

\* Nobody invalidates a block.
LEMMA NobodyInvalidates ==
    ASSUME NoMarking, Sound, Exact, [Next]_vars
    PROVE  \A u \in Thread : pc'[u] \notin {"invalidate"} \cup Invalidating
<1> DEFINE W == {"invalidate"} \cup Invalidating
           P == {"idle", "abc", "round", "find", "step", "stepped"}
<1>0. /\ \A u \in Thread : pc[u] \notin W
      /\ P \cap W = {}
  BY DEF Exact, Invalidating
<1>1. CASE UNCHANGED vars
  BY <1>0, <1>1 DEF vars, threadVars
<1>2. ASSUME NEW t \in Thread, NEW b \in Block,
             \/ ProcessNewBlockHeaders(t, b) \/ PreciousBlock(t, b) \/ ReconsiderBlock(t, b)
             \/ \E requested \in BOOLEAN : ProcessNewBlock(t, b, requested)
      PROVE  pc' = pc \/ \E p \in P : pc' = [pc EXCEPT ![t] = p]
  BY <1>2 DEF ProcessNewBlockHeaders, PreciousBlock, ReconsiderBlock, ProcessNewBlock, ToActivate,
     threadVars
<1>3. ASSUME NEW t \in Thread, NEW b \in Block, InvalidateBlock(t, b) PROVE FALSE
  BY <1>3 DEF InvalidateBlock, Command, NoMarking
<1>4. ASSUME NEW t \in Thread, Restart(t) PROVE \E p \in P : pc' = [pc EXCEPT ![t] = p]
  BY <1>4 DEF Restart, ToActivate
<1>5. ASSUME NEW t \in Thread, Run(t) PROVE pc' = pc \/ \E p \in P : pc' = [pc EXCEPT ![t] = p]
  <2>1. /\ ~InvalidateEnter(t) /\ ~InvalidateDisconnect(t) /\ ~InvalidateLeaveLoop(t)
        /\ ~InvalidateMark(t)
    BY <1>0 DEF InvalidateEnter, InvalidateDisconnect, InvalidateLeaveLoop, InvalidateMark,
       Invalidating
  <2>2. Decide(t) \/ AfterStep(t) => \E p \in P : pc' = [pc EXCEPT ![t] = p]
    BY DEF Decide, AfterStep, LeaveRound
  <2>3. AbcEnter(t) \/ AbcRound(t) \/ ConnectTipFails(t) \/ ConnectTip(t)
           => \E p \in P : pc' = [pc EXCEPT ![t] = p]
    BY DEF AbcEnter, AbcRound, ConnectTipFails, ConnectTip
  <2>4. DropCandidate(t) \/ DisconnectTip(t) => pc' = pc
    BY DEF DropCandidate, DisconnectTip, threadVars
  <2> QED BY <1>5, <2>1, <2>2, <2>3, <2>4 DEF Run
<1>6. ASSUME NEW t \in Thread, NEW p \in P, pc' = [pc EXCEPT ![t] = p]
      PROVE  \A u \in Thread : pc'[u] \notin W
  <2> HIDE DEF W, P
  <2> QED BY <1>0, <1>6 DEF Sound, TypeOK
<1> HIDE DEF P
<1> QED
  BY <1>0, <1>1, <1>2, <1>3, <1>4, <1>5, <1>6 DEF Next

\* Steps that link no block and only add marks, each with its reason.
LEMMA MarksExact ==
    ASSUME Sound, Exact, UNCHANGED <<haveData, linked, unlinked>>, known' \subseteq Block,
           \A a \in Block : failed[a] \subseteq failed'[a],
           \A a \in Block : failed'[a] # failed[a] =>
              \/ "VALID" \in failed'[a] /\ (a \in linked \/ a \notin haveData)
              \/ failed'[a] = failed[a] \cup {"CHILD"} /\ failed'[Parent[a]] # {},
           \A u \in Thread : pc'[u] \notin {"invalidate"} \cup Invalidating
    PROVE  Exact'
<1>1. \A b \in known' : Chain[b] \subseteq haveData => b \in linked
  <2>1. ASSUME NEW b \in known', Chain[b] \subseteq haveData PROVE b \in linked
    <3>1. CASE b \in known
      BY <2>1, <3>1 DEF Exact
    <3>2. CASE b \notin known
      BY <2>1, <3>2, Chains DEF Sound, IndexSound
    <3> QED BY <3>1, <3>2
  <2> QED BY <2>1
<1>2. \A b \in haveData \ linked : b \in unlinked \/ Stuck(b)'
  <2>1. ASSUME NEW b \in haveData \ linked, Stuck(b) PROVE Stuck(b)'
    <3>1. PICK x \in Chain[b] \ haveData : failed[x] # {}
      BY <2>1 DEF Stuck
    <3>2. x \in Block
      BY Chains DEF Sound, TypeOK
    <3> QED BY <3>1, <3>2 DEF Stuck
  <2> QED BY <2>1 DEF Exact
<1>3. ASSUME NEW b \in Block, failed'[b] # {}, "VALID" \notin failed'[b] PROVE failed'[Parent[b]] # {}
  <2>1. CASE failed'[b] # failed[b]
    BY <1>3, <2>1
  <2>2. CASE failed'[b] = failed[b]
    <3>1. failed[Parent[b]] # {} /\ b # Genesis
      BY <1>3, <2>2 DEF Exact, Sound, IndexSound
    <3>2. Parent[b] \in Block
      BY <3>1, Chains
    <3> QED BY <3>1, <3>2
  <2> QED BY <2>1, <2>2
<1>4. ASSUME NEW b \in Block, "VALID" \in failed'[b] PROVE b \in linked \/ b \notin haveData
  BY <1>4 DEF Exact
<1> QED
  BY <1>1, <1>2, <1>3, <1>4 DEF Exact

\* A marked block that waits has a marked ancestor that has not arrived.
LEMMA StuckBelow ==
    ASSUME Sound, Exact, NEW p \in known \ linked, failed[p] # {}
    PROVE  Stuck(p)
<1> DEFINE S == {b \in Block : b \in known \ linked /\ failed[b] # {} => Stuck(b)}
<1>1. Genesis \in S
  BY Chains DEF Sound, IndexSound
<1>2. ASSUME NEW b \in Block \ {Genesis}, Parent[b] \in S PROVE b \in S
  <2> SUFFICES ASSUME b \in known \ linked, failed[b] # {} PROVE Stuck(b)
    OBVIOUS
  <2>1. /\ b \in Chain[b] /\ Parent[b] \in known
        /\ Chain[b] = Chain[Parent[b]] \cup {b}
    BY Chains DEF Sound, IndexSound
  <2>2. CASE b \notin haveData
    BY <2>1, <2>2 DEF Stuck
  <2>3. CASE b \in haveData
    <3>1. failed[Parent[b]] # {}
      BY <2>3 DEF Exact
    <3>2. Parent[b] \notin linked
      <4>1. ASSUME Parent[b] \in linked PROVE FALSE
        <5>1. Chain[Parent[b]] \subseteq haveData
          BY <4>1, LinkedChain DEF Sound, IndexSound
        <5> QED BY <2>1, <2>3, <5>1 DEF Exact
      <4> QED BY <4>1
    <3>3. Stuck(Parent[b])
      BY <1>2, <2>1, <3>1, <3>2
    <3> QED BY <2>1, <3>3 DEF Stuck
  <2> QED BY <2>2, <2>3
<1>3. S \in SUBSET Block
  OBVIOUS
<1>4. S = Block
  <2> HIDE DEF S
  <2> QED BY <1>1, <1>2, <1>3, BlockTreeRooted, TreeInduction
<1>5. p \in Block
  BY DEF Sound, TypeOK
<1> QED
  BY <1>4, <1>5

\* Block data arrives: everything that waited for nothing else is linked.
LEMMA ReceivedExact ==
    ASSUME Sound, Exact, NEW b \in Block, b \notin haveData, HeaderAccepted(b),
           known' = known \cup {b}, failed' = failed, ReceivedBlockTransactions(b),
           \A u \in Thread : pc'[u] \notin {"invalidate"} \cup Invalidating
    PROVE  Exact'
<1>0. /\ b # Genesis /\ failed[b] = {} /\ haveData' = haveData \cup {b}
      /\ linked \subseteq linked' /\ Parent[b] \in known
  BY AcceptedFacts, ReceivedFacts
<1>1. /\ Chain[b] = Chain[Parent[b]] \cup {b} /\ b \notin Chain[Parent[b]]
      /\ \A y \in Block : y \in Chain[y] /\ Chain[y] \subseteq Block
  BY <1>0, Chains
<1>2. known' \subseteq Block /\ haveData \subseteq Block /\ linked \subseteq haveData
  BY DEF Sound, TypeOK, IndexSound
<1>3. ASSUME NEW y \in known', Chain[y] \subseteq haveData', b \notin Chain[y]
      PROVE  y \in linked'
  BY <1>0, <1>1, <1>3 DEF Exact
<1>4. ASSUME NEW y \in Block, Stuck(y) PROVE Stuck(y)'
  BY <1>0, <1>4 DEF Stuck
<1>5. ASSUME NEW a \in Block, failed'[a] # {}, "VALID" \notin failed'[a]
      PROVE  failed'[Parent[a]] # {}
  BY <1>5 DEF Exact
<1>6. ASSUME NEW a \in Block, "VALID" \in failed'[a] PROVE a \in linked' \/ a \notin haveData'
  BY <1>0, <1>6 DEF Exact
<1>7. CASE Parent[b] \in linked
  <2> DEFINE S == NowLinked(b)
  <2>1. linked' = linked \cup S /\ unlinked' = unlinked \ S
    BY <1>7 DEF ReceivedBlockTransactions, UnlinkedWithout
  <2>2. ASSUME NEW y \in known', Chain[y] \subseteq haveData', b \in Chain[y] PROVE y \in linked'
    <3>1. ASSUME NEW z \in Chain[y] \ Chain[b] PROVE z \in unlinked
      <4>1. /\ z \in Block /\ z \in haveData /\ b \in Chain[z] /\ Chain[z] \subseteq Chain[y]
        <5>1. z \in Block /\ Chain[z] \subseteq Chain[y] /\ z # b
          BY <1>1, <1>2, Chains
        <5>2. b \in Chain[z]
          BY <1>2, <2>2, ChainLinear
        <5> QED BY <1>0, <2>2, <5>1, <5>2
      <4>2. z \notin linked
        BY <1>2, <4>1, LinkedChain
      <4>3. ~Stuck(z)
        BY <1>0, <2>2, <4>1 DEF Stuck
      <4> QED BY <4>1, <4>2, <4>3 DEF Exact
    <3> QED BY <1>2, <2>1, <2>2, <3>1 DEF NowLinked
  <2>3. b \in S
    BY NowLinkedFacts
  <2> HIDE DEF S
  <2>4. ASSUME NEW z \in haveData' \ linked' PROVE z \in unlinked' \/ Stuck(z)'
    <3>1. z \in haveData \ linked /\ z \in Block /\ z \notin S
      BY <1>0, <1>2, <2>1, <2>3
    <3> QED BY <1>4, <2>1, <3>1 DEF Exact
  <2> QED BY <1>3, <1>5, <1>6, <2>2, <2>4 DEF Exact
<1>8. CASE Parent[b] \notin linked
  <2>1. linked' = linked /\ unlinked' = UnlinkedWith(b)
    BY <1>8 DEF ReceivedBlockTransactions
  <2>2. ASSUME NEW y \in known', Chain[y] \subseteq haveData', b \in Chain[y] PROVE FALSE
    <3>1. Chain[Parent[b]] \subseteq haveData
      BY <1>0, <1>1, <1>2, <2>2, Chains
    <3> QED BY <1>0, <1>8, <3>1 DEF Exact
  <2>3. b \in unlinked' \/ Stuck(b)'
    <3>1. CASE failed[Parent[b]] = {}
      BY <2>1, <3>1 DEF UnlinkedWith
    <3>2. CASE failed[Parent[b]] # {}
      <4>1. Stuck(Parent[b])
        BY <1>0, <1>8, <3>2, StuckBelow
      <4> QED BY <1>0, <1>1, <4>1 DEF Stuck
    <3> QED BY <3>1, <3>2
  <2>4. ASSUME NEW z \in haveData' \ linked', z # b PROVE z \in unlinked' \/ Stuck(z)'
    <3>1. z \in haveData \ linked /\ z \in Block
      BY <1>0, <1>2, <2>1, <2>4
    <3> QED BY <1>4, <2>1, <3>1 DEF Exact, UnlinkedWith
  <2> QED BY <1>3, <1>5, <1>6, <2>2, <2>3, <2>4 DEF Exact
<1> QED
  BY <1>7, <1>8

LEMMA RestartExact ==
    ASSUME Sound, Exact, NEW t \in Thread, Restart(t),
           \A u \in Thread : pc'[u] \notin {"invalidate"} \cup Invalidating
    PROVE  Exact'
<1>0. known' = known /\ haveData' = haveData
  BY DEF Restart
<1>1. /\ linked' = {b \in known : Chain[b] \subseteq haveData}
      /\ unlinked' = haveData \ linked' /\ linked \subseteq linked'
      /\ \A b \in Block : failed'[b] # failed[b] =>
            /\ b \in known \ {Genesis} /\ failed[b] = {} /\ failed'[b] = {"CHILD"}
            /\ \E a \in Chain[b] : failed[a] # {}
      /\ \A b \in known : (\E a \in Chain[b] : failed[a] # {}) => failed'[b] # {}
  BY ReloadFacts
<1>2. ASSUME NEW b \in Block, failed'[b] # {}, "VALID" \notin failed'[b]
      PROVE  failed'[Parent[b]] # {}
  <2>1. CASE failed'[b] # failed[b]
    <3>1. PICK a \in Chain[b] : failed[a] # {}
      BY <1>1, <2>1
    <3>2. b \in known \ {Genesis} /\ failed[b] = {} /\ Parent[b] \in known
      BY <1>1, <2>1 DEF Sound, IndexSound
    <3>3. a \in Chain[Parent[b]]
      BY <3>1, <3>2, Chains
    <3> QED BY <1>1, <3>1, <3>2, <3>3
  <2>2. CASE failed'[b] = failed[b]
    <3>1. failed[Parent[b]] # {} /\ b \in known \ {Genesis}
      BY <1>2, <2>2 DEF Exact, Sound, IndexSound
    <3>2. Parent[b] \in known /\ Parent[b] \in Chain[Parent[b]]
      BY <3>1, Chains DEF Sound, IndexSound
    <3> QED BY <1>1, <3>1, <3>2
  <2> QED BY <2>1, <2>2
<1>3. ASSUME NEW b \in Block, "VALID" \in failed'[b] PROVE b \in linked' \/ b \notin haveData
  <2>1. "VALID" \in failed[b]
    BY <1>1, <1>3
  <2> QED BY <1>1, <2>1 DEF Exact
<1> QED
  BY <1>0, <1>1, <1>2, <1>3 DEF Exact

\* FindMostWorkChain marks what descends from the block it cannot use.
LEMMA DropCandidateMarks ==
    ASSUME Sound, NEW t \in Thread, DropCandidate(t)
    PROVE  /\ UNCHANGED <<known, haveData, linked, unlinked, pc, level, failedBlocks>>
           /\ \A a \in Block : failed[a] \subseteq failed'[a]
           /\ \A a \in Block : failed'[a] # failed[a] =>
                 failed'[a] = failed[a] \cup {"CHILD"} /\ failed'[Parent[a]] # {}
<1> DEFINE b == Best(candidates)
           bad == Bad(b)
           above == Chain[b] \ Chain[bad]
<1>0. /\ candidates # {} /\ Unusable(b) # {}
      /\ UNCHANGED <<known, level, haveData, linked, failedBlocks, threadVars>>
  BY DEF DropCandidate, Bad
<1>1. /\ b \in linked /\ bad \in Chain[b] /\ bad \in Block /\ failed[bad] # {}
      /\ \A x \in above : x \in linked /\ x # Genesis /\ bad \in Chain[x]
  BY <1>0, DropFacts
<1>2. /\ failed' = [x \in Block |-> IF x \in above THEN failed[x] \cup {"CHILD"} ELSE failed[x]]
      /\ UNCHANGED unlinked
  BY <1>1 DEF DropCandidate, Bad
<1> HIDE DEF bad, b
<1>3. ASSUME NEW a \in Block, failed'[a] # failed[a]
      PROVE  failed'[a] = failed[a] \cup {"CHILD"} /\ failed'[Parent[a]] # {}
  <2>1. a \in above
    BY <1>2, <1>3
  <2>2. /\ Parent[a] \in Block /\ Chain[a] = Chain[Parent[a]] \cup {a} /\ bad \in Chain[a]
        /\ Parent[a] \in Chain[a] /\ a # bad
    BY <1>1, <2>1, Chains
  <2>3. Parent[a] \in Chain[b]
    BY <1>1, <2>1, <2>2, LinkedChain, Chains
  <2>4. bad \in Chain[Parent[a]]
    BY <2>2
  <2>5. Parent[a] \in above \/ Parent[a] = bad
    BY <1>1, <2>2, <2>3, <2>4, Chains
  <2>6. failed'[Parent[a]] # {}
    BY <1>1, <1>2, <2>2, <2>5
  <2> QED BY <1>2, <2>1, <2>6
<1> QED
  BY <1>0, <1>2, <1>3 DEF threadVars

LEMMA ProcessNewBlockHeadersExact ==
    ASSUME Sound, Exact, NEW t \in Thread, NEW b \in Block, ProcessNewBlockHeaders(t, b),
           \A u \in Thread : pc'[u] \notin {"invalidate"} \cup Invalidating
    PROVE  Exact'
<1>0. UNCHANGED <<haveData, linked, unlinked>>
  BY DEF ProcessNewBlockHeaders
<1>1. CASE HeaderAccepted(b)
  <2>1. known' = known \cup {b} /\ failed' = failed
    BY <1>1 DEF ProcessNewBlockHeaders, AddToBlockIndex
  <2>2. known' \subseteq Block
    BY <2>1 DEF Sound, TypeOK
  <2> QED BY <1>0, <2>1, <2>2, MarksExact
<1>2. CASE ~HeaderAccepted(b)
  <2>1. failed' = FailedAfterReject(b) /\ known' = known
    BY <1>2 DEF ProcessNewBlockHeaders
  <2>2. known' \subseteq Block
    BY <2>1 DEF Sound, TypeOK
  <2>3. /\ \A x \in Block : failed[x] \subseteq failed'[x]
        /\ \A x \in Block : failed'[x] # failed[x] =>
              failed'[x] = failed[x] \cup {"CHILD"} /\ failed'[Parent[x]] # {}
    BY <1>2, <2>1, RejectFacts
  <2> QED BY <1>0, <2>2, <2>3, MarksExact
<1> QED
  BY <1>1, <1>2

LEMMA ProcessNewBlockExact ==
    ASSUME Sound, Exact, NEW t \in Thread, NEW b \in Block, NEW requested \in BOOLEAN,
           ProcessNewBlock(t, b, requested),
           \A u \in Thread : pc'[u] \notin {"invalidate"} \cup Invalidating
    PROVE  Exact'
<1>1. CASE /\ ~HeaderAccepted(b) /\ failed' = FailedAfterReject(b)
           /\ UNCHANGED <<known, haveData, linked, unlinked>>
  <2>1. known' \subseteq Block
    BY <1>1 DEF Sound, TypeOK
  <2>2. /\ \A x \in Block : failed[x] \subseteq failed'[x]
        /\ \A x \in Block : failed'[x] # failed[x] =>
              failed'[x] = failed[x] \cup {"CHILD"} /\ failed'[Parent[x]] # {}
    BY <1>1, RejectFacts
  <2> QED BY <1>1, <2>1, <2>2, MarksExact
<1>2. CASE /\ known' = known \cup {b} /\ UNCHANGED <<failed, haveData, linked, unlinked>>
  <2>1. known' \subseteq Block
    BY <1>2 DEF Sound, TypeOK
  <2> QED BY <1>2, <2>1, MarksExact
<1>3. CASE /\ known' = known \cup {b} /\ b \notin haveData
           /\ failed' = [failed EXCEPT ![b] = @ \cup {"VALID"}]
           /\ UNCHANGED <<haveData, linked, unlinked>>
  <2>1. known' \subseteq Block
    BY <1>3 DEF Sound, TypeOK
  <2>2. failed \in [Block -> SUBSET {"VALID", "CHILD"}]
    BY DEF Sound, TypeOK
  <2>3. /\ \A a \in Block : failed[a] \subseteq failed'[a]
        /\ \A a \in Block : failed'[a] # failed[a] => "VALID" \in failed'[a] /\ a \notin haveData
    BY <1>3, <2>2
  <2> QED BY <1>3, <2>1, <2>3, MarksExact
<1>4. CASE /\ HeaderAccepted(b) /\ known' = known \cup {b} /\ b \notin haveData
           /\ ReceivedBlockTransactions(b) /\ failed' = failed
  BY <1>4, ReceivedExact
<1> QED
  BY <1>1, <1>2, <1>3, <1>4 DEF ProcessNewBlock, AddToBlockIndex

LEMMA RunExact ==
    ASSUME Sound, Exact, NEW t \in Thread, Run(t),
           \A u \in Thread : pc'[u] \notin {"invalidate"} \cup Invalidating
    PROVE  Exact'
<1>1. CASE DropCandidate(t)
  <2>1. known' \subseteq Block
    BY <1>1, DropCandidateMarks DEF Sound, TypeOK
  <2> QED BY <1>1, <2>1, DropCandidateMarks, MarksExact
<1>2. CASE ConnectTipFails(t)
  <2>1. /\ pc[t] = "step" /\ tip \in Chain[abc.mostWork]
        /\ failed' = [failed EXCEPT ![NextToConnect] = @ \cup {"VALID"}]
        /\ UNCHANGED <<known, haveData, linked, unlinked>>
    BY <1>2 DEF ConnectTipFails, InvalidBlockFound
  <2>2. NextToConnect \in linked
    BY <2>1, NextFacts
  <2>3. known' \subseteq Block /\ failed \in [Block -> SUBSET {"VALID", "CHILD"}]
    BY <2>1 DEF Sound, TypeOK
  <2>4. /\ \A a \in Block : failed[a] \subseteq failed'[a]
        /\ \A a \in Block : failed'[a] # failed[a] => "VALID" \in failed'[a] /\ a \in linked
    BY <2>1, <2>2, <2>3
  <2> QED BY <2>1, <2>3, <2>4, MarksExact
<1>3. CASE \/ AbcEnter(t) \/ AbcRound(t) \/ Decide(t) \/ DisconnectTip(t) \/ ConnectTip(t)
           \/ AfterStep(t)
  <2>1. UNCHANGED <<known, haveData, linked, unlinked, failed>>
    BY <1>3 DEF AbcEnter, AbcRound, Decide, DisconnectTip, ConnectTip, AfterStep, indexVars,
       chainVars
  <2>2. known' \subseteq Block
    BY <2>1 DEF Sound, TypeOK
  <2> QED BY <2>1, <2>2, MarksExact
<1>4. /\ ~InvalidateEnter(t) /\ ~InvalidateDisconnect(t) /\ ~InvalidateLeaveLoop(t)
      /\ ~InvalidateMark(t)
  BY DEF Exact, InvalidateEnter, InvalidateDisconnect, InvalidateLeaveLoop, InvalidateMark,
     Invalidating
<1> QED
  BY <1>1, <1>2, <1>3, <1>4 DEF Run

\* One step of a behaviour.
LEMMA NextExact ==
    ASSUME NoMarking
    PROVE  Sound /\ Exact /\ [Next]_vars => Exact'
<1> SUFFICES ASSUME Sound, Exact, [Next]_vars PROVE Exact'
  OBVIOUS
<1>0. \A u \in Thread : pc'[u] \notin {"invalidate"} \cup Invalidating
  BY NobodyInvalidates
<1>1. ASSUME UNCHANGED <<known, haveData, linked, unlinked, failed>> PROVE Exact'
  <2>1. known' \subseteq Block
    BY <1>1 DEF Sound, TypeOK
  <2> QED BY <1>0, <1>1, <2>1, MarksExact
<1>2. CASE UNCHANGED vars
  BY <1>1, <1>2 DEF vars, indexVars, chainVars
<1>3. ASSUME NEW t \in Thread, NEW b \in Block, PreciousBlock(t, b) PROVE Exact'
  BY <1>1, <1>3 DEF PreciousBlock
<1>4. ASSUME NEW t \in Thread, NEW b \in Block PROVE ~InvalidateBlock(t, b) /\ ~ReconsiderBlock(t, b)
  BY DEF InvalidateBlock, ReconsiderBlock, Command, NoMarking
<1>5. ASSUME NEW t \in Thread, NEW b \in Block, ProcessNewBlockHeaders(t, b) PROVE Exact'
  BY <1>0, <1>5, ProcessNewBlockHeadersExact
<1>6. ASSUME NEW t \in Thread, NEW b \in Block, NEW requested \in BOOLEAN,
             ProcessNewBlock(t, b, requested)
      PROVE  Exact'
  BY <1>0, <1>6, ProcessNewBlockExact
<1>7. ASSUME NEW t \in Thread, Restart(t) PROVE Exact'
  BY <1>0, <1>7, RestartExact
<1>8. ASSUME NEW t \in Thread, Run(t) PROVE Exact'
  BY <1>0, <1>8, RunExact
<1> QED
  BY <1>2, <1>3, <1>4, <1>5, <1>6, <1>7, <1>8 DEF Next

\* Without invalidateblock and reconsiderblock, every block that has arrived with
\* all its ancestors is linked, however they were ordered, and what is not linked
\* is remembered for as long as its chain may still arrive.
THEOREM ExactInvariant ==
    ASSUME NoMarking
    PROVE  Spec => []Exact
<1>1. Init => Exact
  BY InitExact
<1>2. Sound /\ Exact /\ [Next]_vars => Exact'
  BY NextExact
<1> QED
  BY <1>1, <1>2, SoundInvariant, PTL DEF Spec

\* The ancestors of a block that has passed ConnectBlock have passed it.
LEMMA ScriptsBelow ==
    ASSUME Sound, NEW b \in Block, level[b] = Scripts, NEW a \in Chain[b] \ {Genesis}
    PROVE  a \in Block /\ level[a] = Scripts /\ a \notin ConnectInvalid
<1> DEFINE S == {x \in Block : x = Genesis \/ level[x] = Scripts}
<1>1. S \in SUBSET Block /\ b \in S
  OBVIOUS
<1>2. \A x \in S \ {Genesis} : Parent[x] \in S
  BY Chains DEF Sound, IndexSound
<1>3. Chain[b] \subseteq S
  <2> HIDE DEF S
  <2> QED BY <1>1, <1>2, ChainClosed
<1>4. a \in Block /\ level[a] = Scripts
  BY <1>3
<1> QED
  BY <1>4 DEF Sound, IndexSound

\* The asserts of CheckBlockIndex about links, candidates, waiting blocks and marks
\* hold at every moment at which a thread may take cs_main and run it.
THEOREM BlockIndexChecks ==
    ASSUME NoMarking, Orderly
    PROVE  Spec => []CheckBlockIndex
<1>1. Sound /\ Complete /\ Exact => CheckBlockIndex
  <2> SUFFICES ASSUME Sound, Complete, Exact PROVE CheckBlockIndex
    OBVIOUS
  <2>1. LinksExact
    <3>1. ASSUME NEW b \in known
          PROVE  /\ b \in linked <=> Chain[b] \subseteq haveData
                 /\ b \in haveData <=> level[b] >= Transactions
                 /\ level[b] = Scripts => \A a \in Chain[b] \ {Genesis} : level[a] = Scripts
                 /\ b \notin linked => seq[b] <= 0
      <4>1. b \in Block
        BY DEF Sound, TypeOK
      <4>2. b \in linked => Chain[b] \subseteq haveData
        BY LinkedChain DEF Sound, IndexSound
      <4>3. Chain[b] \subseteq haveData => b \in linked
        BY DEF Exact
      <4>4. level[b] = Scripts => \A a \in Chain[b] \ {Genesis} : level[a] = Scripts
        BY <4>1, ScriptsBelow
      <4> QED BY <4>1, <4>2, <4>3, <4>4 DEF Sound, IndexSound
    <3> QED BY <3>1 DEF LinksExact
  <2>2. CandidatesComplete
    BY DEF Sound, TypeOK, Exact, Complete, CandidatesKept, Usable, CandidatesComplete
  <2>3. CandidatesNotWorse /\ UnlinkedSound
    BY DEF Sound, CandidatesSound, IndexSound, CandidatesNotWorse, UnlinkedSound
  <2>4. UnlinkedComplete
    <3>1. ASSUME NEW b \in haveData \ linked, NoInvalid(b), b \notin unlinked PROVE FALSE
      <4>1. PICK x \in Chain[b] \ haveData : failed[x] # {}
        BY <3>1 DEF Exact, Stuck
      <4>2. b \in Block /\ x \in Block /\ Chain[x] \subseteq Chain[b]
        BY Chains DEF Sound, TypeOK
      <4> QED BY <3>1, <4>1, <4>2 DEF Complete, FailedInvalid, NoInvalid
    <3> QED BY <3>1 DEF UnlinkedComplete
  <2>5. FailedHasInvalid
    BY DEF Sound, TypeOK, Complete, FailedInvalid, FailedHasInvalid
  <2> QED BY <2>1, <2>2, <2>3, <2>4, <2>5 DEF CheckBlockIndex
<1> QED
  BY <1>1, SoundInvariant, CompleteInvariant, ExactInvariant, PTL
-----------------------------------------------------------------------------
(***************************************************************************)
(* Headers below invalid blocks, where only ConnectBlock finds blocks      *)
(* invalid: one that ContextualCheckBlock rejects is marked, but is not    *)
(* put in m_failed_blocks.                                                 *)
(***************************************************************************)
OnlyConnectFails == CtxInvalid = {}

\* A block that ConnectBlock has rejected is in m_failed_blocks or, after a
\* restart has emptied that set, everything below it is marked.
InvalidRemembered ==
    \A a \in Block : "VALID" \in failed[a] =>
        /\ a \in ConnectInvalid
        /\ a \in failedBlocks \/ \A x \in known : a \in Chain[x] => failed[x] # {}

\* An accepted header has no ancestor that has been found invalid: a chain that
\* passed ConnectBlock is taken on trust, any other is looked up in m_failed_blocks.
LEMMA AcceptedBelowValid ==
    ASSUME Sound, InvalidRemembered, NEW b \in Block \ known, HeaderAccepted(b),
           NEW a \in Chain[b]
    PROVE  "VALID" \notin failed[a]
<1> SUFFICES ASSUME "VALID" \in failed[a] PROVE FALSE
  OBVIOUS
<1>1. b # Genesis /\ Parent[b] \in known /\ failed[Parent[b]] = {} /\ Parent[b] \in Block
  BY Chains DEF Sound, IndexSound, TypeOK, HeaderAccepted
<1>2. a \in Block /\ a \in known \ {Genesis}
  BY Chains DEF Sound, IndexSound
<1>3. a \in Chain[Parent[b]]
  BY <1>1, <1>2, Chains
<1>4. a \in failedBlocks /\ a \in ConnectInvalid
  BY <1>1, <1>2, <1>3 DEF InvalidRemembered
<1>5. level[Parent[b]] >= Scripts
  BY <1>1, <1>3, <1>4 DEF HeaderAccepted, DescendsFromFailed, IsValid
<1>6. level[Parent[b]] = Scripts
  BY <1>1, <1>5 DEF Sound, TypeOK, Unknown, Tree, Transactions, Scripts
<1> QED
  BY <1>1, <1>2, <1>3, <1>4, <1>6, ScriptsBelow

\* Steps that take no mark back and, if they find a block invalid, remember it.
LEMMA MarksRemembered ==
    ASSUME Sound, InvalidRemembered,
           failedBlocks \subseteq failedBlocks',
           \A a \in Block : failed[a] \subseteq failed'[a],
           \A a \in Block : "VALID" \in failed'[a] \ failed[a] =>
              a \in ConnectInvalid \cap failedBlocks',
           \A x \in known' \ known : x \in Block /\ HeaderAccepted(x)
    PROVE  InvalidRemembered'
<1>1. ASSUME NEW a \in Block, "VALID" \in failed'[a]
      PROVE  /\ a \in ConnectInvalid
             /\ a \in failedBlocks' \/ \A x \in known' : a \in Chain[x] => failed'[x] # {}
  <2>1. CASE "VALID" \notin failed[a]
    BY <1>1, <2>1
  <2>2. CASE "VALID" \in failed[a]
    <3>1. /\ a \in ConnectInvalid
          /\ a \in failedBlocks \/ \A x \in known : a \in Chain[x] => failed[x] # {}
      BY <2>2 DEF InvalidRemembered
    <3>2. \A x \in known : x \in Block
      BY DEF Sound, TypeOK
    <3>3. \A x \in known' \ known : a \notin Chain[x]
      BY <2>2, AcceptedBelowValid
    <3> QED BY <3>1, <3>2, <3>3
  <2> QED BY <2>1, <2>2
<1> QED
  BY <1>1 DEF InvalidRemembered

LEMMA NextRemembered ==
    ASSUME NoMarking, OnlyConnectFails
    PROVE  Sound /\ Exact /\ InvalidRemembered /\ [Next]_vars =>
             /\ InvalidRemembered'
             /\ \A x \in known' \ known : x \in Block /\ HeaderAccepted(x)
<1> SUFFICES ASSUME Sound, Exact, InvalidRemembered, [Next]_vars
             PROVE  /\ InvalidRemembered'
                    /\ \A x \in known' \ known : x \in Block /\ HeaderAccepted(x)
  OBVIOUS
<1> DEFINE Fresh == \A x \in known' \ known : x \in Block /\ HeaderAccepted(x)
<1>0. failed \in [Block -> SUBSET {"VALID", "CHILD"}]
  BY DEF Sound, TypeOK
<1>1. ASSUME UNCHANGED <<known, failed, failedBlocks>> PROVE InvalidRemembered' /\ Fresh
  BY <1>1 DEF InvalidRemembered
<1>2. ASSUME NEW b \in Block, HeaderAccepted(b), known' = known \cup {b},
             UNCHANGED <<failed, failedBlocks>>
      PROVE  InvalidRemembered' /\ Fresh
  <2>1. Fresh
    BY <1>2
  <2> QED BY <1>2, <2>1, MarksRemembered
<1>3. ASSUME NEW b \in Block, ~HeaderAccepted(b), failed' = FailedAfterReject(b),
             UNCHANGED <<known, failedBlocks>>
      PROVE  InvalidRemembered' /\ Fresh
  <2>1. \A x \in Block : failed[x] \subseteq failed'[x]
    BY <1>3, RejectFacts
  <2>2. \A x \in Block : "VALID" \notin failed'[x] \ failed[x]
    <3>1. \A x \in Block : failed'[x] = failed[x] \/ failed'[x] = failed[x] \cup {"CHILD"}
      BY <1>3, RejectFacts
    <3> QED BY <3>1
  <2> QED BY <1>3, <2>1, <2>2, MarksRemembered
<1>4. CASE UNCHANGED vars
  BY <1>1, <1>4 DEF vars, indexVars, chainVars
<1>5. ASSUME NEW t \in Thread, NEW b \in Block, ProcessNewBlockHeaders(t, b)
      PROVE  InvalidRemembered' /\ Fresh
  <2>1. CASE HeaderAccepted(b)
    BY <1>2, <1>5, <2>1 DEF ProcessNewBlockHeaders, AddToBlockIndex
  <2>2. CASE ~HeaderAccepted(b)
    BY <1>3, <1>5, <2>2 DEF ProcessNewBlockHeaders
  <2> QED BY <2>1, <2>2
<1>6. ASSUME NEW t \in Thread, NEW b \in Block, NEW requested \in BOOLEAN,
             ProcessNewBlock(t, b, requested)
      PROVE  InvalidRemembered' /\ Fresh
  <2>1. UNCHANGED failedBlocks /\ b \notin CtxInvalid
    BY <1>6 DEF ProcessNewBlock, OnlyConnectFails
  <2>2. \/ ~HeaderAccepted(b) /\ failed' = FailedAfterReject(b) /\ known' = known
        \/ HeaderAccepted(b) /\ failed' = failed /\ known' = known \cup {b}
    BY <1>6, <2>1 DEF ProcessNewBlock, AddToBlockIndex
  <2> QED BY <1>2, <1>3, <2>1, <2>2
<1>7. ASSUME NEW t \in Thread, NEW b \in Block,
             PreciousBlock(t, b) \/ InvalidateBlock(t, b) \/ ReconsiderBlock(t, b)
      PROVE  InvalidRemembered' /\ Fresh
  <2>1. ~InvalidateBlock(t, b) /\ ~ReconsiderBlock(t, b)
    BY DEF InvalidateBlock, ReconsiderBlock, Command, NoMarking
  <2> QED BY <1>1, <1>7, <2>1 DEF PreciousBlock
<1>8. ASSUME NEW t \in Thread, Restart(t) PROVE InvalidRemembered' /\ Fresh
  <2>1. known' = known
    BY <1>8 DEF Restart
  <2>2. /\ \A b \in Block : failed'[b] # failed[b] => failed'[b] = {"CHILD"}
        /\ \A b \in known : (\E a \in Chain[b] : failed[a] # {}) => failed'[b] # {}
    BY <1>8, ReloadFacts
  <2>3. \A a \in Block : "VALID" \in failed'[a] => "VALID" \in failed[a]
    BY <2>2
  <2> QED BY <2>1, <2>2, <2>3 DEF InvalidRemembered
<1>9. ASSUME NEW t \in Thread, Run(t) PROVE InvalidRemembered' /\ Fresh
  <2>1. CASE DropCandidate(t)
    <3>1. /\ UNCHANGED <<known, failedBlocks>>
          /\ \A a \in Block : failed[a] \subseteq failed'[a]
          /\ \A a \in Block : failed'[a] = failed[a] \/ failed'[a] = failed[a] \cup {"CHILD"}
      BY <2>1, DropCandidateMarks
    <3>2. \A a \in Block : "VALID" \notin failed'[a] \ failed[a]
      BY <3>1
    <3> QED BY <3>1, <3>2, MarksRemembered
  <2>2. CASE ConnectTipFails(t)
    <3>1. /\ NextToConnect \in ConnectInvalid
          /\ failed' = [failed EXCEPT ![NextToConnect] = @ \cup {"VALID"}]
          /\ failedBlocks' = failedBlocks \cup {NextToConnect}
          /\ known' = known
      BY <2>2 DEF ConnectTipFails, InvalidBlockFound
    <3>2. \A a \in Block : failed[a] \subseteq failed'[a] /\ (a # NextToConnect => failed'[a] = failed[a])
      BY <1>0, <3>1
    <3> QED BY <3>1, <3>2, MarksRemembered
  <2>3. CASE \/ AbcEnter(t) \/ AbcRound(t) \/ Decide(t) \/ DisconnectTip(t) \/ ConnectTip(t)
             \/ AfterStep(t)
    BY <1>1, <2>3 DEF AbcEnter, AbcRound, Decide, DisconnectTip, ConnectTip, AfterStep,
       indexVars, chainVars
  <2>4. /\ ~InvalidateEnter(t) /\ ~InvalidateDisconnect(t) /\ ~InvalidateLeaveLoop(t)
        /\ ~InvalidateMark(t)
    BY DEF Exact, InvalidateEnter, InvalidateDisconnect, InvalidateLeaveLoop, InvalidateMark,
       Invalidating
  <2> QED BY <1>9, <2>1, <2>2, <2>3, <2>4 DEF Run
<1>10. CASE Next
  <2> HIDE DEF Fresh
  <2>1. PICK t \in Thread : \/ Run(t) \/ Restart(t)
                          \/ \E b \in Block : \/ ProcessNewBlockHeaders(t, b)
                                              \/ \E requested \in BOOLEAN : ProcessNewBlock(t, b, requested)
                                              \/ PreciousBlock(t, b) \/ InvalidateBlock(t, b)
                                              \/ ReconsiderBlock(t, b)
    BY <1>10 DEF Next
  <2>2. InvalidRemembered' /\ Fresh
    BY <1>5, <1>6, <1>7, <1>8, <1>9, <2>1
  <2> QED BY <2>2 DEF Fresh
<1> QED
  BY <1>4, <1>10

\* AcceptBlockHeader: no header enters the index below a block that has been found
\* invalid, whether the marks have reached its parent or not.
THEOREM HeadersAreBelowValid ==
    ASSUME NoMarking, OnlyConnectFails
    PROVE  Spec => NoHeaderBelowInvalid
<1>1. Init => InvalidRemembered
  BY DEF Init, InvalidRemembered
<1>2. Sound /\ Exact /\ InvalidRemembered /\ [Next]_vars => InvalidRemembered'
  BY NextRemembered
<1>3. Sound /\ Exact /\ InvalidRemembered /\ [Next]_vars =>
        [\A b \in known' \ known : \A a \in Chain[b] : "VALID" \notin failed[a]]_vars
  BY NextRemembered, AcceptedBelowValid
<1> QED
  BY <1>1, <1>2, <1>3, SoundInvariant, ExactInvariant, PTL DEF Spec, NoHeaderBelowInvalid
=============================================================================
