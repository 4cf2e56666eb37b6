-------------------------- MODULE CheckQueueProofs --------------------------
(***************************************************************************)
(* For any number of workers, any checks and any batch size, the counters  *)
(* of CCheckQueue are exact, Wait() returns the right verdict and leaves   *)
(* no check behind.                                                        *)
(*                                                                         *)
(* QueueInv is the inductive invariant.  Of its parts, Places says which   *)
(* thread may be where and what it then holds, Settled that nothing is     *)
(* counted when no session runs, and Verdict that the failures of a        *)
(* session are all somewhere: in the queue, in a batch, in the fOk of a    *)
(* thread that has not reported yet, or in fAllOk.                         *)
(*                                                                         *)
(* Three actions end in the same critical section, Proceed.  Mid says what *)
(* holds in the middle, when thread t has taken its own part out of the    *)
(* counters: each of the three establishes it, and from it each way        *)
(* Proceed goes on restores the invariant.                                 *)
(***************************************************************************)
EXTENDS CheckQueue, SumTheorems

Places ==
    /\ \A w \in Worker : pc[w] \in LoopPc \cup {"exit"}
    /\ \A t \in Thread : pc[t] # "work" => vChecks[t] = {}
    /\ \A t \in Thread : pc[t] = "work" => nNow[t] > 0
    /\ pc[Master] \notin LoopPc => nNow[Master] = 0
    /\ m_request_stop <=> pc[Master] \in {"notify_stop", "join", "exit"}
    /\ queue \subseteq added

NoSession == pc[Master] \in {"idle", "notify_stop", "join", "exit"}

Settled == NoSession => nTodo = 0 /\ fAllOk

\* No thread but those of S has failed a check that it has not reported.
NoneFailed(S) ==
    \A t \in S : /\ pc[t] = "work" => fOk[t] /\ vChecks[t] \cap Bad = {}
                 /\ pc[t] = "loop" /\ nNow[t] > 0 => fOk[t]

Verdict ==
    ~NoSession => ((fAllOk /\ NoneFailed(Thread) /\ queue \cap Bad = {}) <=> added \cap Bad = {})

QueueInv == CountersExact /\ Places /\ Settled /\ Verdict /\ ResultExact

Mid(t, total, todo, idle, ok, waiters) ==
    /\ pc[t] \in {"loop", "wait"}
    /\ total \in Nat /\ todo \in Nat /\ idle \in Nat /\ ok \in BOOLEAN
    /\ waiters \subseteq Thread
    /\ ~m_request_stop => total = Cardinality(Joined \ {t}) + 1
    /\ todo = Cardinality(queue) + SumFunctionOnSet(InFlight, Thread \ {t})
    /\ idle = Cardinality(Blocked \ {t})
    /\ NoSession => todo = 0 /\ ok
    /\ ~NoSession => ((ok /\ NoneFailed(Thread \ {t}) /\ queue \cap Bad = {})
                        <=> added \cap Bad = {})
-----------------------------------------------------------------------------
\* There are finitely many threads and checks.
LEMMA Finite ==
    /\ IsFiniteSet(Thread)
    /\ \A S : S \subseteq Check => IsFiniteSet(S)
BY CheckQueueConstants, FS_AddElement, FS_Subset DEF Thread

\* The part of one thread in the sum of the batches.
LEMMA InFlightSplit ==
    ASSUME TypeOK, NEW t \in Thread
    PROVE  /\ \A u \in Thread : InFlight[u] \in Nat
           /\ SumFunctionOnSet(InFlight, Thread \ {t}) \in Nat
           /\ SumFunctionOnSet(InFlight, Thread) =
                 InFlight[t] + SumFunctionOnSet(InFlight, Thread \ {t})
<1>1. \A u \in Thread : InFlight[u] \in Nat
  BY DEF InFlight, TypeOK
<1>2. IsFiniteSet(Thread) /\ IsFiniteSet(Thread \ {t})
  BY Finite, FS_RemoveElement
<1> HIDE DEF InFlight
<1>3. SumFunctionOnSet(InFlight, Thread \ {t}) \in Nat
  BY <1>1, <1>2, SumNat
<1>4. \A u \in Thread : InFlight[u] \in Int
  BY <1>1
<1>5. SumFunctionOnSet(InFlight, Thread) =
        InFlight[t] + SumFunctionOnSet(InFlight, Thread \ {t})
  BY <1>2, <1>4, SumRemove
<1>6. QED
  BY <1>1, <1>3, <1>5

\* A step of thread t changes only its own part in what the counters count.
LEMMA OthersKeep ==
    ASSUME TypeOK, TypeOK', NEW t \in Thread,
           \A u \in Thread \ {t} : pc'[u] = pc[u] /\ nNow'[u] = nNow[u]
    PROVE  /\ SumFunctionOnSet(InFlight', Thread) =
                 InFlight'[t] + SumFunctionOnSet(InFlight, Thread \ {t})
           /\ Cardinality(Blocked \ {t}) \in Nat /\ Cardinality(Joined \ {t}) \in Nat
           /\ Cardinality(Blocked') =
                 Cardinality(Blocked \ {t}) + IF t \in Blocked' THEN 1 ELSE 0
           /\ Cardinality(Joined') =
                 Cardinality(Joined \ {t}) + IF t \in Joined' THEN 1 ELSE 0
<1>1. /\ \A u \in Thread : InFlight'[u] \in Nat
      /\ \A u \in Thread \ {t} : InFlight'[u] = InFlight[u]
  BY DEF InFlight, TypeOK
<1>2. /\ Blocked \subseteq Thread /\ Joined \subseteq Thread
      /\ Blocked' \subseteq Thread /\ Joined' \subseteq Thread
      /\ Blocked' \ {t} = Blocked \ {t} /\ Joined' \ {t} = Joined \ {t}
  BY DEF Blocked, Joined
<1>3. IsFiniteSet(Thread) /\ IsFiniteSet(Thread \ {t})
  BY Finite, FS_RemoveElement
<1>4. SumFunctionOnSet(InFlight', Thread) =
        InFlight'[t] + SumFunctionOnSet(InFlight, Thread \ {t})
  <2> DEFINE g == InFlight'
  <2>1. (\A u \in Thread : g[u] \in Int) /\ \A u \in Thread \ {t} : g[u] = InFlight[u]
    BY <1>1
  <2> HIDE DEF g
  <2>2. SumFunctionOnSet(g, Thread) = g[t] + SumFunctionOnSet(g, Thread \ {t})
    BY <1>3, <2>1, SumRemove
  <2>3. SumFunctionOnSet(g, Thread \ {t}) = SumFunctionOnSet(InFlight, Thread \ {t})
    BY <1>3, <2>1, SumSame
  <2>4. QED
    BY <2>2, <2>3 DEF g
<1>5. ASSUME NEW S, NEW R, S \subseteq Thread, R \subseteq Thread, S \ {t} = R \ {t}
      PROVE  /\ Cardinality(R \ {t}) \in Nat
             /\ Cardinality(S) = Cardinality(R \ {t}) + IF t \in S THEN 1 ELSE 0
  <2>1. IsFiniteSet(S) /\ IsFiniteSet(R)
    BY <1>3, <1>5, FS_Subset
  <2>2. IsFiniteSet(S \ {t}) /\ Cardinality(S \ {t}) \in Nat /\ Cardinality(S) \in Nat
    BY <2>1, FS_RemoveElement, FS_CardinalityType
  <2>3. Cardinality(S \ {t}) = IF t \in S THEN Cardinality(S) - 1 ELSE Cardinality(S)
    BY <2>1, FS_RemoveElement
  <2>4. QED
    BY <1>5, <2>2, <2>3
<1>6. QED
  BY <1>2, <1>4, <1>5
-----------------------------------------------------------------------------
\* The three ways into the critical section take t out of the counters.
LEMMA EnterMid ==
    ASSUME QueueInv, NEW t \in Thread, pc[t] = "loop", nNow[t] = 0
    PROVE  Mid(t, nTotal + 1, nTodo, nIdle, fAllOk, waiting)
<1> USE DEF QueueInv, CountersExact
<1>1. TypeOK
  OBVIOUS
<1>2. InFlight[t] = 0 /\ Joined \ {t} = Joined /\ Blocked \ {t} = Blocked
  BY DEF InFlight, Joined, Blocked, TypeOK
<1>3. nTodo = Cardinality(queue) + SumFunctionOnSet(InFlight, Thread \ {t})
  BY <1>1, <1>2, InFlightSplit
<1>4. NoneFailed(Thread) <=> NoneFailed(Thread \ {t})
  BY DEF NoneFailed
<1>5. ~NoSession => ((fAllOk /\ NoneFailed(Thread \ {t}) /\ queue \cap Bad = {})
                        <=> added \cap Bad = {})
  BY <1>4 DEF Verdict
<1>6. ~m_request_stop => nTotal + 1 = Cardinality(Joined \ {t}) + 1
  BY <1>2
<1>7. /\ nTotal + 1 \in Nat /\ nTodo \in Nat /\ nIdle \in Nat /\ fAllOk \in BOOLEAN
      /\ waiting \subseteq Thread
  BY <1>1 DEF TypeOK
<1>8. nIdle = Cardinality(Blocked \ {t})
  BY <1>2
<1>9. NoSession => nTodo = 0 /\ fAllOk
  BY DEF Settled
<1>10. QED
  BY <1>3, <1>5, <1>6, <1>7, <1>8, <1>9 DEF Mid

\* A thread back from a batch takes the batch and its result out.
LEMMA FinishMid ==
    ASSUME QueueInv, NEW t \in Thread, pc[t] = "loop", nNow[t] > 0
    PROVE  Mid(t, nTotal, nTodo - nNow[t], nIdle, fAllOk /\ fOk[t],
               IF nTodo - nNow[t] = 0 /\ t # Master THEN waiting \ {Master} ELSE waiting)
<1> USE DEF QueueInv, CountersExact
<1>1. TypeOK
  OBVIOUS
<1>2. InFlight[t] = nNow[t] /\ t \in Joined /\ Joined \subseteq Thread /\ Blocked \ {t} = Blocked
  BY DEF InFlight, Joined, Blocked, TypeOK
<1>3. Cardinality(queue) \in Nat
  BY <1>1, Finite, FS_CardinalityType DEF TypeOK
<1>4. /\ nTodo - nNow[t] = Cardinality(queue) + SumFunctionOnSet(InFlight, Thread \ {t})
      /\ nTodo - nNow[t] \in Nat /\ nTodo > 0
  <2>1. /\ SumFunctionOnSet(InFlight, Thread \ {t}) \in Nat
        /\ SumFunctionOnSet(InFlight, Thread) =
              InFlight[t] + SumFunctionOnSet(InFlight, Thread \ {t})
    BY <1>1, InFlightSplit
  <2>2. nTodo = Cardinality(queue) + SumFunctionOnSet(InFlight, Thread) /\ nNow[t] \in Nat
    BY <1>1 DEF TypeOK
  <2>3. QED
    BY <1>2, <1>3, <2>1, <2>2
<1>5. ~NoSession
  BY <1>4 DEF Settled
<1>6. ~m_request_stop => nTotal = Cardinality(Joined \ {t}) + 1
  <2>1. IsFiniteSet(Joined)
    BY <1>2, Finite, FS_Subset
  <2>2. Cardinality(Joined) \in Nat /\ Cardinality(Joined \ {t}) = Cardinality(Joined) - 1
    BY <1>2, <2>1, FS_CardinalityType, FS_RemoveElement
  <2> QED BY <2>2
<1>7. NoneFailed(Thread) <=> (NoneFailed(Thread \ {t}) /\ fOk[t])
  BY DEF NoneFailed
<1>8. (fAllOk /\ fOk[t] /\ NoneFailed(Thread \ {t}) /\ queue \cap Bad = {})
         <=> added \cap Bad = {}
  BY <1>5, <1>7 DEF Verdict
<1>9. QED
  BY <1>1, <1>2, <1>4, <1>5, <1>6, <1>8 DEF Mid, TypeOK

\* A thread that wakes is no longer idle.
LEMMA WakeMid ==
    ASSUME QueueInv, NEW t \in Thread, pc[t] = "wait"
    PROVE  Mid(t, nTotal, nTodo, nIdle - 1, fAllOk, waiting)
<1> USE DEF QueueInv, CountersExact
<1>1. TypeOK
  OBVIOUS
<1>2. /\ InFlight[t] = 0 /\ t \in Joined /\ t \in Blocked
      /\ Joined \subseteq Thread /\ Blocked \subseteq Thread
  BY DEF InFlight, Joined, Blocked, TypeOK
<1>3. nTodo = Cardinality(queue) + SumFunctionOnSet(InFlight, Thread \ {t})
  BY <1>1, <1>2, InFlightSplit
<1>4. NoneFailed(Thread) <=> NoneFailed(Thread \ {t})
  BY DEF NoneFailed
<1>5. ~NoSession => ((fAllOk /\ NoneFailed(Thread \ {t}) /\ queue \cap Bad = {})
                        <=> added \cap Bad = {})
  BY <1>4 DEF Verdict
<1>6. IsFiniteSet(Joined) /\ IsFiniteSet(Blocked)
  BY <1>2, Finite, FS_Subset
<1>7. /\ Cardinality(Joined) \in Nat /\ Cardinality(Joined \ {t}) = Cardinality(Joined) - 1
      /\ Cardinality(Blocked \ {t}) \in Nat /\ Cardinality(Blocked) \in Nat
      /\ Cardinality(Blocked \ {t}) = Cardinality(Blocked) - 1
  BY <1>2, <1>6, FS_CardinalityType, FS_RemoveElement
<1>8. QED
  BY <1>1, <1>3, <1>5, <1>7 DEF Mid, TypeOK, Settled
-----------------------------------------------------------------------------
\* What the four ways out of the critical section have in common: thread t goes
\* to its new place and the counters follow.
LEMMA ProceedCounters ==
    ASSUME TypeOK, TypeOK', NEW t \in Thread, NEW total, NEW todo, NEW idle, NEW ok,
           NEW waiters, Mid(t, total, todo, idle, ok, waiters),
           \A u \in Thread \ {t} : pc'[u] = pc[u] /\ nNow'[u] = nNow[u],
           nTodo' - Cardinality(queue') - InFlight'[t] = todo - Cardinality(queue),
           nIdle' = idle + IF t \in Blocked' THEN 1 ELSE 0,
           ~m_request_stop' => ~m_request_stop /\ nTotal' = total - 1 + IF t \in Joined' THEN 1 ELSE 0
    PROVE  CountersExact'
<1>1. /\ SumFunctionOnSet(InFlight', Thread) =
                 InFlight'[t] + SumFunctionOnSet(InFlight, Thread \ {t})
      /\ Cardinality(Blocked \ {t}) \in Nat /\ Cardinality(Joined \ {t}) \in Nat
      /\ Cardinality(Blocked') = Cardinality(Blocked \ {t}) + IF t \in Blocked' THEN 1 ELSE 0
      /\ Cardinality(Joined') = Cardinality(Joined \ {t}) + IF t \in Joined' THEN 1 ELSE 0
  BY OthersKeep
<1>2. SumFunctionOnSet(InFlight, Thread \ {t}) \in Nat
  BY InFlightSplit
<1>3. InFlight'[t] \in Nat
  BY DEF InFlight, TypeOK
<1>4. Cardinality(queue) \in Nat /\ Cardinality(queue') \in Nat /\ nTodo' \in Nat
  BY Finite, FS_CardinalityType DEF TypeOK
<1>5. nTodo' = Cardinality(queue') + SumFunctionOnSet(InFlight', Thread)
  BY <1>1, <1>2, <1>3, <1>4 DEF Mid
<1>6. nIdle' = Cardinality(Blocked')
  BY <1>1 DEF Mid
<1>7. ~m_request_stop' => nTotal' = Cardinality(Joined')
  BY <1>1 DEF Mid
<1>8. QED
  BY <1>5, <1>6, <1>7 DEF CountersExact

\* The master leaves the loop when nothing is left to do: then the verdict is
\* complete.
LEMMA ReturnInv ==
    ASSUME QueueInv, NEW t \in Thread, NEW total, NEW todo, NEW idle, NEW ok, NEW waiters,
           Mid(t, total, todo, idle, ok, waiters), Return(t, total, todo, idle, ok, waiters)
    PROVE  QueueInv'
<1>1. TypeOK /\ Places
  BY DEF QueueInv, CountersExact
<1>2. t = Master /\ todo = 0 /\ queue = {} /\ ~m_request_stop
  BY DEF Return, MayReturn
<1>3. Cardinality(queue) = 0 /\ Cardinality(Joined \ {t}) \in Nat
  <2>1. IsFiniteSet(Joined \ {t})
    BY Finite, FS_Subset DEF Joined
  <2> QED BY <1>2, <2>1, FS_EmptySet, FS_CardinalityType
<1>4. TypeOK'
  <2>1. nTotal' \in Nat /\ nTodo' \in Nat /\ nIdle' \in Nat
    <3>1. total = Cardinality(Joined \ {t}) + 1 /\ todo \in Nat /\ idle \in Nat
      BY <1>2, Zenon DEF Mid
    <3>2. nTotal' = total - 1 /\ nTodo' = todo /\ nIdle' = idle
      BY DEF Return
    <3>3. QED
      BY <1>3, <3>1, <3>2
  <2>2. result' \in BOOLEAN /\ fAllOk' \in BOOLEAN /\ m_request_stop' \in BOOLEAN
    BY <1>1 DEF Return, Mid, TypeOK
  <2>3. /\ pc' \in [Thread -> LoopPc \cup ControlPc \cup {"exit"}]
        /\ nNow' \in [Thread -> Nat] /\ waiting' \subseteq Thread
    BY <1>1 DEF Return, Mid, TypeOK, ControlPc
  <2>4. QED
    BY <1>1, <2>1, <2>2, <2>3 DEF TypeOK, Return
<1>5. \A u \in Thread \ {t} : pc'[u] = pc[u] /\ nNow'[u] = nNow[u]
  BY <1>1 DEF Return, TypeOK
<1>6. pc'[t] = "idle" /\ nNow'[t] = 0 /\ InFlight'[t] = 0 /\ t \notin Blocked' /\ t \notin Joined'
  BY <1>1, <1>4 DEF Return, TypeOK, InFlight, Blocked, Joined
<1>7. CountersExact'
  <2>1. /\ nTodo' - Cardinality(queue') - InFlight'[t] = todo - Cardinality(queue)
        /\ nIdle' = idle + IF t \in Blocked' THEN 1 ELSE 0
        /\ nTotal' = total - 1 + IF t \in Joined' THEN 1 ELSE 0
    BY <1>2, <1>3, <1>6 DEF Return, Mid
  <2>2. QED
    BY <1>1, <1>2, <1>4, <1>5, <2>1, ProceedCounters
<1>8. Places'
  <2>1. m_request_stop' <=> pc'[Master] \in {"notify_stop", "join", "exit"}
    BY <1>2, <1>6 DEF Return
  <2>2. \A w \in Worker : w \in Thread \ {t}
    BY <1>2, CheckQueueConstants DEF Thread
  <2>3. vChecks' = vChecks /\ queue' = queue /\ added' = added /\ pc[t] # "work"
    BY DEF Return, Mid
  <2>4. QED
    BY <1>1, <1>2, <1>5, <1>6, <2>1, <2>2, <2>3 DEF Places
<1>9. NoneFailed(Thread \ {t})
  <2>1. SumFunctionOnSet(InFlight, Thread \ {t}) = 0
    BY <1>1, <1>2, <1>3, InFlightSplit DEF Mid
  <2>2. IsFiniteSet(Thread \ {t}) /\ \A u \in Thread \ {t} : InFlight[u] \in Nat
    BY <1>1, Finite, FS_RemoveElement, InFlightSplit
  <2>3. \A u \in Thread \ {t} : InFlight[u] = 0
    BY <2>1, <2>2, SumZero
  <2>4. QED
    BY <1>1, <2>3 DEF NoneFailed, InFlight, Places, TypeOK
<1>10. ~NoSession
  BY <1>2 DEF NoSession, Mid
<1>11. ok <=> added \cap Bad = {}
  BY <1>2, <1>9, <1>10 DEF Mid
<1>12. ResultExact' /\ Settled' /\ Verdict'
  BY <1>2, <1>6, <1>11 DEF ResultExact, Settled, Verdict, NoSession, Return
<1>13. QED
  BY <1>7, <1>8, <1>12 DEF QueueInv

\* A thread that finds nothing to do blocks and is idle.
LEMMA CondWaitInv ==
    ASSUME QueueInv, NEW t \in Thread, NEW total, NEW todo, NEW idle, NEW ok, NEW waiters,
           Mid(t, total, todo, idle, ok, waiters), CondWait(t, total, todo, idle, ok, waiters)
    PROVE  QueueInv'
<1>1. TypeOK /\ Places /\ ResultExact
  BY DEF QueueInv, CountersExact
<1>2. pc[t] \in {"loop", "wait"} /\ ~m_request_stop /\ m_request_stop' = m_request_stop
  BY DEF CondWait, Mid
<1>3. TypeOK'
  <2>1. nTotal' \in Nat /\ nTodo' \in Nat /\ nIdle' \in Nat
    <3>1. total \in Nat /\ todo \in Nat /\ idle \in Nat
      BY DEF Mid
    <3> QED BY <3>1 DEF CondWait
  <2>2. fAllOk' \in BOOLEAN
    BY DEF CondWait, Mid
  <2>3. /\ pc' \in [Thread -> LoopPc \cup ControlPc \cup {"exit"}] /\ waiting' \subseteq Thread
    BY <1>1 DEF CondWait, Mid, TypeOK, LoopPc
  <2>4. QED
    BY <1>1, <2>1, <2>2, <2>3 DEF TypeOK, CondWait
<1>4. \A u \in Thread \ {t} : pc'[u] = pc[u] /\ nNow'[u] = nNow[u]
  BY <1>1 DEF CondWait, TypeOK
<1>5. pc'[t] = "wait" /\ InFlight'[t] = 0 /\ t \in Blocked' /\ t \in Joined'
  BY <1>1, <1>3 DEF CondWait, TypeOK, InFlight, Blocked, Joined
<1>6. CountersExact'
  <2>1. queue' = queue /\ Cardinality(queue) \in Nat /\ todo \in Nat /\ total \in Nat
    BY <1>1, Finite, FS_CardinalityType DEF CondWait, TypeOK, Mid
  <2>2. /\ nTodo' - Cardinality(queue') - InFlight'[t] = todo - Cardinality(queue)
        /\ nIdle' = idle + IF t \in Blocked' THEN 1 ELSE 0
        /\ nTotal' = total - 1 + IF t \in Joined' THEN 1 ELSE 0
    BY <1>5, <2>1 DEF CondWait
  <2>3. QED
    BY <1>1, <1>2, <1>3, <1>4, <2>2, ProceedCounters
<1>7. NoSession' <=> NoSession
  BY <1>2, <1>4, <1>5 DEF NoSession, Thread
<1>8. Places'
  <2>1. pc'[Master] = pc[Master] \/ (t = Master /\ pc'[Master] = "wait")
    BY <1>4, <1>5 DEF Thread
  <2>2. vChecks' = vChecks /\ queue' = queue /\ added' = added /\ nNow' = nNow
    BY DEF CondWait
  <2>3. m_request_stop' <=> pc'[Master] \in {"notify_stop", "join", "exit"}
    BY <1>1, <1>2, <2>1 DEF Places
  <2>4. \A w \in Worker : pc'[w] \in LoopPc \cup {"exit"}
    BY <1>1, <1>4, <1>5 DEF Places, LoopPc, Thread
  <2>5. /\ \A u \in Thread : pc'[u] # "work" => vChecks'[u] = {}
        /\ \A u \in Thread : pc'[u] = "work" => nNow'[u] > 0
    BY <1>1, <1>2, <1>4, <1>5, <2>2 DEF Places
  <2>6. pc'[Master] \notin LoopPc => nNow'[Master] = 0
    BY <1>1, <2>1, <2>2 DEF Places, LoopPc
  <2>7. QED
    BY <1>1, <2>2, <2>3, <2>4, <2>5, <2>6 DEF Places
<1>9. NoneFailed(Thread)' <=> NoneFailed(Thread \ {t})
  BY <1>4, <1>5 DEF NoneFailed, CondWait
<1>10. Settled' /\ Verdict'
  BY <1>7, <1>9 DEF Settled, Verdict, Mid, CondWait
<1>11. ResultExact'
  BY <1>1, <1>4, <1>5 DEF ResultExact, CondWait, Thread
<1>12. QED
  BY <1>6, <1>8, <1>10, <1>11 DEF QueueInv

\* A worker that is told to stop leaves; no session is open then.
LEMMA StopThreadInv ==
    ASSUME QueueInv, NEW t \in Thread, NEW total, NEW todo, NEW idle, NEW ok, NEW waiters,
           Mid(t, total, todo, idle, ok, waiters), StopThread(t, total, todo, idle, ok, waiters)
    PROVE  QueueInv'
<1>1. TypeOK /\ Places /\ ResultExact
  BY DEF QueueInv, CountersExact
<1>2. pc[t] \in {"loop", "wait"} /\ m_request_stop /\ m_request_stop' = m_request_stop
  BY DEF StopThread, Mid
<1>3. t # Master
  BY <1>1, <1>2 DEF Places
<1>4. TypeOK'
  <2>1. nTotal' \in Nat /\ nTodo' \in Nat /\ nIdle' \in Nat
    BY DEF StopThread, Mid
  <2>2. fAllOk' \in BOOLEAN
    BY DEF StopThread, Mid
  <2>3. /\ pc' \in [Thread -> LoopPc \cup ControlPc \cup {"exit"}] /\ waiting' \subseteq Thread
    BY <1>1 DEF StopThread, Mid, TypeOK
  <2>4. QED
    BY <1>1, <2>1, <2>2, <2>3 DEF TypeOK, StopThread
<1>5. \A u \in Thread \ {t} : pc'[u] = pc[u] /\ nNow'[u] = nNow[u]
  BY <1>1 DEF StopThread, TypeOK
<1>6. pc'[t] = "exit" /\ InFlight'[t] = 0 /\ t \notin Blocked' /\ pc'[Master] = pc[Master]
  BY <1>1, <1>3, <1>4 DEF StopThread, TypeOK, InFlight, Blocked, Thread
<1>7. CountersExact'
  <2>1. queue' = queue /\ Cardinality(queue) \in Nat /\ todo \in Nat /\ idle \in Nat
    BY <1>1, Finite, FS_CardinalityType DEF StopThread, TypeOK, Mid
  <2>2. /\ nTodo' - Cardinality(queue') - InFlight'[t] = todo - Cardinality(queue)
        /\ nIdle' = idle + IF t \in Blocked' THEN 1 ELSE 0
    BY <1>6, <2>1 DEF StopThread
  <2>3. QED
    BY <1>1, <1>2, <1>4, <1>5, <2>2, ProceedCounters
<1>8. NoSession /\ NoSession'
  BY <1>1, <1>2, <1>6 DEF NoSession, Places
<1>9. Places'
  <2>1. vChecks' = vChecks /\ queue' = queue /\ added' = added /\ nNow' = nNow
    BY DEF StopThread
  <2>2. m_request_stop' <=> pc'[Master] \in {"notify_stop", "join", "exit"}
    BY <1>1, <1>2, <1>6 DEF Places
  <2>3. \A w \in Worker : pc'[w] \in LoopPc \cup {"exit"}
    BY <1>1, <1>5, <1>6 DEF Places, LoopPc, Thread
  <2>4. /\ \A u \in Thread : pc'[u] # "work" => vChecks'[u] = {}
        /\ \A u \in Thread : pc'[u] = "work" => nNow'[u] > 0
    BY <1>1, <1>2, <1>5, <1>6, <2>1 DEF Places
  <2>5. QED
    BY <1>1, <1>6, <2>1, <2>2, <2>3, <2>4 DEF Places
<1>10. Settled' /\ Verdict'
  BY <1>8 DEF Settled, Verdict, Mid, StopThread
<1>11. ResultExact'
  BY <1>1, <1>6 DEF ResultExact, StopThread
<1>12. QED
  BY <1>7, <1>9, <1>10, <1>11 DEF QueueInv

\* A batch is never empty.
LEMMA BatchSizePositive ==
    ASSUME NEW size \in Nat, NEW total \in Nat, NEW idle \in Nat
    PROVE  BatchSize(size, total, idle) \in Nat /\ BatchSize(size, total, idle) > 0
<1> DEFINE q == size \div (total + idle + 1)
           m == IF nBatchSize <= q THEN nBatchSize ELSE q
           n == IF m <= 1 THEN 1 ELSE m
<1>1. q \in Int /\ nBatchSize \in Int
  BY CheckQueueConstants
<1> HIDE DEF q
<1>2. Min({nBatchSize, q}) = m
  <2>1. m \in {nBatchSize, q} /\ \A y \in {nBatchSize, q} : m <= y
    BY <1>1
  <2>2. \A x \in {nBatchSize, q} : (\A y \in {nBatchSize, q} : x <= y) => x = m
    BY <1>1
  <2>3. QED
    BY <2>1, <2>2 DEF Min
<1>3. m \in Int
  BY <1>1
<1> HIDE DEF m
<1>4. Max({1, m}) = n
  <2>1. n \in {1, m} /\ \A y \in {1, m} : n >= y
    BY <1>3
  <2>2. \A x \in {1, m} : (\A y \in {1, m} : x >= y) => x = n
    BY <1>3
  <2>3. QED
    BY <2>1, <2>2 DEF Max
<1>5. n \in Nat /\ n > 0
  BY <1>3
<1>6. QED
  BY <1>2, <1>4, <1>5 DEF BatchSize, q

\* A batch moves from the queue to the thread: no check is lost or counted twice.
LEMMA TakeBatchInv ==
    ASSUME QueueInv, NEW t \in Thread, NEW total, NEW todo, NEW idle, NEW ok, NEW waiters,
           Mid(t, total, todo, idle, ok, waiters), TakeBatch(t, total, todo, idle, ok, waiters)
    PROVE  QueueInv'
<1>1. TypeOK /\ Places /\ ResultExact
  BY DEF QueueInv, CountersExact
<1>2. pc[t] \in {"loop", "wait"} /\ ~m_request_stop /\ m_request_stop' = m_request_stop
  BY DEF TakeBatch, Mid
<1>3. /\ total \in Nat /\ todo \in Nat /\ idle \in Nat /\ ok \in BOOLEAN
      /\ waiters \subseteq Thread
  BY DEF Mid
<1>4. PICK batch \in kSubset(BatchSize(Cardinality(queue), total, idle), queue) :
          /\ queue' = queue \ batch
          /\ vChecks' = [vChecks EXCEPT ![t] = batch]
          /\ nNow' = [nNow EXCEPT ![t] = Cardinality(batch)]
  BY DEF TakeBatch
<1>5. /\ batch \subseteq queue /\ queue \subseteq Check
      /\ IsFiniteSet(queue) /\ Cardinality(queue) \in Nat
  BY <1>1, <1>4, Finite, FS_CardinalityType DEF TypeOK, kSubset
<1>6. Cardinality(batch) \in Nat /\ Cardinality(batch) > 0
  BY <1>3, <1>4, <1>5, BatchSizePositive DEF kSubset
<1>7. Cardinality(queue') = Cardinality(queue) - Cardinality(batch)
  <2>1. queue \cap batch = batch
    BY <1>5
  <2>2. Cardinality(queue \ batch) = Cardinality(queue) - Cardinality(queue \cap batch)
    BY <1>5, FS_Difference
  <2>3. queue' = queue \ batch
    BY <1>4
  <2>4. QED
    BY <2>1, <2>2, <2>3
<1>8. TypeOK'
  <2>1. nTotal' \in Nat /\ nTodo' \in Nat /\ nIdle' \in Nat
    BY <1>3 DEF TakeBatch
  <2>2. fAllOk' \in BOOLEAN /\ fOk' \in [Thread -> BOOLEAN]
    BY <1>1, <1>3 DEF TakeBatch, TypeOK
  <2>3. /\ pc' \in [Thread -> LoopPc \cup ControlPc \cup {"exit"}] /\ waiting' \subseteq Thread
    BY <1>1, <1>3 DEF TakeBatch, TypeOK, LoopPc
  <2>4. /\ queue' \subseteq Check /\ vChecks' \in [Thread -> SUBSET Check]
        /\ nNow' \in [Thread -> Nat]
    BY <1>1, <1>4, <1>5, <1>6 DEF TypeOK
  <2>5. QED
    BY <1>1, <2>1, <2>2, <2>3, <2>4 DEF TypeOK, TakeBatch
<1>9. \A u \in Thread \ {t} : /\ pc'[u] = pc[u] /\ nNow'[u] = nNow[u]
                              /\ vChecks'[u] = vChecks[u] /\ fOk'[u] = fOk[u]
  BY <1>1, <1>4 DEF TakeBatch, TypeOK
<1>10. /\ pc'[t] = "work" /\ nNow'[t] = Cardinality(batch)
       /\ vChecks'[t] = batch /\ fOk'[t] = ok
  BY <1>1, <1>4 DEF TakeBatch, TypeOK
<1>11. InFlight'[t] = Cardinality(batch) /\ t \notin Blocked' /\ t \in Joined'
  BY <1>10 DEF InFlight, Blocked, Joined
<1>12. CountersExact'
  <2>1. nTodo' = todo /\ nIdle' = idle /\ nTotal' = total
    BY DEF TakeBatch
  <2>2. /\ nTodo' - Cardinality(queue') - InFlight'[t] = todo - Cardinality(queue)
        /\ nIdle' = idle + IF t \in Blocked' THEN 1 ELSE 0
        /\ nTotal' = total - 1 + IF t \in Joined' THEN 1 ELSE 0
    BY <1>3, <1>5, <1>6, <1>7, <1>11, <2>1
  <2>3. QED
    BY <1>1, <1>2, <1>8, <1>9, <2>2, ProceedCounters
<1>13. pc'[Master] = pc[Master] \/ (t = Master /\ pc'[Master] = "work")
  BY <1>9, <1>10 DEF Thread
<1>14. NoSession' <=> NoSession
  BY <1>2, <1>13 DEF NoSession
<1>15. Places'
  <2>1. m_request_stop' <=> pc'[Master] \in {"notify_stop", "join", "exit"}
    BY <1>1, <1>2, <1>13 DEF Places
  <2>2. \A w \in Worker : pc'[w] \in LoopPc \cup {"exit"}
    BY <1>1, <1>9, <1>10 DEF Places, LoopPc, Thread
  <2>3. /\ \A u \in Thread : pc'[u] # "work" => vChecks'[u] = {}
        /\ \A u \in Thread : pc'[u] = "work" => nNow'[u] > 0
    BY <1>1, <1>6, <1>9, <1>10 DEF Places
  <2>4. pc'[Master] \notin LoopPc => nNow'[Master] = 0
    BY <1>1, <1>2, <1>9, <1>10 DEF Places, LoopPc, Thread
  <2>5. queue' \subseteq added'
    BY <1>1, <1>4 DEF Places, TakeBatch
  <2>6. QED
    BY <2>1, <2>2, <2>3, <2>4, <2>5 DEF Places
<1>16. NoneFailed(Thread)' <=> NoneFailed(Thread \ {t}) /\ ok /\ batch \cap Bad = {}
  BY <1>9, <1>10 DEF NoneFailed
<1>17. queue \cap Bad = {} <=> queue' \cap Bad = {} /\ batch \cap Bad = {}
  BY <1>4, <1>5
<1>18. fAllOk' = ok /\ nTodo' = todo /\ added' = added
  BY DEF TakeBatch
<1>19. Settled'
  BY <1>14, <1>18 DEF Settled, Mid
<1>20. Verdict'
  <2>1. ~NoSession => ((ok /\ NoneFailed(Thread \ {t}) /\ queue \cap Bad = {})
                        <=> added \cap Bad = {})
    BY DEF Mid
  <2>2. QED
    BY <1>14, <1>16, <1>17, <1>18, <2>1 DEF Verdict
<1>21. ResultExact'
  BY <1>1, <1>13 DEF ResultExact, TakeBatch
<1>22. QED
  BY <1>12, <1>15, <1>19, <1>20, <1>21 DEF QueueInv

\* However a thread leaves the critical section, the invariant holds again.
LEMMA ProceedInv ==
    ASSUME QueueInv, NEW t \in Thread, NEW total, NEW todo, NEW idle, NEW ok, NEW waiters,
           Mid(t, total, todo, idle, ok, waiters), Proceed(t, total, todo, idle, ok, waiters)
    PROVE  QueueInv'
BY ReturnInv, CondWaitInv, StopThreadInv, TakeBatchInv DEF Proceed
-----------------------------------------------------------------------------
\* Running a batch only moves its failure from the checks to fOk.
LEMMA RunChecksInv ==
    ASSUME QueueInv, NEW t \in Thread, RunChecks(t)
    PROVE  QueueInv'
<1>1. TypeOK /\ CountersExact /\ Places /\ Settled /\ Verdict /\ ResultExact
  BY DEF QueueInv, CountersExact
<1>2. nNow' = nNow /\ pc[t] = "work" /\ nNow[t] > 0
  BY <1>1 DEF RunChecks, Places
<1>3. TypeOK'
  <2>1. fOk' \in [Thread -> BOOLEAN]
    <3>1. fOk \in [Thread -> BOOLEAN]
      BY <1>1 DEF TypeOK
    <3>2. fOk' = [fOk EXCEPT ![t] = fOk[t] /\ vChecks[t] \cap Bad = {}]
      BY DEF RunChecks
    <3>3. (fOk[t] /\ vChecks[t] \cap Bad = {}) \in BOOLEAN
      OBVIOUS
    <3>4. QED
      BY <3>1, <3>2, <3>3, Zenon
  <2>2. vChecks' \in [Thread -> SUBSET Check]
    BY <1>1 DEF TypeOK, RunChecks
  <2>3. pc' \in [Thread -> LoopPc \cup ControlPc \cup {"exit"}]
    BY <1>1 DEF TypeOK, RunChecks, LoopPc
  <2>4. QED
    BY <1>1, <2>1, <2>2, <2>3 DEF TypeOK, RunChecks
<1>4. \A u \in Thread \ {t} : /\ pc'[u] = pc[u] /\ nNow'[u] = nNow[u]
                              /\ vChecks'[u] = vChecks[u] /\ fOk'[u] = fOk[u]
  BY <1>1 DEF RunChecks, TypeOK
<1>5. pc'[t] = "loop" /\ vChecks'[t] = {}
  BY <1>1 DEF RunChecks, TypeOK
<1>6. fOk'[t] <=> (fOk[t] /\ vChecks[t] \cap Bad = {})
  BY <1>1 DEF RunChecks, TypeOK
<1>7. InFlight' = InFlight /\ Blocked' = Blocked /\ Joined' = Joined
  BY <1>2, <1>4, <1>5 DEF InFlight, Blocked, Joined
<1>8. CountersExact'
  BY <1>1, <1>3, <1>7 DEF CountersExact, RunChecks
<1>9. pc'[Master] = pc[Master] \/ (t = Master /\ pc'[Master] = "loop")
  BY <1>4, <1>5 DEF Thread
<1>10. NoSession' <=> NoSession
  BY <1>2, <1>9 DEF NoSession
<1>11. Places'
  <2>1. m_request_stop' <=> pc'[Master] \in {"notify_stop", "join", "exit"}
    BY <1>1, <1>2, <1>9 DEF Places, RunChecks
  <2>2. \A w \in Worker : pc'[w] \in LoopPc \cup {"exit"}
    BY <1>1, <1>4, <1>5 DEF Places, LoopPc, Thread
  <2>3. /\ \A u \in Thread : pc'[u] # "work" => vChecks'[u] = {}
        /\ \A u \in Thread : pc'[u] = "work" => nNow'[u] > 0
    BY <1>1, <1>4, <1>5 DEF Places
  <2>4. pc'[Master] \notin LoopPc => nNow'[Master] = 0
    BY <1>1, <1>2, <1>9 DEF Places, LoopPc
  <2>5. queue' \subseteq added'
    BY <1>1 DEF Places, RunChecks
  <2>6. QED
    BY <2>1, <2>2, <2>3, <2>4, <2>5 DEF Places
<1>12. NoneFailed(Thread)' <=> NoneFailed(Thread)
  BY <1>2, <1>4, <1>5, <1>6 DEF NoneFailed
<1>13. Settled' /\ Verdict'
  BY <1>1, <1>10, <1>12 DEF Settled, Verdict, RunChecks
<1>14. ResultExact'
  BY <1>1, <1>9 DEF ResultExact, RunChecks
<1>15. QED
  BY <1>8, <1>11, <1>13, <1>14 DEF QueueInv

\* A step of the master outside Loop that moves no check between two places.
MasterMoves(to) ==
    /\ pc' = [pc EXCEPT ![Master] = to]
    /\ UNCHANGED <<queue, nIdle, nTotal, nTodo, fAllOk, vChecks, fOk, nNow, result>>

\* It leaves the counters, and what the other threads hold, as they are.
LEMMA MasterMovesKeeps ==
    ASSUME QueueInv, NEW to \in ControlPc \cup {"loop", "exit"}, MasterMoves(to),
           pc[Master] \in ControlPc, m_request_stop' \in BOOLEAN, waiting' \subseteq Thread,
           added' \subseteq Check, queue \subseteq added', session' \in 0..MaxSessions,
           ~m_request_stop' => ~m_request_stop,
           m_request_stop' <=> to \in {"notify_stop", "join", "exit"}
    PROVE  /\ CountersExact' /\ Places'
           /\ NoneFailed(Thread)' <=> NoneFailed(Thread)
           /\ pc'[Master] = to
           /\ nTodo' = nTodo /\ fAllOk' = fAllOk /\ queue' = queue /\ result' = result
<1>1. TypeOK /\ CountersExact /\ Places
  BY DEF QueueInv, CountersExact
<1>2. /\ queue' = queue /\ nIdle' = nIdle /\ nTotal' = nTotal /\ nTodo' = nTodo
      /\ fAllOk' = fAllOk /\ vChecks' = vChecks /\ fOk' = fOk /\ nNow' = nNow
      /\ result' = result
  BY DEF MasterMoves
<1>3. Master \in Thread /\ Master \notin Worker /\ nNow[Master] = 0
  BY <1>1, CheckQueueConstants DEF Thread, Places, ControlPc, LoopPc
<1>4. pc'[Master] = to /\ \A u \in Thread \ {Master} : pc'[u] = pc[u]
  BY <1>1, <1>3 DEF MasterMoves, TypeOK
<1>5. InFlight' = InFlight /\ Blocked' = Blocked /\ Joined' = Joined
  BY <1>2, <1>3, <1>4 DEF InFlight, Blocked, Joined, ControlPc
<1>6. TypeOK'
  <2>1. pc' \in [Thread -> LoopPc \cup ControlPc \cup {"exit"}]
    BY <1>1, <1>3 DEF MasterMoves, TypeOK, LoopPc
  <2> QED BY <1>1, <1>2, <2>1 DEF TypeOK
<1>7. CountersExact'
  BY <1>1, <1>2, <1>5, <1>6 DEF CountersExact
<1>8. Places'
  <2>1. \A w \in Worker : pc'[w] \in LoopPc \cup {"exit"}
    BY <1>1, <1>3, <1>4 DEF Places, Thread
  <2>2. /\ \A u \in Thread : pc'[u] # "work" => vChecks'[u] = {}
        /\ \A u \in Thread : pc'[u] = "work" => nNow'[u] > 0
    BY <1>1, <1>2, <1>3, <1>4 DEF Places, ControlPc
  <2>3. QED
    BY <1>2, <1>3, <1>4, <2>1, <2>2 DEF Places
<1>9. NoneFailed(Thread)' <=> NoneFailed(Thread)
  BY <1>2, <1>3, <1>4 DEF NoneFailed, ControlPc
<1>10. QED
  BY <1>2, <1>4, <1>7, <1>8, <1>9

\* Nothing fails and nothing is held when no session is open.
LEMMA SettledQuiet ==
    ASSUME QueueInv, nTodo = 0
    PROVE  /\ queue = {} /\ NoneFailed(Thread)
           /\ \A t \in Thread : vChecks[t] = {}
<1>1. TypeOK /\ CountersExact /\ Places
  BY DEF QueueInv, CountersExact
<1>2. IsFiniteSet(queue) /\ Cardinality(queue) \in Nat
  BY <1>1, Finite, FS_CardinalityType DEF TypeOK
<1>3. IsFiniteSet(Thread) /\ \A u \in Thread : InFlight[u] \in Nat
  BY <1>1, Finite DEF TypeOK, InFlight
<1>4. SumFunctionOnSet(InFlight, Thread) \in Nat
  BY <1>3, SumNat
<1>5. Cardinality(queue) = 0 /\ SumFunctionOnSet(InFlight, Thread) = 0
  BY <1>1, <1>2, <1>4 DEF CountersExact
<1>6. queue = {}
  BY <1>2, <1>5, FS_EmptySet
<1>7. \A u \in Thread : InFlight[u] = 0
  BY <1>3, <1>5, SumZero
<1>8. \A u \in Thread : pc[u] # "work" /\ ~(pc[u] = "loop" /\ nNow[u] > 0)
  BY <1>1, <1>7 DEF InFlight, Places, TypeOK
<1>9. QED
  BY <1>1, <1>6, <1>8 DEF NoneFailed, Places

\* A session starts from nothing: fAllOk is TRUE and no failure is left over.
LEMMA BeginSessionInv ==
    ASSUME QueueInv, BeginSession
    PROVE  QueueInv'
<1>1. TypeOK /\ Places /\ Settled
  BY DEF QueueInv, CountersExact
<1>2. /\ pc[Master] = "idle" /\ MasterMoves("control") /\ added' = {}
      /\ session' = session + 1 /\ session < MaxSessions
      /\ m_request_stop' = m_request_stop /\ waiting' = waiting
  BY DEF BeginSession, MasterMoves
<1>3. nTodo = 0 /\ fAllOk
  BY <1>1, <1>2 DEF Settled, NoSession
<1>4. queue = {} /\ NoneFailed(Thread)
  BY <1>3, SettledQuiet
<1>5. ~m_request_stop
  BY <1>1, <1>2 DEF Places
<1>6. session' \in 0..MaxSessions
  BY <1>1, <1>2, CheckQueueConstants DEF TypeOK
<1>7. /\ CountersExact' /\ Places' /\ pc'[Master] = "control"
      /\ NoneFailed(Thread)' <=> NoneFailed(Thread)
      /\ nTodo' = nTodo /\ fAllOk' = fAllOk /\ queue' = queue
  BY <1>1, <1>2, <1>4, <1>5, <1>6, MasterMovesKeeps DEF TypeOK, ControlPc
<1>8. Settled' /\ Verdict' /\ ResultExact'
  BY <1>2, <1>3, <1>4, <1>7 DEF Settled, Verdict, ResultExact, NoSession
<1>9. QED
  BY <1>7, <1>8 DEF QueueInv

\* Within a session, and within the destructor, the master only moves on.
LEMMA MasterStepInv ==
    ASSUME QueueInv, NotifyOne \/ NotifyAll \/ BeginWait \/ RequestStop \/ NotifyStop \/ Join
    PROVE  QueueInv'
<1>1. TypeOK /\ Places /\ Settled /\ Verdict /\ ResultExact
  BY DEF QueueInv, CountersExact
<1>2. PICK to \in {"control", "loop", "notify_stop", "join", "exit"} :
         /\ MasterMoves(to) /\ added' = added /\ session' = session
         /\ waiting' \subseteq Thread
         /\ \/ /\ pc[Master] \in {"notify_one", "notify_all"} /\ to = "control"
               /\ m_request_stop' = m_request_stop
            \/ pc[Master] = "control" /\ to = "loop" /\ m_request_stop' = m_request_stop
            \/ pc[Master] = "idle" /\ to = "notify_stop" /\ m_request_stop' = TRUE
            \/ pc[Master] = "notify_stop" /\ to = "join" /\ m_request_stop' = m_request_stop
            \/ pc[Master] = "join" /\ to = "exit" /\ m_request_stop' = m_request_stop
  <2>1. waiting \subseteq Thread
    BY <1>1 DEF TypeOK
  <2>2. CASE NotifyOne
    BY <2>1, <2>2 DEF NotifyOne, MasterMoves
  <2>3. CASE NotifyAll
    BY <2>1, <2>3 DEF NotifyAll, MasterMoves
  <2>4. CASE BeginWait
    BY <2>1, <2>4 DEF BeginWait, MasterMoves
  <2>5. CASE RequestStop
    BY <2>1, <2>5 DEF RequestStop, MasterMoves
  <2>6. CASE NotifyStop
    BY <2>1, <2>6 DEF NotifyStop, MasterMoves
  <2>7. CASE Join
    BY <2>1, <2>7 DEF Join, MasterMoves
  <2>8. QED
    BY <2>2, <2>3, <2>4, <2>5, <2>6, <2>7
<1>3. pc[Master] \in ControlPc /\ to \in ControlPc \cup {"loop", "exit"}
  BY <1>2 DEF ControlPc
<1>4. /\ m_request_stop' \in BOOLEAN /\ (~m_request_stop' => ~m_request_stop)
      /\ m_request_stop' <=> to \in {"notify_stop", "join", "exit"}
  <2>1. /\ m_request_stop \in BOOLEAN
        /\ m_request_stop <=> pc[Master] \in {"notify_stop", "join", "exit"}
    BY <1>1 DEF TypeOK, Places
  <2>2. CASE pc[Master] = "idle"
    BY <1>2, <2>1, <2>2
  <2>3. CASE pc[Master] # "idle"
    <3>1. m_request_stop' = m_request_stop
      BY <1>2, <2>3
    <3> QED BY <1>2, <2>1, <2>3, <3>1
  <2>4. QED
    BY <2>2, <2>3
<1>5. queue \subseteq added' /\ added' \subseteq Check /\ session' \in 0..MaxSessions
  BY <1>1, <1>2 DEF TypeOK, Places
<1>6. /\ CountersExact' /\ Places' /\ pc'[Master] = to
      /\ NoneFailed(Thread)' <=> NoneFailed(Thread)
      /\ nTodo' = nTodo /\ fAllOk' = fAllOk /\ queue' = queue /\ result' = result
  <2>1. MasterMoves(to) /\ waiting' \subseteq Thread
    BY <1>2
  <2>2. QED
    BY <1>3, <1>4, <1>5, <2>1, MasterMovesKeeps
<1>7. NoSession' <=> NoSession
  BY <1>2, <1>6 DEF NoSession
<1>8. Settled' /\ Verdict' /\ ResultExact'
  BY <1>1, <1>2, <1>6, <1>7 DEF Settled, Verdict, ResultExact
<1>9. QED
  BY <1>6, <1>8 DEF QueueInv

\* New checks are counted and queued together; what they will answer belongs to
\* the verdict from now on.
LEMMA AddInv ==
    ASSUME QueueInv, NEW checks \in SUBSET (Check \ added), Add(checks)
    PROVE  QueueInv'
<1>1. TypeOK /\ CountersExact /\ Places /\ Settled /\ Verdict /\ ResultExact
  BY DEF QueueInv, CountersExact
<1>2. /\ pc[Master] = "control" /\ queue' = queue \cup checks /\ added' = added \cup checks
      /\ nTodo' = nTodo + Cardinality(checks)
      /\ nIdle' = nIdle /\ nTotal' = nTotal /\ fAllOk' = fAllOk /\ vChecks' = vChecks
      /\ fOk' = fOk /\ nNow' = nNow /\ waiting' = waiting /\ session' = session
      /\ result' = result /\ m_request_stop' = m_request_stop
  BY DEF Add
<1>3. PICK to \in {"notify_one", "notify_all"} : pc' = [pc EXCEPT ![Master] = to]
  BY DEF Add
<1>4. Master \in Thread /\ Master \notin Worker /\ nNow[Master] = 0
  BY <1>1, <1>2, CheckQueueConstants DEF Thread, Places, LoopPc
<1>5. pc'[Master] = to /\ \A u \in Thread \ {Master} : pc'[u] = pc[u]
  BY <1>1, <1>3, <1>4 DEF TypeOK
<1>6. InFlight' = InFlight /\ Blocked' = Blocked /\ Joined' = Joined
  BY <1>2, <1>3, <1>4, <1>5 DEF InFlight, Blocked, Joined
<1>7. /\ Cardinality(queue) \in Nat /\ Cardinality(checks) \in Nat
      /\ Cardinality(queue') = Cardinality(queue) + Cardinality(checks)
  <2>1. /\ IsFiniteSet(queue) /\ IsFiniteSet(checks) /\ queue \cap checks = {}
        /\ queue' = queue \cup checks
    BY <1>1, <1>2, Finite DEF TypeOK, Places
  <2>2. Cardinality(queue) \in Nat /\ Cardinality(checks) \in Nat /\ Cardinality({}) = 0
    BY <2>1, FS_CardinalityType, FS_EmptySet
  <2>3. Cardinality(queue \cup checks) =
          Cardinality(queue) + Cardinality(checks) - Cardinality(queue \cap checks)
    BY <2>1, FS_Union
  <2>4. Cardinality(queue \cap checks) = 0 /\ queue' = queue \cup checks
    BY <2>1, <2>2
  <2>5. QED
    BY <2>2, <2>3, <2>4
<1>8. TypeOK'
  <2>1. pc' \in [Thread -> LoopPc \cup ControlPc \cup {"exit"}]
    BY <1>1, <1>3 DEF TypeOK, ControlPc
  <2>2. queue' \subseteq Check /\ added' \subseteq Check /\ nTodo' \in Nat
    BY <1>1, <1>2, <1>7 DEF TypeOK
  <2> QED BY <1>1, <1>2, <2>1, <2>2 DEF TypeOK
<1>9. CountersExact'
  <2>1. SumFunctionOnSet(InFlight, Thread) \in Nat
    BY <1>1, Finite, SumNat DEF InFlight, TypeOK
  <2>2. nTodo' = Cardinality(queue') + SumFunctionOnSet(InFlight, Thread)
    BY <1>1, <1>2, <1>7, <2>1 DEF CountersExact
  <2>3. QED
    BY <1>1, <1>2, <1>6, <1>8, <2>2 DEF CountersExact
<1>10. Places'
  <2>1. \A w \in Worker : pc'[w] \in LoopPc \cup {"exit"}
    BY <1>1, <1>4, <1>5 DEF Places, Thread
  <2>2. /\ \A u \in Thread : pc'[u] # "work" => vChecks'[u] = {}
        /\ \A u \in Thread : pc'[u] = "work" => nNow'[u] > 0
    BY <1>1, <1>2, <1>3, <1>4, <1>5 DEF Places
  <2>3. m_request_stop' <=> pc'[Master] \in {"notify_stop", "join", "exit"}
    BY <1>1, <1>2, <1>3, <1>5 DEF Places
  <2>4. QED
    BY <1>1, <1>2, <1>4, <2>1, <2>2, <2>3 DEF Places
<1>11. NoneFailed(Thread)' <=> NoneFailed(Thread)
  BY <1>2, <1>3, <1>4, <1>5 DEF NoneFailed
<1>12. ~NoSession /\ ~NoSession'
  BY <1>2, <1>3, <1>5 DEF NoSession
<1>13. Settled' /\ Verdict' /\ ResultExact'
  <2>1. added' \cap Bad = {} <=> added \cap Bad = {} /\ checks \cap Bad = {}
    BY <1>2
  <2>2. queue' \cap Bad = {} <=> queue \cap Bad = {} /\ checks \cap Bad = {}
    BY <1>2
  <2>3. QED
    BY <1>1, <1>2, <1>3, <1>5, <1>11, <1>12, <2>1, <2>2
       DEF Settled, Verdict, ResultExact
<1>14. QED
  BY <1>9, <1>10, <1>13 DEF QueueInv

\* A step that changes nothing but waiting.
LEMMA OnlyWaitingInv ==
    ASSUME QueueInv, waiting' \subseteq Thread,
           UNCHANGED <<queue, nIdle, nTotal, nTodo, fAllOk, m_request_stop, pc, vChecks,
                       fOk, nNow, added, session, result>>
    PROVE  QueueInv'
<1>1. InFlight' = InFlight /\ Blocked' = Blocked /\ Joined' = Joined
  BY DEF InFlight, Blocked, Joined
<1>2. CountersExact'
  BY <1>1 DEF QueueInv, CountersExact, TypeOK
<1>3. Places' /\ Settled' /\ Verdict' /\ ResultExact'
  BY DEF QueueInv, Places, Settled, Verdict, ResultExact, NoSession, NoneFailed
<1>4. QED
  BY <1>2, <1>3 DEF QueueInv

\* Initially no thread holds anything.
LEMMA InitInv == Init => QueueInv
<1> SUFFICES ASSUME Init PROVE QueueInv
  OBVIOUS
<1>1. Master \in Thread /\ \A w \in Worker : w # Master /\ w \in Thread
  BY CheckQueueConstants DEF Thread
<1>2. TypeOK
  <2>1. session \in 0..MaxSessions
    BY CheckQueueConstants DEF Init
  <2>2. pc \in [Thread -> LoopPc \cup ControlPc \cup {"exit"}]
    BY DEF Init, LoopPc, ControlPc
  <2>3. fOk \in [Thread -> BOOLEAN] /\ fAllOk \in BOOLEAN /\ result \in BOOLEAN
    BY DEF Init
  <2>4. m_request_stop \in BOOLEAN /\ vChecks \in [Thread -> SUBSET Check]
    BY DEF Init
  <2>5. QED
    BY <2>1, <2>2, <2>3, <2>4 DEF Init, TypeOK
<1>3. \A t \in Thread : InFlight[t] = 0
  BY DEF Init, InFlight
<1>4. SumFunctionOnSet(InFlight, Thread) = 0
  <2> DEFINE F == {T \in SUBSET Thread : SumFunctionOnSet(InFlight, T) = 0}
  <2>1. {} \in F
    BY SumEmpty
  <2>2. ASSUME NEW T \in SUBSET Thread, NEW x \in Thread, T \in F, x \notin T
        PROVE  T \cup {x} \in F
    <3> DEFINE U == T \cup {x}
    <3>1. IsFiniteSet(U) /\ x \in U /\ U \ {x} = T /\ U \in SUBSET Thread
      <4>1. U \in SUBSET Thread
        OBVIOUS
      <4>2. IsFiniteSet(U)
        BY <4>1, Finite, FS_Subset
      <4> QED BY <2>2, <4>1, <4>2
    <3>2. \A y \in U : InFlight[y] \in Int
      BY <1>3
    <3> HIDE DEF U
    <3>3. SumFunctionOnSet(InFlight, U) = InFlight[x] + SumFunctionOnSet(InFlight, U \ {x})
      BY <3>1, <3>2, SumRemove
    <3>4. SumFunctionOnSet(InFlight, U) = 0
      BY <1>3, <2>2, <3>1, <3>3
    <3> QED BY <3>1, <3>4 DEF U
  <2>3. InductiveFamily(Thread, F)
    BY <2>1, <2>2 DEF InductiveFamily
  <2>4. Thread \in F
    <3> HIDE DEF F
    <3> QED BY <2>3, Finite, FiniteSetInduction
  <2>5. QED
    BY <2>4
<1>5. Blocked = {} /\ Joined = {}
  BY DEF Init, Blocked, Joined
<1>6. CountersExact
  BY <1>2, <1>4, <1>5, FS_EmptySet DEF CountersExact, Init
<1>7. Places
  BY <1>1 DEF Places, Init, LoopPc
<1>8. Settled /\ Verdict /\ ResultExact
  BY <1>1 DEF Settled, Verdict, ResultExact, NoSession, Init
<1>9. QED
  BY <1>6, <1>7, <1>8 DEF QueueInv

\* Every step keeps the invariant.
LEMMA NextInv == QueueInv /\ [Next]_vars => QueueInv'
<1> SUFFICES ASSUME QueueInv, [Next]_vars PROVE QueueInv'
  OBVIOUS
<1>1. ASSUME NEW t \in Thread, EnterLoop(t) PROVE QueueInv'
  <2>1. Mid(t, nTotal + 1, nTodo, nIdle, fAllOk, waiting)
    BY <1>1, EnterMid DEF EnterLoop
  <2> QED BY <1>1, <2>1, ProceedInv DEF EnterLoop
<1>2. ASSUME NEW t \in Thread, FinishBatch(t) PROVE QueueInv'
  <2>1. Mid(t, nTotal, nTodo - nNow[t], nIdle, fAllOk /\ fOk[t],
            IF nTodo - nNow[t] = 0 /\ t # Master THEN waiting \ {Master} ELSE waiting)
    BY <1>2, FinishMid DEF FinishBatch
  <2>2. Proceed(t, nTotal, nTodo - nNow[t], nIdle, fAllOk /\ fOk[t],
                IF nTodo - nNow[t] = 0 /\ t # Master THEN waiting \ {Master} ELSE waiting)
    BY <1>2 DEF FinishBatch
  <2> QED BY <2>1, <2>2, ProceedInv
<1>3. ASSUME NEW t \in Thread, Wake(t) PROVE QueueInv'
  <2>1. Mid(t, nTotal, nTodo, nIdle - 1, fAllOk, waiting)
    BY <1>3, WakeMid DEF Wake
  <2> QED BY <1>3, <2>1, ProceedInv DEF Wake
<1>4. ASSUME NEW t \in Thread, RunChecks(t) PROVE QueueInv'
  BY <1>4, RunChecksInv
<1>5. ASSUME NEW t \in Thread, SpuriousWakeup(t) PROVE QueueInv'
  <2>1. waiting' \subseteq Thread
    BY <1>5 DEF SpuriousWakeup, QueueInv, CountersExact, TypeOK
  <2> QED BY <1>5, <2>1, OnlyWaitingInv DEF SpuriousWakeup
<1>6. CASE UNCHANGED vars
  <2>1. waiting' \subseteq Thread
    BY <1>6 DEF vars, QueueInv, CountersExact, TypeOK
  <2> QED BY <1>6, <2>1, OnlyWaitingInv DEF vars
<1>7. QED
  BY <1>1, <1>2, <1>3, <1>4, <1>5, <1>6, BeginSessionInv, AddInv, MasterStepInv
     DEF Next, LoopStep, Destroyed
-----------------------------------------------------------------------------
\* The inductive invariant holds in every behaviour.
THEOREM QueueInvariant == Spec => []QueueInv
BY InitInv, NextInv, PTL DEF Spec

\* nTodo, nIdle and nTotal are exact under any interleaving of the workers and
\* the master, whatever the number of threads, the checks and nBatchSize.
THEOREM CountersAreExact == Spec => []CountersExact
<1>1. QueueInv => CountersExact
  BY DEF QueueInv
<1>2. QED
  BY <1>1, QueueInvariant, PTL

\* Wait() returns true exactly if every check of its session succeeds.
THEOREM WaitIsExact == Spec => []ResultExact
<1>1. QueueInv => ResultExact
  BY DEF QueueInv
<1>2. QED
  BY <1>1, QueueInvariant, PTL

\* After Wait() no check is queued or held, so what checks point to may be freed.
THEOREM WaitLeavesNothing == Spec => []QuiescentAfterWait
<1>1. QueueInv => QuiescentAfterWait
  <2>1. SUFFICES ASSUME QueueInv, pc[Master] \in {"idle", "join", "exit"}
                 PROVE  queue = {} /\ \A t \in Thread : vChecks[t] = {}
    BY DEF QuiescentAfterWait
  <2>2. nTodo = 0
    BY <2>1 DEF QueueInv, Settled, NoSession
  <2>3. QED
    BY <2>1, <2>2, SettledQuiet
<1>2. QED
  BY <1>1, QueueInvariant, PTL
=============================================================================
