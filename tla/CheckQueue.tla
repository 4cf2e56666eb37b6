----------------------------- MODULE CheckQueue -----------------------------
(***************************************************************************)
(* CCheckQueue and CCheckQueueControl (checkqueue.h): the pool of threads  *)
(* that verifies the scripts of a block.  A master adds checks and then    *)
(* joins the workers until every check is done.                            *)
(*                                                                         *)
(* Each block of code under m_mutex is one step; so is running the checks  *)
(* of a batch, which touches only the thread's own state.  The notify call *)
(* of Add and of the destructor comes after the mutex is released and is a *)
(* step of its own.  A thread blocked on a condition variable leaves       *)
(* waiting when it is notified, or spuriously, and goes on when it has the *)
(* mutex again.  queue is a set: the code says that the order of the       *)
(* checks does not matter.                                                 *)
(***************************************************************************)
EXTENDS Integers, FiniteSets, FiniteSetsExt

CONSTANTS Worker,       \* m_worker_threads
          Master,       \* the thread that holds m_control_mutex
          Check,        \* T: the checks of one session
          Bad,          \* the checks whose operator() returns false
          nBatchSize,
          MaxSessions   \* bound: CCheckQueueControls created in a run

Thread == Worker \cup {Master}

ASSUME CheckQueueConstants == /\ Master \notin Worker
                              /\ IsFiniteSet(Worker)
                              /\ IsFiniteSet(Check)
                              /\ Bad \subseteq Check
                              /\ nBatchSize \in Nat \ {0}
                              /\ MaxSessions \in Nat

VARIABLES queue, nIdle, nTotal, nTodo, fAllOk, m_request_stop,
          pc,             \* where each thread is
          vChecks,        \* the batch each thread holds
          fOk, nNow,      \* the thread's locals in Loop
          waiting,        \* threads blocked in cond.wait
          added,          \* checks added in this session
          session,        \* number of sessions begun
          result          \* what the last Wait() returned

vars == <<queue, nIdle, nTotal, nTodo, fAllOk, m_request_stop, pc, vChecks, fOk,
          nNow, waiting, added, session, result>>

LoopPc == {"loop", "wait", "work"}
ControlPc == {"idle", "control", "notify_one", "notify_all", "notify_stop", "join"}

TypeOK ==
    /\ queue \subseteq Check
    /\ nIdle \in Nat /\ nTotal \in Nat /\ nTodo \in Nat
    /\ fAllOk \in BOOLEAN /\ m_request_stop \in BOOLEAN
    /\ pc \in [Thread -> LoopPc \cup ControlPc \cup {"exit"}]
    /\ vChecks \in [Thread -> SUBSET Check]
    /\ fOk \in [Thread -> BOOLEAN]
    /\ nNow \in [Thread -> Nat]
    /\ waiting \subseteq Thread
    /\ added \subseteq Check
    /\ session \in 0..MaxSessions
    /\ result \in BOOLEAN

\* The workers enter Loop(false) as soon as the queue is constructed.
Init == /\ queue = {} /\ nIdle = 0 /\ nTotal = 0 /\ nTodo = 0
        /\ fAllOk = TRUE /\ m_request_stop = FALSE
        /\ pc = [t \in Thread |-> IF t = Master THEN "idle" ELSE "loop"]
        /\ vChecks = [t \in Thread |-> {}]
        /\ fOk = [t \in Thread |-> TRUE]
        /\ nNow = [t \in Thread |-> 0]
        /\ waiting = {} /\ added = {} /\ session = 0 /\ result = TRUE
-----------------------------------------------------------------------------
BatchSize(size, total, idle) == Max({1, Min({nBatchSize, size \div (total + idle + 1)})})

\* Mutant: the master does not look at nTodo before it returns.
MayReturnEarly(t, todo) == t = Master

MayReturn(t, todo) == t = Master /\ todo = 0

\* The four ways the critical section of Loop goes on once the counters have
\* the given values and waiters are the threads still blocked.
Return(t, total, todo, idle, ok, waiters) ==
    /\ queue = {} /\ ~m_request_stop /\ MayReturn(t, todo)
    /\ nTotal' = total - 1 /\ nTodo' = todo /\ nIdle' = idle
    /\ result' = ok /\ fAllOk' = TRUE
    /\ nNow' = [nNow EXCEPT ![t] = 0]
    /\ pc' = [pc EXCEPT ![t] = "idle"]
    /\ waiting' = waiters
    /\ UNCHANGED <<queue, m_request_stop, vChecks, fOk, added, session>>

CondWait(t, total, todo, idle, ok, waiters) ==
    /\ queue = {} /\ ~m_request_stop /\ ~MayReturn(t, todo)
    /\ nTotal' = total /\ nTodo' = todo /\ nIdle' = idle + 1 /\ fAllOk' = ok
    /\ pc' = [pc EXCEPT ![t] = "wait"]
    /\ waiting' = waiters \cup {t}
    /\ UNCHANGED <<queue, m_request_stop, vChecks, fOk, nNow, added, session, result>>

StopThread(t, total, todo, idle, ok, waiters) ==
    /\ m_request_stop
    /\ nTotal' = total /\ nTodo' = todo /\ nIdle' = idle /\ fAllOk' = ok
    /\ pc' = [pc EXCEPT ![t] = "exit"]
    /\ waiting' = waiters
    /\ UNCHANGED <<queue, m_request_stop, vChecks, fOk, nNow, added, session, result>>

TakeBatch(t, total, todo, idle, ok, waiters) ==
    /\ queue # {} /\ ~m_request_stop
    /\ nTotal' = total /\ nTodo' = todo /\ nIdle' = idle /\ fAllOk' = ok
    /\ \E batch \in kSubset(BatchSize(Cardinality(queue), total, idle), queue) :
          /\ queue' = queue \ batch
          /\ vChecks' = [vChecks EXCEPT ![t] = batch]
          /\ nNow' = [nNow EXCEPT ![t] = Cardinality(batch)]
    /\ fOk' = [fOk EXCEPT ![t] = ok]
    /\ pc' = [pc EXCEPT ![t] = "work"]
    /\ waiting' = waiters
    /\ UNCHANGED <<m_request_stop, added, session, result>>

Proceed(t, total, todo, idle, ok, waiters) ==
    \/ Return(t, total, todo, idle, ok, waiters)
    \/ CondWait(t, total, todo, idle, ok, waiters)
    \/ StopThread(t, total, todo, idle, ok, waiters)
    \/ TakeBatch(t, total, todo, idle, ok, waiters)
-----------------------------------------------------------------------------
\* Mutant: a thread that joins the pool is not counted.
EnterLoopUncounted(t) ==
    /\ pc[t] = "loop" /\ nNow[t] = 0
    /\ Proceed(t, nTotal, nTodo, nIdle, fAllOk, waiting)

\* The first iteration of Loop.
EnterLoop(t) ==
    /\ pc[t] = "loop" /\ nNow[t] = 0
    /\ Proceed(t, nTotal + 1, nTodo, nIdle, fAllOk, waiting)

\* Mutant: the last worker does not tell the master.
FinishBatchSilently(t) ==
    /\ pc[t] = "loop" /\ nNow[t] > 0
    /\ Proceed(t, nTotal, nTodo - nNow[t], nIdle, fAllOk /\ fOk[t], waiting)

\* Mutant: the result of the last batch replaces the result so far.
FinishBatchOverwrite(t) ==
    /\ pc[t] = "loop" /\ nNow[t] > 0
    /\ LET todo == nTodo - nNow[t]
       IN  Proceed(t, nTotal, todo, nIdle, fOk[t],
                   IF todo = 0 /\ t # Master THEN waiting \ {Master} ELSE waiting)

\* A later iteration: the clean-up of the previous batch comes first, and
\* notifies the master if that was the last one.
FinishBatch(t) ==
    /\ pc[t] = "loop" /\ nNow[t] > 0
    /\ LET todo == nTodo - nNow[t]
       IN  Proceed(t, nTotal, todo, nIdle, fAllOk /\ fOk[t],
                   IF todo = 0 /\ t # Master THEN waiting \ {Master} ELSE waiting)

\* Mutant: a woken thread still counts as idle.
WakeStillIdle(t) ==
    /\ pc[t] = "wait" /\ t \notin waiting
    /\ Proceed(t, nTotal, nTodo, nIdle, fAllOk, waiting)

\* cond.wait has returned.
Wake(t) ==
    /\ pc[t] = "wait" /\ t \notin waiting
    /\ Proceed(t, nTotal, nTodo, nIdle - 1, fAllOk, waiting)

SpuriousWakeup(t) ==
    /\ t \in waiting
    /\ waiting' = waiting \ {t}
    /\ UNCHANGED <<queue, nIdle, nTotal, nTodo, fAllOk, m_request_stop, pc, vChecks,
                   fOk, nNow, added, session, result>>

\* A check after a failed one is not run; the batch is destroyed here, before
\* the master can learn that it is done.
RunChecks(t) ==
    /\ pc[t] = "work"
    /\ fOk' = [fOk EXCEPT ![t] = @ /\ vChecks[t] \cap Bad = {}]
    /\ vChecks' = [vChecks EXCEPT ![t] = {}]
    /\ pc' = [pc EXCEPT ![t] = "loop"]
    /\ UNCHANGED <<queue, nIdle, nTotal, nTodo, fAllOk, m_request_stop, nNow, waiting,
                   added, session, result>>
-----------------------------------------------------------------------------
\* The CCheckQueueControl takes m_control_mutex.
BeginSession ==
    /\ pc[Master] = "idle" /\ session < MaxSessions
    /\ session' = session + 1
    /\ added' = {}
    /\ pc' = [pc EXCEPT ![Master] = "control"]
    /\ UNCHANGED <<queue, nIdle, nTotal, nTodo, fAllOk, m_request_stop, vChecks, fOk,
                   nNow, waiting, result>>

Add(checks) ==
    /\ pc[Master] = "control"
    /\ checks # {}
    /\ queue' = queue \cup checks
    /\ nTodo' = nTodo + Cardinality(checks)
    /\ added' = added \cup checks
    /\ pc' = [pc EXCEPT ![Master] = IF Cardinality(checks) = 1 THEN "notify_one"
                                                               ELSE "notify_all"]
    /\ UNCHANGED <<nIdle, nTotal, fAllOk, m_request_stop, vChecks, fOk, nNow, waiting,
                   session, result>>

NotifyOne ==
    /\ pc[Master] = "notify_one"
    /\ IF waiting \cap Worker = {} THEN UNCHANGED waiting
       ELSE \E w \in waiting \cap Worker : waiting' = waiting \ {w}
    /\ pc' = [pc EXCEPT ![Master] = "control"]
    /\ UNCHANGED <<queue, nIdle, nTotal, nTodo, fAllOk, m_request_stop, vChecks, fOk,
                   nNow, added, session, result>>

NotifyAll ==
    /\ pc[Master] = "notify_all"
    /\ waiting' = waiting \ Worker
    /\ pc' = [pc EXCEPT ![Master] = "control"]
    /\ UNCHANGED <<queue, nIdle, nTotal, nTodo, fAllOk, m_request_stop, vChecks, fOk,
                   nNow, added, session, result>>

\* Wait(), called by ConnectBlock or, if that returned early, by the
\* destructor of the control object.
BeginWait ==
    /\ pc[Master] = "control"
    /\ pc' = [pc EXCEPT ![Master] = "loop"]
    /\ UNCHANGED <<queue, nIdle, nTotal, nTodo, fAllOk, m_request_stop, vChecks, fOk,
                   nNow, waiting, added, session, result>>

\* ~CCheckQueue, when no control object exists.
RequestStop ==
    /\ pc[Master] = "idle"
    /\ m_request_stop' = TRUE
    /\ pc' = [pc EXCEPT ![Master] = "notify_stop"]
    /\ UNCHANGED <<queue, nIdle, nTotal, nTodo, fAllOk, vChecks, fOk, nNow, waiting,
                   added, session, result>>

\* Mutant: only one worker is told to stop.
NotifyStopOne ==
    /\ pc[Master] = "notify_stop"
    /\ IF waiting \cap Worker = {} THEN UNCHANGED waiting
       ELSE \E w \in waiting \cap Worker : waiting' = waiting \ {w}
    /\ pc' = [pc EXCEPT ![Master] = "join"]
    /\ UNCHANGED <<queue, nIdle, nTotal, nTodo, fAllOk, m_request_stop, vChecks, fOk,
                   nNow, added, session, result>>

NotifyStop ==
    /\ pc[Master] = "notify_stop"
    /\ waiting' = waiting \ Worker
    /\ pc' = [pc EXCEPT ![Master] = "join"]
    /\ UNCHANGED <<queue, nIdle, nTotal, nTodo, fAllOk, m_request_stop, vChecks, fOk,
                   nNow, added, session, result>>

Join ==
    /\ pc[Master] = "join"
    /\ \A w \in Worker : pc[w] = "exit"
    /\ pc' = [pc EXCEPT ![Master] = "exit"]
    /\ UNCHANGED <<queue, nIdle, nTotal, nTodo, fAllOk, m_request_stop, vChecks, fOk,
                   nNow, waiting, added, session, result>>

\* The queue is gone; nothing runs any more.
Destroyed == pc[Master] = "exit" /\ UNCHANGED vars
-----------------------------------------------------------------------------
LoopStep(t) == EnterLoop(t) \/ FinishBatch(t) \/ Wake(t) \/ RunChecks(t)

Next == \/ \E t \in Thread : LoopStep(t) \/ SpuriousWakeup(t)
        \/ BeginSession
        \/ \E checks \in SUBSET (Check \ added) : Add(checks)
        \/ NotifyOne \/ NotifyAll \/ BeginWait
        \/ RequestStop \/ NotifyStop \/ Join \/ Destroyed

\* A thread that can run does run, a notify call that is due is made, and a
\* control object is destroyed at the latest when its scope ends.  Nothing
\* makes the master begin a session, add checks or destroy the queue, and no
\* spurious wakeup is promised.
Fairness == /\ \A t \in Thread : WF_vars(LoopStep(t))
            /\ WF_vars(NotifyOne) /\ WF_vars(NotifyAll) /\ WF_vars(NotifyStop)
            /\ WF_vars(BeginWait) /\ WF_vars(Join)

Spec == Init /\ [][Next]_vars /\ Fairness
-----------------------------------------------------------------------------
\* The checks of each thread's batch that nTodo still counts, the threads in
\* cond.wait, and the threads that have joined the pool.
InFlight == [t \in Thread |-> IF pc[t] \in {"work", "loop"} THEN nNow[t] ELSE 0]
Blocked == {t \in Thread : pc[t] = "wait"}
Joined == {t \in Thread : pc[t] \in {"wait", "work"} \/ (pc[t] = "loop" /\ nNow[t] > 0)}

\* nTodo, nIdle and nTotal, each kept by several threads in several places,
\* never wrap and count what their comments say: the checks queued or still unaccounted for
\* in a batch, the threads in cond.wait, and the threads that have joined.
CountersExact ==
    /\ TypeOK
    /\ nTodo = Cardinality(queue) + SumFunctionOnSet(InFlight, Thread)
    /\ nIdle = Cardinality(Blocked)
    /\ ~m_request_stop => nTotal = Cardinality(Joined)

\* Wait() returns true exactly if every check added in the session succeeds:
\* no failure is lost, forgotten between batches or carried into the next
\* session.
ResultExact ==
    (pc[Master] = "idle" /\ session > 0) => (result <=> added \cap Bad = {})

\* Once Wait() has returned, and until the next Add, no check is queued or held
\* by a worker: a CScriptCheck points into data that ConnectBlock then frees.
QuiescentAfterWait ==
    (pc[Master] \in {"idle", "join", "exit"}) =>
        queue = {} /\ \A t \in Thread : vChecks[t] = {}

\* Wait() returns.
WaitReturns == (pc[Master] = "loop") ~> (pc[Master] = "idle")

\* The destructor gets every worker to exit.
StopJoins == m_request_stop ~> (pc[Master] = "exit")
=============================================================================
