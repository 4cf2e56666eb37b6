----------------------------- MODULE TxRequest -----------------------------
(***************************************************************************)
(* TxRequestTracker::Impl (txrequest.cpp): which transaction is asked from *)
(* which peer, and when.  An announcement moves CANDIDATE_DELAYED ->       *)
(* CANDIDATE_READY / CANDIDATE_BEST -> REQUESTED -> COMPLETED; the best    *)
(* candidate of a transaction is kept selected by every operation, so that *)
(* GetRequestable only has to collect the selected ones.                   *)
(*                                                                         *)
(* m_index is a row of announcements per transaction, one per peer, in     *)
(* state NOTHING where the multi_index holds none.  The position of an     *)
(* announcement in the ByTxHash order is given by its state and priority,  *)
(* in the ByTime order by its waiting state and time.  m_sequence is only  *)
(* compared between announcements of one peer: m_order is the sequence of  *)
(* transactions a peer announced, oldest first.                            *)
(*                                                                         *)
(* All calls run under cs_main.  The loops of SetTimePoint and             *)
(* DisconnectedPeer are steps of a call in progress; no other operation is *)
(* enabled until the call returns.                                         *)
(***************************************************************************)
EXTENDS Integers, FiniteSets, Sequences, SeqFilter

CONSTANTS Peer,          \* NodeId
          TxHash,        \* txids and wtxids
          Rank,          \* Rank[t][p]: the salted hash of PriorityComputer
          PreferredBit,  \* the top bit of a Priority
          Time,          \* points in time; the caller's clock may run backwards
          MaxSize,       \* bound on the number of tracked announcements
          Preference,    \* what a peer's fPreferredDownload may be
          Idle           \* no call is in progress

ASSUME RankType == /\ PreferredBit \in Nat
                   /\ Rank \in [TxHash -> [Peer -> 0 .. PreferredBit - 1]]

\* No two peers have the same hash for a transaction (a collision of salted
\* 63-bit hashes is neglected), and among some announcements one is best.
ASSUME RankDistinct ==
    \A t \in TxHash, p, q \in Peer : p # q => Rank[t][p] # Rank[t][q]

ASSUME HashesFinite == IsFiniteSet(Peer) /\ IsFiniteSet(TxHash)

ASSUME TimeType == Time \subseteq Nat

ASSUME PreferenceType == Preference \in [Peer -> SUBSET BOOLEAN]

VARIABLES m_index,      \* m_index[t][p]: the announcement of t by p
          m_order,      \* the transactions of each peer in m_sequence order
          m_peerinfo,   \* the statistics of each peer
          call,         \* the call in progress, or Idle
          loop,         \* which loop of SetTimePoint a GetRequestable is in
          result        \* what GetRequestable returned, <<>> after other calls

tracker == <<m_index, m_order, m_peerinfo>>
vars == <<m_index, m_order, m_peerinfo, call, loop, result>>

Candidate == {"CANDIDATE_DELAYED", "CANDIDATE_READY", "CANDIDATE_BEST"}
State == Candidate \cup {"REQUESTED", "COMPLETED", "NOTHING"}
Announcement == [state : State, time : Nat, preferred : BOOLEAN]
Call == [op : {"GetRequestable", "DisconnectedPeer"}, peer : Peer, now : Nat]

TypeOK == /\ m_index \in [TxHash -> [Peer -> Announcement]]
          /\ m_order \in [Peer -> Seq(TxHash)]
          /\ m_peerinfo \in [Peer -> [m_total : Nat, m_completed : Nat, m_requested : Nat]]
          /\ call \in Call \cup {Idle} /\ loop \in {"first", "second"}
          /\ result \in Seq(TxHash)

Nothing == [state |-> "NOTHING", time |-> 0, preferred |-> FALSE]
-----------------------------------------------------------------------------
IsSelected(a)   == a.state \in {"CANDIDATE_BEST", "REQUESTED"}
IsWaiting(a)    == a.state \in {"REQUESTED", "CANDIDATE_DELAYED"}
IsSelectable(a) == a.state \in {"CANDIDATE_READY", "CANDIDATE_BEST"}
IsTracked(a)    == a.state # "NOTHING"

Priority(t, p, a) == Rank[t][p] + IF a.preferred THEN PreferredBit ELSE 0

One(b) == IF b THEN 1 ELSE 0

\* Mutant: a request is taken off a peer's statistics but never put on them.
AccountNoCredit(info, old, new) ==
    [m_total     |-> info.m_total - One(IsTracked(old)) + One(IsTracked(new)),
     m_completed |-> info.m_completed - One(old.state = "COMPLETED")
                                      + One(new.state = "COMPLETED"),
     m_requested |-> info.m_requested - One(old.state = "REQUESTED")]

\* Erase, Modify and the accounting of ReceivedInv: the row of a transaction is
\* replaced, and the statistics of each peer follow what became of its
\* announcement.
Account(info, old, new) ==
    [m_total     |-> info.m_total - One(IsTracked(old)) + One(IsTracked(new)),
     m_completed |-> info.m_completed - One(old.state = "COMPLETED")
                                      + One(new.state = "COMPLETED"),
     m_requested |-> info.m_requested - One(old.state = "REQUESTED")
                                      + One(new.state = "REQUESTED")]

SetRow(t, row) ==
    /\ m_index' = [m_index EXCEPT ![t] = row]
    /\ m_peerinfo' = [p \in Peer |-> Account(m_peerinfo[p], m_index[t][p], row[p])]
    /\ m_order' = [p \in Peer |->
                     IF IsTracked(row[p]) = IsTracked(m_index[t][p])
                       THEN m_order[p]
                       ELSE IF IsTracked(row[p])
                              THEN Append(m_order[p], t)
                              ELSE Only(m_order[p], TxHash \ {t})]

\* The CANDIDATE_READY announcement that comes last in the ByTxHash order.
Ready(row) == {p \in Peer : row[p].state = "CANDIDATE_READY"}
BestReady(t, row) ==
    CHOOSE p \in Ready(row) : \A q \in Ready(row) :
        Priority(t, p, row[p]) >= Priority(t, q, row[q])

\* A CANDIDATE_DELAYED becomes ready, and CANDIDATE_BEST if no announcement is
\* selected or if it beats the selected candidate.  What follows it in the
\* ByTxHash order is a better CANDIDATE_READY, the CANDIDATE_BEST, the REQUESTED
\* or none of these.
PromoteCandidateReady(t, row, p) ==
    LET prio(q) == Priority(t, q, row[q])
        best == {q \in Peer : row[q].state = "CANDIDATE_BEST"}
        requested == {q \in Peer : row[q].state = "REQUESTED"}
        wins == /\ \A q \in Ready(row) \cup best : prio(p) > prio(q)
                /\ best = {} => requested = {}
    IN  [q \in Peer |->
           IF q = p
             THEN [row[q] EXCEPT !.state = IF wins THEN "CANDIDATE_BEST"
                                                   ELSE "CANDIDATE_READY"]
             ELSE IF wins /\ q \in best
                    THEN [row[q] EXCEPT !.state = "CANDIDATE_READY"]
                    ELSE row[q]]

\* Mutant: only a CANDIDATE_BEST hands its place on, not a REQUESTED.
ChangeAndReselectBest(t, row, p, state) ==
    LET reselect == row[p].state = "CANDIDATE_BEST" /\ Ready(row) # {}
    IN  [q \in Peer |->
           IF q = p THEN [row[q] EXCEPT !.state = state]
           ELSE IF reselect /\ q = BestReady(t, row)
                  THEN [row[q] EXCEPT !.state = "CANDIDATE_BEST"]
                  ELSE row[q]]

\* An announcement is given a state that is not selected; if it was selected,
\* the best ready candidate takes its place.
ChangeAndReselect(t, row, p, state) ==
    LET reselect == IsSelected(row[p]) /\ Ready(row) # {}
    IN  [q \in Peer |->
           IF q = p THEN [row[q] EXCEPT !.state = state]
           ELSE IF reselect /\ q = BestReady(t, row)
                  THEN [row[q] EXCEPT !.state = "CANDIDATE_BEST"]
                  ELSE row[q]]

IsOnlyNonCompleted(row, p) ==
    \A q \in Peer \ {p} : row[q].state \in {"COMPLETED", "NOTHING"}

NoRow == [p \in Peer |-> Nothing]

\* The last announcement that is not COMPLETED takes all the others with it.
MakeCompleted(t, row, p) ==
    IF row[p].state = "COMPLETED" THEN row
    ELSE IF IsOnlyNonCompleted(row, p) THEN NoRow
    ELSE ChangeAndReselect(t, row, p, "COMPLETED")
-----------------------------------------------------------------------------
Init == /\ m_index = [t \in TxHash |-> NoRow]
        /\ m_order = [p \in Peer |-> <<>>]
        /\ m_peerinfo = [p \in Peer |-> [m_total |-> 0, m_completed |-> 0, m_requested |-> 0]]
        /\ call = Idle /\ loop = "first"
        /\ result = <<>>

\* The body of an operation that is not a loop.
Atomic(t, row) ==
    /\ call = Idle
    /\ SetRow(t, row)
    /\ result' = <<>>
    /\ UNCHANGED <<call, loop>>

Size == Cardinality({a \in TxHash \X Peer : IsTracked(m_index[a[1]][a[2]])})

ReceivedInv(p, t, preferred, reqtime) ==
    /\ Size < MaxSize
    /\ ~IsTracked(m_index[t][p])
    /\ Atomic(t, [m_index[t] EXCEPT ![p] =
                    [state |-> "CANDIDATE_DELAYED", time |-> reqtime,
                     preferred |-> preferred]])

\* The row after RequestedTx.  The caller may ask for a transaction that
\* GetRequestable did not return: then the selected announcement makes way.
RequestedRow(row, p, expiry) ==
    LET best == {q \in Peer : row[q].state = "CANDIDATE_BEST"}
    IN  [q \in Peer |->
           IF q = p THEN [row[q] EXCEPT !.state = "REQUESTED", !.time = expiry]
           ELSE IF q \in best THEN [row[q] EXCEPT !.state = "CANDIDATE_READY"]
           ELSE IF best = {} /\ row[q].state = "REQUESTED"
                  THEN [row[q] EXCEPT !.state = "COMPLETED"]
                  ELSE row[q]]

RequestedTx(p, t, expiry) ==
    /\ m_index[t][p].state \in Candidate
    /\ Atomic(t, RequestedRow(m_index[t], p, expiry))

ReceivedResponse(p, t) ==
    /\ IsTracked(m_index[t][p])
    /\ Atomic(t, MakeCompleted(t, m_index[t], p))

ForgetTxHash(t) ==
    /\ \E p \in Peer : IsTracked(m_index[t][p])
    /\ Atomic(t, NoRow)

Begin(op, p, now) ==
    /\ call = Idle
    /\ call' = [op |-> op, peer |-> p, now |-> now]
    /\ result' = <<>>
    /\ UNCHANGED <<m_index, m_order, m_peerinfo, loop>>

InCall(op) == call # Idle /\ call.op = op

\* One iteration of the loop of DisconnectedPeer.
DisconnectStep(t) ==
    /\ InCall("DisconnectedPeer")
    /\ IsTracked(m_index[t][call.peer])
    /\ SetRow(t, [MakeCompleted(t, m_index[t], call.peer)
                    EXCEPT ![call.peer] = Nothing])
    /\ UNCHANGED <<call, loop, result>>

Disconnected ==
    /\ InCall("DisconnectedPeer")
    /\ \A t \in TxHash : ~IsTracked(m_index[t][call.peer])
    /\ call' = Idle
    /\ UNCHANGED <<m_index, m_order, m_peerinfo, loop, result>>

\* Mutant: an announcement whose time is exactly now is still waiting.
DueStrict(t, p) == IsWaiting(m_index[t][p]) /\ m_index[t][p].time < call.now

Due(t, p) == IsWaiting(m_index[t][p]) /\ m_index[t][p].time =< call.now
NothingDue == \A t \in TxHash, p \in Peer : ~Due(t, p)

\* Mutant: an announcement that is ready exactly now is delayed again.
EarlyReadyInclusive(t, p) == IsSelectable(m_index[t][p]) /\ m_index[t][p].time >= call.now

EarlyReady(t, p) == IsSelectable(m_index[t][p]) /\ m_index[t][p].time > call.now

\* SetTimePoint, first loop: the earliest waiting announcement whose time has
\* come is promoted or, if it is a request, given up.
SetTimePointForward(t, p) ==
    /\ InCall("GetRequestable") /\ loop = "first"
    /\ Due(t, p)
    /\ \A u \in TxHash, q \in Peer :
          Due(u, q) => m_index[t][p].time =< m_index[u][q].time
    /\ SetRow(t, IF m_index[t][p].state = "CANDIDATE_DELAYED"
                   THEN PromoteCandidateReady(t, m_index[t], p)
                   ELSE MakeCompleted(t, m_index[t], p))
    /\ UNCHANGED <<call, loop, result>>

\* The first loop finds nothing that is due and is left for good.
FirstLoopBreaks ==
    /\ InCall("GetRequestable") /\ loop = "first"
    /\ NothingDue
    /\ loop' = "second"
    /\ UNCHANGED <<m_index, m_order, m_peerinfo, call, result>>

\* SetTimePoint, second loop: the clock went backwards, and the latest of the
\* announcements that are ready too early is delayed again.
SetTimePointBackward(t, p) ==
    /\ InCall("GetRequestable") /\ loop = "second"
    /\ EarlyReady(t, p)
    /\ \A u \in TxHash, q \in Peer :
          EarlyReady(u, q) => m_index[t][p].time >= m_index[u][q].time
    /\ SetRow(t, ChangeAndReselect(t, m_index[t], p, "CANDIDATE_DELAYED"))
    /\ UNCHANGED <<call, loop, result>>

\* Time is set: the CANDIDATE_BEST announcements of the peer are returned.
Requestable(p) ==
    Only(m_order[p], {t \in TxHash : m_index[t][p].state = "CANDIDATE_BEST"})

ReturnRequestable ==
    /\ InCall("GetRequestable") /\ loop = "second"
    /\ \A t \in TxHash, p \in Peer : ~EarlyReady(t, p)
    /\ call' = Idle /\ loop' = "first"
    /\ result' = Requestable(call.peer)
    /\ UNCHANGED tracker

LoopStep == \/ \E t \in TxHash : DisconnectStep(t)
            \/ FirstLoopBreaks
            \/ \E t \in TxHash, p \in Peer :
                  SetTimePointForward(t, p) \/ SetTimePointBackward(t, p)

Next ==
    \/ \E p \in Peer, t \in TxHash :
          \/ \E preferred \in Preference[p], time \in Time : ReceivedInv(p, t, preferred, time)
          \/ \E time \in Time : RequestedTx(p, t, time)
          \/ ReceivedResponse(p, t)
    \/ \E t \in TxHash : ForgetTxHash(t)
    \/ \E p \in Peer, now \in Time :
          Begin("GetRequestable", p, now)
    \/ \E p \in Peer : Begin("DisconnectedPeer", p, 0)
    \/ LoopStep
    \/ Disconnected
    \/ ReturnRequestable

Spec == Init /\ [][Next]_vars
-----------------------------------------------------------------------------
Count(p, S) == Cardinality({t \in TxHash : m_index[t][p].state \in S})
CountInFlight(p) == m_peerinfo[p].m_requested

\* m_peerinfo caches statistics of the index; every operation keeps it exact,
\* also for the peers whose announcements another peer's answer deletes.
PeerInfoExact ==
    \A p \in Peer :
       m_peerinfo[p] = [m_total     |-> Count(p, State \ {"NOTHING"}),
                        m_completed |-> Count(p, {"COMPLETED"}),
                        m_requested |-> Count(p, {"REQUESTED"})]

\* A transaction with announcements has one that may still deliver it, at most
\* one is selected, and one is if any candidate is ready: otherwise a
\* transaction would be requested twice, or never again.
SelectionExact ==
    \A t \in TxHash :
       LET with(S) == {p \in Peer : m_index[t][p].state \in S}
           selected == with({"CANDIDATE_BEST", "REQUESTED"})
       IN  /\ with({"COMPLETED"}) # {} => with(Candidate \cup {"REQUESTED"}) # {}
           /\ \A p, q \in selected : p = q
           /\ with({"CANDIDATE_READY"}) # {} => selected # {}
           /\ \A p \in with({"CANDIDATE_BEST"}), q \in with({"CANDIDATE_READY"}) :
                 Priority(t, p, m_index[t][p]) >= Priority(t, q, m_index[t][q])

\* TxRequestTracker::Impl::SanityCheck: the invariants the code states for its
\* index, between operations and also between the iterations of their loops.
SanityCheck == TypeOK /\ PeerInfoExact /\ SelectionExact

\* TxRequestTracker::Impl::PostGetRequestableSanityCheck: when GetRequestable
\* returns, whatever waits has a time in the future and whatever is ready has
\* not, although the clock may have gone back: the second loop of SetTimePoint
\* makes nothing wait that the first one, which is over, would have to promote.
TimeSet == \A t \in TxHash, p \in Peer :
              LET a == m_index[t][p]
              IN  /\ IsWaiting(a) => a.time > call.now
                  /\ IsSelectable(a) => a.time =< call.now

PostGetRequestableSanityCheck ==
    [][InCall("GetRequestable") /\ call' = Idle => TimeSet]_vars

Book == [t \in TxHash |-> [p \in Peer |->
           LET a == m_index[t][p]
           IN  [a EXCEPT !.state = IF @ \in Candidate THEN "CANDIDATE" ELSE @]]]

A == INSTANCE TxAnnouncements WITH book <- Book, order <- m_order

\* The tracker does what its header promises: at every return, GetRequestable
\* has given up exactly the requests that timed out and returns, oldest
\* announcement first, the transactions for which the peer is the best
\* candidate and no request is in flight; a completed announcement is never
\* requested again.
RefinesAnnouncements == A!Spec
=============================================================================
