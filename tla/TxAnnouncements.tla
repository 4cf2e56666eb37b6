-------------------------- MODULE TxAnnouncements --------------------------
(***************************************************************************)
(* What TxRequestTracker promises its caller (the comments of txrequest.h  *)
(* and the naive tracker the fuzz test compares it with): announcements    *)
(* that are CANDIDATE, REQUESTED or COMPLETED, and GetRequestable, which   *)
(* returns the transactions to ask a peer for, computed from scratch.      *)
(*                                                                         *)
(* GetRequestable and DisconnectedPeer touch several announcements; their  *)
(* loops are steps of a call in progress, during which nothing else runs.  *)
(***************************************************************************)
EXTENDS Integers, Sequences, SeqFilter

CONSTANTS Peer, TxHash, Rank, PreferredBit, Time, Idle

VARIABLES book,    \* book[t][p]: what p announced about t
          order,   \* the transactions of each peer, in announcement order
          call,    \* the call in progress, or Idle
          result   \* what the last call, if it was GetRequestable, returned

vars == <<book, order, call, result>>

Nothing == [state |-> "NOTHING", time |-> 0, preferred |-> FALSE]

Priority(t, p, preferred) == Rank[t][p] + IF preferred THEN PreferredBit ELSE 0

\* Delete transactions whose only announcements are COMPLETED.
Cleanup(row) == IF \A p \in Peer : row[p].state \in {"NOTHING", "COMPLETED"}
                  THEN [p \in Peer |-> Nothing]
                  ELSE row

SetRow(t, row) ==
    /\ book' = [book EXCEPT ![t] = Cleanup(row)]
    /\ order' = [p \in Peer |->
                   IF (Cleanup(row)[p].state = "NOTHING") = (book[t][p].state = "NOTHING")
                     THEN order[p]
                     ELSE IF book[t][p].state = "NOTHING"
                            THEN Append(order[p], t)
                            ELSE Only(order[p], TxHash \ {t})]

\* May t be requested from p at time now?  Only from the best candidate whose
\* time has come, and only while no other request for t is outstanding.
Selected(t, p, now) ==
    LET viable == {q \in Peer : /\ book[t][q].state = "CANDIDATE"
                                /\ book[t][q].time =< now}
        prio(q) == Priority(t, q, book[t][q].preferred)
    IN  /\ p \in viable
        /\ \A q \in viable \ {p} : prio(p) > prio(q)
        /\ \A q \in Peer : book[t][q].state # "REQUESTED"
-----------------------------------------------------------------------------
Init == /\ book = [t \in TxHash |-> [p \in Peer |-> Nothing]]
        /\ order = [p \in Peer |-> <<>>]
        /\ call = Idle
        /\ result = <<>>

ReceivedInv(p, t, preferred, reqtime) ==
    /\ call = Idle
    /\ book[t][p].state = "NOTHING"
    /\ SetRow(t, [book[t] EXCEPT ![p] = [state |-> "CANDIDATE", time |-> reqtime,
                                         preferred |-> preferred]])
    /\ result' = <<>>
    /\ UNCHANGED call

RequestedTx(p, t, expiry) ==
    /\ call = Idle
    /\ book[t][p].state = "CANDIDATE"
    /\ SetRow(t, [q \in Peer |->
                    IF q = p THEN [book[t][p] EXCEPT !.state = "REQUESTED",
                                                     !.time = expiry]
                    ELSE IF book[t][q].state = "REQUESTED"
                           THEN [book[t][q] EXCEPT !.state = "COMPLETED"]
                           ELSE book[t][q]])
    /\ result' = <<>>
    /\ UNCHANGED call

ReceivedResponse(p, t) ==
    /\ call = Idle
    /\ book[t][p].state # "NOTHING"
    /\ SetRow(t, [book[t] EXCEPT ![p].state = "COMPLETED"])
    /\ result' = <<>>
    /\ UNCHANGED call

ForgetTxHash(t) ==
    /\ call = Idle
    /\ SetRow(t, [p \in Peer |-> Nothing])
    /\ result' = <<>>
    /\ UNCHANGED call

Call(op, p, now) ==
    /\ call = Idle
    /\ call' = [op |-> op, peer |-> p, now |-> now]
    /\ result' = <<>>
    /\ UNCHANGED <<book, order>>

\* DisconnectedPeer wipes the announcements of a peer, one at a time.
Wipe(t) ==
    /\ call # Idle /\ call.op = "DisconnectedPeer"
    /\ book[t][call.peer].state # "NOTHING"
    /\ SetRow(t, [book[t] EXCEPT ![call.peer] = Nothing])
    /\ UNCHANGED <<call, result>>

\* GetRequestable first gives up the requests that have timed out.
Expire(t, p) ==
    /\ call # Idle /\ call.op = "GetRequestable"
    /\ book[t][p].state = "REQUESTED"
    /\ book[t][p].time =< call.now
    /\ SetRow(t, [book[t] EXCEPT ![p].state = "COMPLETED"])
    /\ UNCHANGED <<call, result>>

ReturnDisconnected ==
    /\ call # Idle /\ call.op = "DisconnectedPeer"
    /\ \A t \in TxHash : book[t][call.peer].state = "NOTHING"
    /\ call' = Idle
    /\ UNCHANGED <<book, order, result>>

ReturnRequestable ==
    /\ call # Idle /\ call.op = "GetRequestable"
    /\ \A t \in TxHash, p \in Peer :
          book[t][p].state = "REQUESTED" => book[t][p].time > call.now
    /\ call' = Idle
    /\ result' = Only(order[call.peer],
                      {t \in TxHash : Selected(t, call.peer, call.now)})
    /\ UNCHANGED <<book, order>>

Next ==
    \/ \E p \in Peer, t \in TxHash :
          \/ \E preferred \in BOOLEAN, time \in Time : ReceivedInv(p, t, preferred, time)
          \/ \E time \in Time : RequestedTx(p, t, time)
          \/ ReceivedResponse(p, t)
          \/ Expire(t, p)
    \/ \E t \in TxHash : ForgetTxHash(t) \/ Wipe(t)
    \/ \E p \in Peer, now \in Time : Call("GetRequestable", p, now)
    \/ \E p \in Peer : Call("DisconnectedPeer", p, 0)
    \/ ReturnDisconnected
    \/ ReturnRequestable

Spec == Init /\ [][Next]_vars
=============================================================================
