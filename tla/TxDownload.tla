----------------------------- MODULE TxDownload -----------------------------
(***************************************************************************)
(* How PeerManagerImpl (net_processing.cpp) downloads transactions: the    *)
(* inv, tx and notfound messages of the peers, the getdata messages of     *)
(* SendMessages, and connections that come and go.  It uses the tracker    *)
(* through what TxAnnouncements promises of it.                            *)
(*                                                                         *)
(* Times are relative to the current time, 0: when time passes, every time *)
(* that is still to come moves one step closer.  The calls of one message  *)
(* handler run under cs_main, so nothing comes between the steps of        *)
(* SendMessages or FinalizeNode; messages are delayed and lost between     *)
(* them.                                                                   *)
(***************************************************************************)
EXTENDS Integers, Sequences, FiniteSets

CONSTANTS Peer, TxHash, Rank, PreferredBit, Idle,
          Time,               \* the relative times that occur
          Honest,             \* peers that answer every request for a transaction
          Offers,             \* the transactions each peer may announce
          Preferred,          \* peers with fPreferredDownload
          MaxAnnouncements,   \* MAX_PEER_TX_ANNOUNCEMENTS
          MaxInFlight,        \* MAX_PEER_TX_REQUEST_IN_FLIGHT
          NonPrefDelay,       \* NONPREF_PEER_TX_DELAY
          OverloadedDelay,    \* OVERLOADED_PEER_TX_DELAY
          GetDataInterval,    \* GETDATA_TX_INTERVAL
          MaxConnects,        \* bound on the connections made after the first ones
          Nobody

ASSUME DownloadType == /\ Offers \in [Peer -> SUBSET TxHash]
                       /\ Honest \subseteq Peer /\ Preferred \subseteq Peer
                       /\ {NonPrefDelay, OverloadedDelay} \subseteq Nat
                       /\ GetDataInterval \in Nat \ {0}

VARIABLES book, order, call, result,   \* m_txrequest, as TxAnnouncements has it
          connected,  \* m_node_states
          have,       \* the transactions for which AlreadyHaveTx holds
          getdata,    \* requests sent to an honest peer and not answered by it
          sending,    \* the peer SendMessages is sending to, or Nobody
          vGetData,   \* what is left of the requestable transactions
          connects

tracker == <<book, order, call, result>>
network == <<connected, getdata, connects>>
vars == <<book, order, call, result, connected, have, getdata, sending, vGetData, connects>>

m_txrequest == INSTANCE TxAnnouncements

Announced(t, p) == book[t][p].state # "NOTHING"
Count(p) == Cardinality({t \in TxHash : Announced(t, p)})
CountInFlight(p) == Cardinality({t \in TxHash : book[t][p].state = "REQUESTED"})

\* No handler is inside cs_main.
Free == call = Idle /\ sending = Nobody
-----------------------------------------------------------------------------
Init == /\ m_txrequest!Init
        /\ connected = Peer
        /\ have = {}
        /\ getdata = {}
        /\ sending = Nobody
        /\ vGetData = <<>>
        /\ connects = 0

\* Txids and wtxids are not told apart and no peer has the relay permission, so
\* TXID_RELAY_DELAY, which would only add to the delay, is left out.
Delay(p) == (IF p \in Preferred THEN 0 ELSE NonPrefDelay)
              + IF CountInFlight(p) >= MaxInFlight THEN OverloadedDelay ELSE 0

\* An inv message: AddTxAnnouncement, unless the peer has too many already.
AddTxAnnouncement(p, t) ==
    /\ Free /\ p \in connected
    /\ t \in Offers[p] \ have
    /\ Count(p) < MaxAnnouncements
    /\ m_txrequest!ReceivedInv(p, t, p \in Preferred, Delay(p))
    /\ UNCHANGED <<have, network, sending, vGetData>>

\* The announcement of a peer is answered, if it has one.
Respond(p, t) == IF Announced(t, p) THEN m_txrequest!ReceivedResponse(p, t)
                                    ELSE UNCHANGED tracker

\* Mutant: a transaction whose witness was stripped is forgotten like any other.
ReceivedTxForgetStripped(p, t, stripped) ==
    /\ Free /\ p \in connected
    /\ p \in Honest => <<p, t>> \in getdata /\ ~stripped
    /\ IF t \in have THEN Respond(p, t) ELSE m_txrequest!ForgetTxHash(t)
    /\ have' = IF stripped THEN have ELSE have \cup {t}
    /\ getdata' = getdata \ {<<p, t>>}
    /\ UNCHANGED <<connected, connects, sending, vGetData>>

\* A tx message: the transaction is accepted, kept as an orphan or rejected for
\* good, and in each case not asked for again; or it is a copy without its
\* witness, which says nothing about the transaction.
ReceivedTx(p, t, stripped) ==
    /\ Free /\ p \in connected
    /\ p \in Honest => <<p, t>> \in getdata /\ ~stripped
    /\ IF stripped \/ t \in have
         THEN Respond(p, t) /\ UNCHANGED have
         ELSE m_txrequest!ForgetTxHash(t) /\ have' = have \cup {t}
    /\ getdata' = getdata \ {<<p, t>>}
    /\ UNCHANGED <<connected, connects, sending, vGetData>>

NotFound(p, t) ==
    /\ Free /\ p \in connected \ Honest
    /\ Respond(p, t)
    /\ getdata' = getdata \ {<<p, t>>}
    /\ UNCHANGED <<connected, connects, have, sending, vGetData>>

\* A block that contains the transaction is connected: the callback puts it into
\* m_recent_confirmed_transactions and forgets it.
BlockConnected(t) ==
    /\ Free
    /\ m_txrequest!ForgetTxHash(t)
    /\ have' = have \cup {t}
    /\ UNCHANGED <<network, sending, vGetData>>

\* The transaction comes into the mempool by another way (the user, the wallet, a
\* disconnected block), which m_txrequest is not told of.
AcceptedElsewhere(t) ==
    /\ Free /\ t \notin have
    /\ have' = have \cup {t}
    /\ UNCHANGED <<tracker, network, sending, vGetData>>

\* A new tip clears m_recent_rejects, or the transaction leaves the mempool or
\* the orphanage.
NoLongerHave(t) ==
    /\ Free /\ t \in have
    /\ have' = have \ {t}
    /\ UNCHANGED <<tracker, network, sending, vGetData>>

\* FinalizeNode: what is on the way to or from the peer is lost.
FinalizeNode(p) ==
    /\ Free /\ p \in connected
    /\ m_txrequest!Call("DisconnectedPeer", p, 0)
    /\ connected' = connected \ {p}
    /\ getdata' = {g \in getdata : g[1] # p}
    /\ UNCHANGED <<connects, have, sending, vGetData>>

InitializeNode(p) ==
    /\ Free /\ p \notin connected /\ connects < MaxConnects
    /\ connected' = connected \cup {p}
    /\ connects' = connects + 1
    /\ UNCHANGED <<tracker, have, getdata, sending, vGetData>>

\* The steps of a call of the tracker that is in progress.
TrackerStep ==
    /\ \/ \E t \in TxHash, p \in Peer : m_txrequest!Expire(t, p)
       \/ \E t \in TxHash : m_txrequest!Wipe(t)
       \/ m_txrequest!ReturnDisconnected
    /\ UNCHANGED <<have, network, sending, vGetData>>

\* SendMessages asks which transactions to request from the peer ...
SendMessages(p) ==
    /\ Free /\ p \in connected
    /\ m_txrequest!Call("GetRequestable", p, 0)
    /\ sending' = p
    /\ UNCHANGED <<have, network, vGetData>>

Requestable ==
    /\ m_txrequest!ReturnRequestable
    /\ vGetData' = result'
    /\ sending' = IF result' = <<>> THEN Nobody ELSE sending
    /\ UNCHANGED <<have, network>>

\* Mutant: a transaction that is not needed any more is passed over.
GetDataSkip(t) ==
    IF t \in have THEN UNCHANGED <<tracker, getdata>>
    ELSE /\ m_txrequest!RequestedTx(sending, t, GetDataInterval)
         /\ getdata' = getdata \cup ({<<sending, t>>} \cap (Honest \X TxHash))

\* ... and requests each of them, or forgets it.
GetData(t) ==
    IF t \in have THEN m_txrequest!ForgetTxHash(t) /\ UNCHANGED getdata
    ELSE /\ m_txrequest!RequestedTx(sending, t, GetDataInterval)
         /\ getdata' = getdata \cup ({<<sending, t>>} \cap (Honest \X TxHash))

SendGetData ==
    /\ call = Idle /\ vGetData # <<>>
    /\ GetData(Head(vGetData))
    /\ vGetData' = Tail(vGetData)
    /\ sending' = IF Len(vGetData) = 1 THEN Nobody ELSE sending
    /\ UNCHANGED <<connected, connects, have>>

Tick ==
    /\ Free
    /\ book' = [t \in TxHash |-> [p \in Peer |->
                  [book[t][p] EXCEPT !.time = IF @ > 0 THEN @ - 1 ELSE 0]]]
    /\ UNCHANGED <<order, call, result, have, network, sending, vGetData>>

HandlerStep == TrackerStep \/ Requestable \/ SendGetData

Next ==
    \/ \E p \in Peer, t \in TxHash :
          \/ AddTxAnnouncement(p, t)
          \/ \E stripped \in BOOLEAN : ReceivedTx(p, t, stripped)
          \/ NotFound(p, t)
    \/ \E t \in TxHash : BlockConnected(t) \/ AcceptedElsewhere(t) \/ NoLongerHave(t)
    \/ \E p \in Peer : FinalizeNode(p) \/ InitializeNode(p) \/ SendMessages(p)
    \/ HandlerStep
    \/ Tick

\* A handler that runs goes on; the message handler thread comes to every peer
\* again and again; time passes; an honest peer answers.
Fairness ==
    /\ WF_vars(HandlerStep)
    /\ \A p \in Peer : SF_vars(SendMessages(p))
    /\ SF_vars(Tick)
    /\ \A p \in Honest, t \in TxHash : SF_vars(ReceivedTx(p, t, FALSE))

Spec == Init /\ [][Next]_vars /\ Fairness
-----------------------------------------------------------------------------
\* A transaction that an honest peer announced is received, or becomes known
\* otherwise, while that peer stays connected: the peers that announce it too and
\* do not answer, answer too late, answer with something useless or are
\* overloaded only delay it.
Downloaded ==
    \A p \in Honest, t \in TxHash :
       (p \in connected /\ book[t][p].state \in {"CANDIDATE", "REQUESTED"})
          ~> (t \in have \/ p \notin connected)

\* The announcements of a transaction the node has got in another way do not
\* stay in the tracker, where they would count against their peers for ever.
Forgotten ==
    \A t \in TxHash :
       t \in have ~> (t \notin have \/ \A p \in Peer : ~Announced(t, p))
=============================================================================
