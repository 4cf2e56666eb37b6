-------------------------- MODULE TxRequestProofs --------------------------
(***************************************************************************)
(* For any peers, transactions, ranks and clocks, the tracker's sanity     *)
(* check holds after every operation and between the iterations of its     *)
(* loops, and the tracker implements what its header promises.             *)
(*                                                                         *)
(* SanityCheck is inductive as it stands.  Every operation replaces the    *)
(* row of one transaction: RowOK is what SelectionExact says of a row, and *)
(* each function that computes a new row is shown to keep it.              *)
(***************************************************************************)
EXTENDS TxRequest, SumTheorems

\* One unfolding of the recursion of Only.
OnlyStep(s, S, f) ==
    [i \in 0 .. Len(s) |-> IF i = 0 THEN <<>>
                           ELSE IF s[i] \in S THEN Append(f[i - 1], s[i])
                           ELSE f[i - 1]]

\* g is the recursion's solution up to m.
OnlyUpTo(T, s, S, m, g) ==
    /\ g \in [0 .. m -> Seq(T)]
    /\ g[0] = <<>>
    /\ \A i \in 1 .. m : g[i] = IF s[i] \in S THEN Append(g[i - 1], s[i]) ELSE g[i - 1]

\* The recursion of Only has a solution up to every place of the sequence.
LEMMA OnlyExists ==
    ASSUME NEW T, NEW s \in Seq(T), NEW S, NEW n \in 0 .. Len(s)
    PROVE  \E g : OnlyUpTo(T, s, S, n, g)
<1> DEFINE E == {m \in 0 .. Len(s) : ~\E g : OnlyUpTo(T, s, S, m, g)}
<1>1. SUFFICES ASSUME E # {} PROVE FALSE
  OBVIOUS
<1>2. E \in SUBSET Nat
  OBVIOUS
<1>3. PICK m \in E : \A k \in E : m <= k
  <2> HIDE DEF E
  <2> QED BY <1>1, <1>2, NatLeast
<1>4. m # 0
  <2> DEFINE g == [i \in 0 .. 0 |-> <<>>]
  <2>1. OnlyUpTo(T, s, S, 0, g)
    BY DEF OnlyUpTo
  <2> QED BY <2>1
<1>5. m - 1 \in 0 .. Len(s) /\ m - 1 \notin E /\ m \in 1 .. Len(s)
  BY <1>3, <1>4
<1>6. PICK f : OnlyUpTo(T, s, S, m - 1, f)
  BY <1>5
<1> DEFINE last == IF s[m] \in S THEN Append(f[m - 1], s[m]) ELSE f[m - 1]
           g == [i \in 0 .. m |-> IF i = m THEN last ELSE f[i]]
<1>7. last \in Seq(T)
  <2>1. f[m - 1] \in Seq(T) /\ s[m] \in T
    BY <1>5, <1>6 DEF OnlyUpTo
  <2> QED BY <2>1
<1>8. g \in [0 .. m -> Seq(T)] /\ g[0] = <<>>
  <2> HIDE DEF last
  <2>1. m \in Nat /\ 0 \in 0 .. m
    BY <1>5
  <2>2. \A i \in 0 .. m : i # m => i \in 0 .. m - 1
    BY <2>1
  <2>3. f \in [0 .. m - 1 -> Seq(T)] /\ f[0] = <<>>
    BY <1>6 DEF OnlyUpTo
  <2>4. \A i \in 0 .. m : g[i] \in Seq(T)
    BY <1>7, <2>2, <2>3
  <2> QED BY <1>4, <2>1, <2>3, <2>4
<1>9. ASSUME NEW i \in 1 .. m
      PROVE  g[i] = IF s[i] \in S THEN Append(g[i - 1], s[i]) ELSE g[i - 1]
  <2>1. g[i - 1] = f[i - 1]
    <3> HIDE DEF last
    <3> QED BY <1>5
  <2>2. CASE i = m
    BY <1>5, <2>1, <2>2
  <2>3. CASE i # m
    <3>1. i \in 1 .. m - 1 /\ g[i] = f[i]
      <4> HIDE DEF last
      <4> QED BY <1>5, <2>3
    <3>2. f[i] = IF s[i] \in S THEN Append(f[i - 1], s[i]) ELSE f[i - 1]
      BY <1>6, <3>1 DEF OnlyUpTo
    <3> QED BY <2>1, <3>1, <3>2
  <2>4. QED
    BY <2>2, <2>3
<1>10. OnlyUpTo(T, s, S, m, g)
  <2> HIDE DEF g
  <2> QED BY <1>8, <1>9 DEF OnlyUpTo
<1>11. QED
  BY <1>3, <1>10

\* A subsequence of a sequence over T is one over T.
LEMMA OnlyType ==
    ASSUME NEW T, NEW s \in Seq(T), NEW S
    PROVE  Only(s, S) \in Seq(T)
<1> DEFINE h == CHOOSE f : f = OnlyStep(s, S, f)
<1>1. Only(s, S) = h[Len(s)]
  BY DEF Only, OnlyStep
<1>2. Len(s) \in Nat
  OBVIOUS
<1>3. \E f : f = OnlyStep(s, S, f)
  <2>1. PICK g : OnlyUpTo(T, s, S, Len(s), g)
    <3>1. Len(s) \in 0 .. Len(s)
      BY <1>2
    <3> QED BY <3>1, OnlyExists
  <2>2. g = OnlyStep(s, S, g)
    <3>1. g \in [0 .. Len(s) -> Seq(T)]
      BY <2>1 DEF OnlyUpTo
    <3>2. ASSUME NEW i \in 0 .. Len(s)
          PROVE  g[i] = OnlyStep(s, S, g)[i]
      <4>1. CASE i = 0
        BY <2>1, <4>1 DEF OnlyUpTo, OnlyStep
      <4>2. CASE i # 0
        <5>1. i \in 1 .. Len(s)
          BY <4>2
        <5> QED BY <2>1, <4>2, <5>1 DEF OnlyUpTo, OnlyStep
      <4> QED BY <4>1, <4>2
    <3> QED BY <3>1, <3>2 DEF OnlyStep
  <2> QED BY <2>2
<1>4. h = OnlyStep(s, S, h)
  BY <1>3
<1> HIDE DEF h
<1> DEFINE E == {m \in 0 .. Len(s) : h[m] \notin Seq(T)}
<1>5. SUFFICES ASSUME E # {} PROVE FALSE
  BY <1>1, <1>2
<1>6. E \in SUBSET Nat
  OBVIOUS
<1>7. PICK m \in E : \A k \in E : m <= k
  <2> HIDE DEF E
  <2> QED BY <1>5, <1>6, NatLeast
<1>8. m \in 0 .. Len(s) /\ h[m] \notin Seq(T)
  OBVIOUS
<1>9. h[m] = IF m = 0 THEN <<>>
             ELSE IF s[m] \in S THEN Append(h[m - 1], s[m]) ELSE h[m - 1]
  BY <1>4, <1>8 DEF OnlyStep
<1>10. m # 0
  BY <1>8, <1>9
<1>11. h[m - 1] \in Seq(T) /\ s[m] \in T
  BY <1>2, <1>7, <1>8, <1>10
<1>12. QED
  BY <1>8, <1>9, <1>10, <1>11
-----------------------------------------------------------------------------
Row == [Peer -> Announcement]

\* What SelectionExact says of one transaction.
RowOK(t, row) ==
    /\ \A p \in Peer : row[p].state = "COMPLETED" =>
          \E q \in Peer : row[q].state \in Candidate \cup {"REQUESTED"}
    /\ \A p, q \in Peer : IsSelected(row[p]) /\ IsSelected(row[q]) => p = q
    /\ \A p \in Peer : row[p].state = "CANDIDATE_READY" => \E q \in Peer : IsSelected(row[q])
    /\ \A p, q \in Peer :
          row[p].state = "CANDIDATE_BEST" /\ row[q].state = "CANDIDATE_READY" =>
             Priority(t, p, row[p]) >= Priority(t, q, row[q])

\* SelectionExact is a fact about each row.
LEMMA SelectionByRow == SelectionExact <=> \A t \in TxHash : RowOK(t, m_index[t])
<1>1. ASSUME SelectionExact, NEW t \in TxHash
      PROVE  RowOK(t, m_index[t])
  BY <1>1 DEF SelectionExact, RowOK, IsSelected
<1>2. ASSUME \A t \in TxHash : RowOK(t, m_index[t])
      PROVE  SelectionExact
  BY <1>2 DEF SelectionExact, RowOK, IsSelected
<1>3. QED
  BY <1>1, <1>2

\* Priorities are numbers, and those of two peers differ.
LEMMA PriorityType ==
    ASSUME NEW t \in TxHash, NEW p \in Peer, NEW a \in Announcement
    PROVE  Priority(t, p, a) \in Nat
BY RankType DEF Priority, Announcement

\* Two peers never have the same priority for a transaction.
LEMMA PriorityDistinct ==
    ASSUME NEW t \in TxHash, NEW p \in Peer, NEW q \in Peer, p # q,
           NEW a \in Announcement, NEW b \in Announcement
    PROVE  Priority(t, p, a) # Priority(t, q, b)
<1>1. /\ Rank[t][p] \in 0 .. PreferredBit - 1 /\ Rank[t][q] \in 0 .. PreferredBit - 1
      /\ Rank[t][p] # Rank[t][q] /\ PreferredBit \in Nat
  BY RankType, RankDistinct
<1>2. QED
  BY <1>1 DEF Priority

\* Among ready candidates there is a best one, and BestReady is one.
LEMMA BestReadyIsBest ==
    ASSUME NEW t \in TxHash, NEW row \in Row, Ready(row) # {}
    PROVE  /\ BestReady(t, row) \in Ready(row)
           /\ \A q \in Ready(row) :
                 Priority(t, BestReady(t, row), row[BestReady(t, row)]) >= Priority(t, q, row[q])
<1> DEFINE R == Ready(row)
           prio(q) == Priority(t, q, row[q])
           F == {T \in SUBSET R : T = {} \/ \E m \in T : \A q \in T : prio(m) >= prio(q)}
<1>1. IsFiniteSet(R) /\ \A q \in R : prio(q) \in Nat
  BY HashesFinite, FS_Subset, PriorityType DEF Ready, Row
<1> HIDE DEF prio
<1>2. {} \in F
  OBVIOUS
<1>3. ASSUME NEW T \in SUBSET R, NEW x \in R, T \in F, x \notin T
      PROVE  T \cup {x} \in F
  <2>1. CASE T = {}
    BY <1>1, <2>1
  <2>2. CASE T # {}
    <3>1. PICK m \in T : \A q \in T : prio(m) >= prio(q)
      BY <1>3, <2>2
    <3>2. CASE prio(m) >= prio(x)
      <4>1. \A q \in T \cup {x} : prio(m) >= prio(q)
        BY <3>1, <3>2
      <4> QED BY <4>1
    <3>3. CASE ~(prio(m) >= prio(x))
      <4>1. \A q \in T \cup {x} : prio(x) >= prio(q)
        BY <1>1, <3>1, <3>3
      <4> QED BY <4>1
    <3>4. QED
      BY <3>2, <3>3
  <2>3. QED
    BY <2>1, <2>2
<1>4. InductiveFamily(R, F)
  BY <1>2, <1>3 DEF InductiveFamily
<1>5. R \in F
  <2> HIDE DEF R, F
  <2> QED BY <1>1, <1>4, FiniteSetInduction
<1>6. PICK m \in R : \A q \in R : prio(m) >= prio(q)
  BY <1>5
<1>7. \E p \in Ready(row) : \A q \in Ready(row) :
         Priority(t, p, row[p]) >= Priority(t, q, row[q])
  BY <1>6 DEF prio
<1>8. QED
  BY <1>7 DEF BestReady
-----------------------------------------------------------------------------
\* A transaction without announcements.
LEMMA NoRowOK ==
    ASSUME NEW t \in TxHash
    PROVE  NoRow \in Row /\ RowOK(t, NoRow)
BY DEF NoRow, Nothing, Row, RowOK, Announcement, State, Candidate, IsSelected

\* ReceivedInv: a delayed candidate is added.
LEMMA AnnouncedRowOK ==
    ASSUME NEW t \in TxHash, NEW row \in Row, RowOK(t, row), NEW p \in Peer,
           ~IsTracked(row[p]), NEW time \in Nat, NEW preferred \in BOOLEAN,
           NEW new, new = [row EXCEPT ![p] = [state |-> "CANDIDATE_DELAYED", time |-> time,
                                              preferred |-> preferred]]
    PROVE  new \in Row /\ RowOK(t, new)
<1>1. new \in Row
  BY DEF Row, Announcement, State, Candidate
<1>2. /\ new[p].state = "CANDIDATE_DELAYED" /\ row[p].state = "NOTHING"
      /\ \A q \in Peer \ {p} : new[q] = row[q]
  BY DEF Row, IsTracked
<1>3. QED
  BY <1>1, <1>2 DEF RowOK, IsSelected, Candidate

\* RequestedTx: the announcement is the only selected one afterwards.
LEMMA RequestedRowOK ==
    ASSUME NEW t \in TxHash, NEW row \in Row, RowOK(t, row), NEW p \in Peer,
           row[p].state \in Candidate, NEW expiry \in Nat
    PROVE  RequestedRow(row, p, expiry) \in Row /\ RowOK(t, RequestedRow(row, p, expiry))
<1> DEFINE new == RequestedRow(row, p, expiry)
<1>1. \A q \in Peer : row[q] \in Announcement
  BY DEF Row
<1>2. new \in Row
  BY <1>1 DEF Row, RequestedRow, Announcement, State, Candidate
<1>3. new[p].state = "REQUESTED"
  BY <1>1 DEF RequestedRow, Announcement
<1>4. ASSUME NEW q \in Peer \ {p}
      PROVE  ~IsSelected(new[q])
  <2>1. CASE row[q].state = "CANDIDATE_BEST"
    BY <1>1, <2>1 DEF RequestedRow, Announcement, IsSelected
  <2>2. CASE row[q].state # "CANDIDATE_BEST" /\ \E b \in Peer : row[b].state = "CANDIDATE_BEST"
    <3>1. row[q].state # "REQUESTED"
      BY <2>2 DEF RowOK, IsSelected
    <3>2. new[q] = row[q]
      BY <2>2 DEF RequestedRow
    <3> QED BY <2>2, <3>1, <3>2 DEF IsSelected
  <2>3. CASE \A b \in Peer : row[b].state # "CANDIDATE_BEST"
    BY <1>1, <2>3 DEF RequestedRow, Announcement, IsSelected
  <2>4. QED
    BY <2>1, <2>2, <2>3
<1>5. RowOK(t, new)
  <2> HIDE DEF new
  <2>1. IsSelected(new[p]) /\ new[p].state # "CANDIDATE_BEST"
    BY <1>3 DEF IsSelected
  <2>2. \A q \in Peer : new[q].state = "CANDIDATE_BEST" => IsSelected(new[q])
    BY DEF IsSelected
  <2>3. QED
    BY <1>3, <1>4, <2>1, <2>2 DEF RowOK
<1>6. QED
  BY <1>2, <1>5

\* PromoteCandidateReady: the candidate is selected exactly if it should be.
LEMMA PromotedRowOK ==
    ASSUME NEW t \in TxHash, NEW row \in Row, RowOK(t, row), NEW p \in Peer,
           row[p].state = "CANDIDATE_DELAYED"
    PROVE  PromoteCandidateReady(t, row, p) \in Row /\ RowOK(t, PromoteCandidateReady(t, row, p))
<1> DEFINE new == PromoteCandidateReady(t, row, p)
           prio(q) == Priority(t, q, row[q])
           best == {q \in Peer : row[q].state = "CANDIDATE_BEST"}
           requested == {q \in Peer : row[q].state = "REQUESTED"}
           wins == /\ \A q \in Ready(row) \cup best : prio(p) > prio(q)
                   /\ best = {} => requested = {}
<1>1. /\ \A q \in Peer : row[q] \in Announcement /\ prio(q) \in Nat
      /\ \A q \in Peer \ {p} : prio(q) # prio(p)
  BY PriorityType, PriorityDistinct DEF Row
<1>2. new = [q \in Peer |->
           IF q = p
             THEN [row[q] EXCEPT !.state = IF wins THEN "CANDIDATE_BEST" ELSE "CANDIDATE_READY"]
             ELSE IF wins /\ q \in best
                    THEN [row[q] EXCEPT !.state = "CANDIDATE_READY"]
                    ELSE row[q]]
  BY DEF PromoteCandidateReady
<1>3. Ready(row) = {q \in Peer : row[q].state = "CANDIDATE_READY"}
  BY DEF Ready
<1>4. \A q \in Peer : Priority(t, q, new[q]) = prio(q)
  <2>1. \A q \in Peer : new[q].preferred = row[q].preferred
    <3> HIDE DEF wins
    <3> QED BY <1>1, <1>2 DEF Announcement
  <2> QED BY <2>1 DEF Priority
<1> HIDE DEF new, prio
<1>5. new \in Row
  <2> HIDE DEF wins
  <2> QED BY <1>1, <1>2 DEF Row, Announcement, State, Candidate
<1>6. CASE wins
  <2>1. new[p].state = "CANDIDATE_BEST"
    BY <1>1, <1>2, <1>6 DEF Announcement
  <2>2. ASSUME NEW q \in Peer \ {p}
        PROVE  new[q].state = IF q \in best THEN "CANDIDATE_READY" ELSE row[q].state
    BY <1>1, <1>2, <1>6 DEF Announcement
  <2>3. ASSUME NEW q \in Peer \ {p} PROVE ~IsSelected(new[q])
    <3>1. q \notin best => q \notin requested
      BY <1>6 DEF RowOK, IsSelected
    <3> QED BY <2>2, <3>1 DEF IsSelected
  <2>4. ASSUME NEW q \in Peer, new[q].state = "CANDIDATE_READY"
        PROVE  prio(p) >= prio(q)
    <3>1. q # p
      BY <2>1, <2>4
    <3>2. q \in Ready(row) \cup best
      BY <1>3, <2>2, <2>4, <3>1
    <3> QED BY <1>1, <1>6, <3>2
  <2>5. IsSelected(new[p]) /\ \A q \in Peer : new[q].state = "CANDIDATE_BEST" => q = p
    BY <2>1, <2>3 DEF IsSelected
  <2>6. RowOK(t, new)
    BY <1>4, <2>1, <2>3, <2>4, <2>5 DEF RowOK, Candidate
  <2>7. QED
    BY <1>5, <2>6 DEF new
<1>7. CASE ~wins
  <2>1. new[p].state = "CANDIDATE_READY" /\ \A q \in Peer \ {p} : new[q] = row[q]
    BY <1>1, <1>2, <1>7 DEF Announcement
  <2>2. \E q \in Peer : IsSelected(row[q])
    <3>1. CASE best # {} \/ requested # {}
      BY <3>1 DEF IsSelected
    <3>2. CASE best = {} /\ requested = {}
      BY <1>3, <1>7, <3>2 DEF RowOK
    <3> QED BY <3>1, <3>2
  <2>3. \A q \in best : prio(q) >= prio(p)
    <3>1. ASSUME NEW q \in best, ~(prio(q) >= prio(p)) PROVE FALSE
      <4>1. \A r \in Ready(row) : prio(q) >= prio(r)
        BY <1>3, <3>1 DEF RowOK, prio
      <4>2. \A r \in best : r = q
        BY <3>1 DEF RowOK, IsSelected
      <4>3. wins
        BY <1>1, <1>3, <3>1, <4>1, <4>2
      <4> QED BY <1>7, <4>3
    <3> QED BY <3>1
  <2>4. RowOK(t, new)
    <3>1. \A q \in Peer : IsSelected(new[q]) <=> IsSelected(row[q])
      BY <2>1 DEF IsSelected
    <3>2. \A q, r \in Peer : new[q].state = "CANDIDATE_BEST" /\ new[r].state = "CANDIDATE_READY"
             => prio(q) >= prio(r)
      <4>1. ASSUME NEW q \in Peer, NEW r \in Peer,
                   new[q].state = "CANDIDATE_BEST", new[r].state = "CANDIDATE_READY"
            PROVE  prio(q) >= prio(r)
        <5>1. q \in best
          BY <2>1, <4>1
        <5>2. CASE r = p
          BY <2>3, <5>1, <5>2
        <5>3. CASE r # p
          BY <2>1, <4>1, <5>1, <5>3 DEF RowOK, prio
        <5> QED BY <5>2, <5>3
      <4> QED BY <4>1
    <3>3. QED
      BY <1>4, <2>1, <2>2, <3>1, <3>2 DEF RowOK, Candidate
  <2>5. QED
    BY <1>5, <2>4 DEF new
<1>8. QED
  BY <1>6, <1>7

\* What ChangeAndReselect makes of each announcement.
IsReselected(t, row, p, state, new) ==
    /\ new \in Row
    /\ new[p] = [row[p] EXCEPT !.state = state]
    /\ new[p].state = state
    /\ \A q \in Peer : Priority(t, q, new[q]) = Priority(t, q, row[q])
    /\ \/ /\ \A q \in Peer \ {p} : new[q] = row[q]
          /\ IsSelected(row[p]) => Ready(row) = {}
       \/ \E b \in Ready(row) :
             /\ IsSelected(row[p]) /\ b # p
             /\ new[b] = [row[b] EXCEPT !.state = "CANDIDATE_BEST"]
             /\ new[b].state = "CANDIDATE_BEST"
             /\ \A q \in Ready(row) : Priority(t, b, row[b]) >= Priority(t, q, row[q])
             /\ \A q \in Peer \ {p, b} : new[q] = row[q]

\* ChangeAndReselect gives the place of a selected announcement to the best
\* ready one, if there is one.
LEMMA Reselected ==
    ASSUME NEW t \in TxHash, NEW row \in Row, RowOK(t, row), NEW p \in Peer,
           NEW state \in {"COMPLETED", "CANDIDATE_DELAYED"}
    PROVE  IsReselected(t, row, p, state, ChangeAndReselect(t, row, p, state))
<1> DEFINE reselect == IsSelected(row[p]) /\ Ready(row) # {}
           b == BestReady(t, row)
           new == ChangeAndReselect(t, row, p, state)
<1>1. \A q \in Peer : row[q] \in Announcement
  BY DEF Row
<1>2. new = [q \in Peer |->
               IF q = p THEN [row[q] EXCEPT !.state = state]
               ELSE IF reselect /\ q = b
                      THEN [row[q] EXCEPT !.state = "CANDIDATE_BEST"]
                      ELSE row[q]]
  BY DEF ChangeAndReselect
<1>3. reselect => /\ b \in Ready(row) /\ b \in Peer /\ b # p
                  /\ \A q \in Ready(row) : Priority(t, b, row[b]) >= Priority(t, q, row[q])
  BY BestReadyIsBest DEF Ready, IsSelected
<1> HIDE DEF reselect, b, new
<1>4. new \in Row
  BY <1>1, <1>2 DEF Row, Announcement, State, Candidate
<1>5. new[p] = [row[p] EXCEPT !.state = state] /\ new[p].state = state
  BY <1>1, <1>2 DEF Announcement
<1>6. \A q \in Peer : Priority(t, q, new[q]) = Priority(t, q, row[q])
  <2>1. \A q \in Peer : new[q].preferred = row[q].preferred
    BY <1>1, <1>2 DEF Announcement
  <2> QED BY <2>1 DEF Priority
<1>7. CASE reselect
  <2>1. /\ new[b] = [row[b] EXCEPT !.state = "CANDIDATE_BEST"] /\ new[b].state = "CANDIDATE_BEST"
        /\ \A q \in Peer \ {p, b} : new[q] = row[q]
    BY <1>1, <1>2, <1>3, <1>7 DEF Announcement
  <2>2. IsSelected(row[p])
    BY <1>7 DEF reselect
  <2>3. QED
    BY <1>3, <1>4, <1>5, <1>6, <1>7, <2>1, <2>2 DEF IsReselected, new
<1>8. CASE ~reselect
  <2>1. \A q \in Peer \ {p} : new[q] = row[q]
    BY <1>2, <1>8
  <2>2. IsSelected(row[p]) => Ready(row) = {}
    BY <1>8 DEF reselect
  <2>3. QED
    BY <1>4, <1>5, <1>6, <2>1, <2>2 DEF IsReselected, new
<1>9. QED
  BY <1>7, <1>8

\* It keeps the selection right, unless it completes the last announcement that
\* may still deliver.
LEMMA ReselectedRowOK ==
    ASSUME NEW t \in TxHash, NEW row \in Row, RowOK(t, row), NEW p \in Peer,
           NEW state \in {"COMPLETED", "CANDIDATE_DELAYED"},
           state = "COMPLETED" => ~IsOnlyNonCompleted(row, p)
    PROVE  /\ ChangeAndReselect(t, row, p, state) \in Row
           /\ RowOK(t, ChangeAndReselect(t, row, p, state))
<1> DEFINE new == ChangeAndReselect(t, row, p, state)
<1>0. IsReselected(t, row, p, state, new)
  BY Reselected
<1> HIDE DEF new
<1>1. /\ new \in Row /\ new[p].state = state
      /\ \A q \in Peer : Priority(t, q, new[q]) = Priority(t, q, row[q])
  BY <1>0 DEF IsReselected
<1>2. \A q \in Peer : row[q] \in Announcement
  BY DEF Row
<1>3. CASE /\ \A q \in Peer \ {p} : new[q] = row[q]
           /\ IsSelected(row[p]) => Ready(row) = {}
  <2>1. IsSelected(row[p]) => Ready(row) = {}
    BY <1>3
  <2>2. \E q \in Peer : new[q].state \in Candidate \cup {"REQUESTED"}
    <3>1. CASE state = "COMPLETED"
      <4>1. PICK q \in Peer \ {p} : row[q].state \notin {"COMPLETED", "NOTHING"}
        BY <3>1 DEF IsOnlyNonCompleted
      <4>2. row[q].state \in Candidate \cup {"REQUESTED"}
        BY <1>2, <4>1 DEF Announcement, State
      <4> QED BY <1>3, <4>1, <4>2
    <3>2. CASE state = "CANDIDATE_DELAYED"
      BY <1>1, <3>2 DEF Candidate
    <3> QED BY <3>1, <3>2
  <2>3. \A q \in Peer : /\ IsSelected(new[q]) <=> IsSelected(row[q]) /\ q # p
                        /\ new[q].state = "CANDIDATE_READY" =>
                              q # p /\ row[q].state = "CANDIDATE_READY" /\ ~IsSelected(row[p])
                        /\ new[q].state = "CANDIDATE_BEST" => row[q].state = "CANDIDATE_BEST"
    BY <1>1, <1>3, <2>1 DEF IsSelected, Ready
  <2>4. RowOK(t, new)
    <3>1. ASSUME NEW q \in Peer, new[q].state = "CANDIDATE_READY"
          PROVE  \E r \in Peer : IsSelected(new[r])
      <4>1. row[q].state = "CANDIDATE_READY" /\ ~IsSelected(row[p])
        BY <2>3, <3>1
      <4>2. PICK r \in Peer : IsSelected(row[r])
        BY <4>1 DEF RowOK
      <4> QED BY <2>3, <4>1, <4>2
    <3>2. \A q, r \in Peer : new[q].state = "CANDIDATE_BEST" /\ new[r].state = "CANDIDATE_READY"
             => Priority(t, q, new[q]) >= Priority(t, r, new[r])
      BY <1>1, <2>3 DEF RowOK
    <3>3. \A q, r \in Peer : IsSelected(new[q]) /\ IsSelected(new[r]) => q = r
      BY <2>3 DEF RowOK
    <3>4. QED
      BY <2>2, <3>1, <3>2, <3>3 DEF RowOK
  <2>5. QED
    BY <1>1, <2>4 DEF new
<1>4. CASE ~(/\ \A q \in Peer \ {p} : new[q] = row[q]
             /\ IsSelected(row[p]) => Ready(row) = {})
  <2>1. PICK b \in Ready(row) :
           /\ IsSelected(row[p]) /\ b # p /\ new[b].state = "CANDIDATE_BEST"
           /\ \A q \in Ready(row) : Priority(t, b, row[b]) >= Priority(t, q, row[q])
           /\ \A q \in Peer \ {p, b} : new[q] = row[q]
    BY <1>0, <1>4 DEF IsReselected
  <2>2. b \in Peer /\ IsSelected(new[b]) /\ new[b].state \in Candidate
    BY <2>1 DEF Ready, IsSelected, Candidate
  <2>3. \A q \in Peer : IsSelected(new[q]) => q = b
    BY <1>1, <2>1 DEF RowOK, IsSelected
  <2>4. \A q \in Peer : new[q].state = "CANDIDATE_BEST" => q = b
    BY <2>3 DEF IsSelected
  <2>5. \A q \in Peer : new[q].state = "CANDIDATE_READY" => q \in Ready(row)
    BY <1>1, <2>1 DEF Ready
  <2>6. RowOK(t, new)
    <3>1. \A q \in Peer : new[q].state = "CANDIDATE_READY" =>
             Priority(t, b, new[b]) >= Priority(t, q, new[q])
      BY <1>1, <2>1, <2>2, <2>5
    <3>2. QED
      BY <2>2, <2>3, <2>4, <3>1 DEF RowOK
  <2>7. QED
    BY <1>1, <2>6 DEF new
<1>5. QED
  BY <1>3, <1>4

\* MakeCompleted.
LEMMA CompletedRowOK ==
    ASSUME NEW t \in TxHash, NEW row \in Row, RowOK(t, row), NEW p \in Peer
    PROVE  MakeCompleted(t, row, p) \in Row /\ RowOK(t, MakeCompleted(t, row, p))
<1>1. CASE row[p].state = "COMPLETED"
  BY <1>1 DEF MakeCompleted
<1>2. CASE row[p].state # "COMPLETED" /\ IsOnlyNonCompleted(row, p)
  BY <1>2, NoRowOK DEF MakeCompleted
<1>3. CASE row[p].state # "COMPLETED" /\ ~IsOnlyNonCompleted(row, p)
  BY <1>3, ReselectedRowOK DEF MakeCompleted
<1>4. QED
  BY <1>1, <1>2, <1>3

\* DisconnectedPeer: the announcement is completed and then erased.
LEMMA WipedRowOK ==
    ASSUME NEW t \in TxHash, NEW row \in Row, RowOK(t, row), NEW p \in Peer,
           NEW new, new = [MakeCompleted(t, row, p) EXCEPT ![p] = Nothing]
    PROVE  new \in Row /\ RowOK(t, new)
<1> DEFINE mid == MakeCompleted(t, row, p)
<1>1. mid \in Row /\ RowOK(t, mid)
  BY CompletedRowOK
<1>2. mid[p].state \in {"COMPLETED", "NOTHING"}
  <2>1. CASE row[p].state = "COMPLETED"
    BY <2>1 DEF MakeCompleted
  <2>2. CASE row[p].state # "COMPLETED" /\ IsOnlyNonCompleted(row, p)
    BY <2>2 DEF MakeCompleted, NoRow, Nothing
  <2>3. CASE row[p].state # "COMPLETED" /\ ~IsOnlyNonCompleted(row, p)
    <3>1. IsReselected(t, row, p, "COMPLETED", ChangeAndReselect(t, row, p, "COMPLETED"))
      BY Reselected
    <3>2. mid = ChangeAndReselect(t, row, p, "COMPLETED")
      BY <2>3 DEF MakeCompleted
    <3> HIDE DEF mid
    <3> QED BY <3>1, <3>2 DEF IsReselected
  <2>4. QED
    BY <2>1, <2>2, <2>3
<1> HIDE DEF mid
<1>3. new = [mid EXCEPT ![p] = Nothing]
  BY DEF mid
<1>4. new \in Row
  <2>1. Nothing \in Announcement
    BY DEF Nothing, Announcement, State
  <2> QED BY <1>1, <1>3, <2>1 DEF Row
<1>5. new[p].state = "NOTHING" /\ \A q \in Peer \ {p} : new[q] = mid[q]
  BY <1>1, <1>3 DEF Row, Nothing
<1>6. QED
  BY <1>1, <1>2, <1>4, <1>5 DEF RowOK, IsSelected, Candidate
-----------------------------------------------------------------------------
\* The size of a set after one element may have come or gone.
LEMMA CardinalityChange ==
    ASSUME NEW U, IsFiniteSet(U), NEW S, NEW R, S \subseteq U, R \subseteq U, NEW x,
           S \ {x} = R \ {x}
    PROVE  /\ Cardinality(S) \in Nat /\ Cardinality(R) \in Nat
           /\ Cardinality(R) = Cardinality(S) - One(x \in S) + One(x \in R)
<1>1. IsFiniteSet(S) /\ IsFiniteSet(R)
  BY FS_Subset
<1>2. Cardinality(S) \in Nat /\ Cardinality(R) \in Nat /\ Cardinality(S \ {x}) \in Nat
  BY <1>1, FS_CardinalityType, FS_RemoveElement
<1>3. Cardinality(S \ {x}) = IF x \in S THEN Cardinality(S) - 1 ELSE Cardinality(S)
  BY <1>1, FS_RemoveElement
<1>4. Cardinality(R \ {x}) = IF x \in R THEN Cardinality(R) - 1 ELSE Cardinality(R)
  BY <1>1, FS_RemoveElement
<1>5. QED
  BY <1>2, <1>3, <1>4 DEF One

\* Count for a given index.
CountIn(index, p, S) == Cardinality({u \in TxHash : index[u][p].state \in S})

CountMoves(index, new, t, p, S) ==
    /\ CountIn(index, p, S) \in Nat /\ CountIn(new, p, S) \in Nat
    /\ CountIn(new, p, S) = CountIn(index, p, S) - One(index[t][p].state \in S)
                                                + One(new[t][p].state \in S)

\* A peer's statistic after the row of one transaction has changed.
LEMMA CountChange ==
    ASSUME NEW index \in [TxHash -> Row], NEW t \in TxHash, NEW row \in Row,
           NEW p \in Peer, NEW S
    PROVE  CountMoves(index, [index EXCEPT ![t] = row], t, p, S)
<1> DEFINE new == [index EXCEPT ![t] = row]
           X == {u \in TxHash : index[u][p].state \in S}
           Y == {u \in TxHash : new[u][p].state \in S}
<1>1. X \subseteq TxHash /\ Y \subseteq TxHash /\ X \ {t} = Y \ {t}
  OBVIOUS
<1>2. (t \in X <=> index[t][p].state \in S) /\ (t \in Y <=> new[t][p].state \in S)
  OBVIOUS
<1>3. CountIn(index, p, S) = Cardinality(X) /\ CountIn(new, p, S) = Cardinality(Y)
  BY DEF CountIn
<1> HIDE DEF X, Y, new
<1>4. /\ Cardinality(X) \in Nat /\ Cardinality(Y) \in Nat
      /\ Cardinality(Y) = Cardinality(X) - One(t \in X) + One(t \in Y)
  BY <1>1, HashesFinite, CardinalityChange
<1>5. QED
  BY <1>2, <1>3, <1>4 DEF One, CountMoves, new

\* An operation that gives a transaction a proper row keeps everything.
LEMMA SetRowInv ==
    ASSUME SanityCheck, NEW t \in TxHash, NEW row \in Row, RowOK(t, row), SetRow(t, row),
           call' \in Call \cup {Idle}, result' \in Seq(TxHash),
           loop' \in {"first", "second"}
    PROVE  SanityCheck'
<1>1. TypeOK /\ PeerInfoExact /\ \A u \in TxHash : RowOK(u, m_index[u])
  BY SelectionByRow DEF SanityCheck
<1>2. /\ m_index' = [m_index EXCEPT ![t] = row]
      /\ m_index' \in [TxHash -> [Peer -> Announcement]]
      /\ \A u \in TxHash : m_index'[u] = IF u = t THEN row ELSE m_index[u]
  BY <1>1 DEF SetRow, TypeOK, Row
<1>3. m_order' \in [Peer -> Seq(TxHash)]
  <2>1. \A p \in Peer : m_order[p] \in Seq(TxHash)
    BY <1>1 DEF TypeOK
  <2>2. \A p \in Peer : Only(m_order[p], TxHash \ {t}) \in Seq(TxHash)
    BY <2>1, OnlyType
  <2>3. \A p \in Peer : Append(m_order[p], t) \in Seq(TxHash)
    BY <2>1
  <2>4. QED
    BY <2>1, <2>2, <2>3 DEF SetRow
<1>4. ASSUME NEW p \in Peer, NEW S
      PROVE  /\ Count(p, S)' \in Nat
             /\ Count(p, S)' = Count(p, S) - One(m_index[t][p].state \in S) + One(row[p].state \in S)
  <2>1. Count(p, S) = CountIn(m_index, p, S) /\ Count(p, S)' = CountIn(m_index', p, S)
    BY DEF Count, CountIn
  <2>2. m_index \in [TxHash -> Row]
    BY <1>1 DEF TypeOK, Row
  <2>3. /\ CountIn(m_index', p, S) \in Nat
        /\ CountIn(m_index', p, S) = CountIn(m_index, p, S) - One(m_index[t][p].state \in S)
                                                           + One(row[p].state \in S)
    <3>1. m_index' = [m_index EXCEPT ![t] = row]
      BY <1>2
    <3>2. CountMoves(m_index, [m_index EXCEPT ![t] = row], t, p, S)
      BY <2>2, CountChange
    <3>3. m_index'[t] = row
      BY <1>2
    <3>4. QED
      BY <3>1, <3>2, <3>3 DEF CountMoves
  <2>4. QED
    BY <2>1, <2>3
<1>5. ASSUME NEW p \in Peer
      PROVE  /\ m_peerinfo'[p] = [m_total     |-> Count(p, State \ {"NOTHING"})',
                                  m_completed |-> Count(p, {"COMPLETED"})',
                                  m_requested |-> Count(p, {"REQUESTED"})']
             /\ m_peerinfo'[p] \in [m_total : Nat, m_completed : Nat, m_requested : Nat]
  <2>1. m_index[t][p].state \in State /\ row[p].state \in State
    BY <1>1 DEF TypeOK, Row, Announcement
  <2>2. m_peerinfo[p] = [m_total     |-> Count(p, State \ {"NOTHING"}),
                         m_completed |-> Count(p, {"COMPLETED"}),
                         m_requested |-> Count(p, {"REQUESTED"})]
    BY <1>1 DEF PeerInfoExact
  <2>3. m_peerinfo'[p] = Account(m_peerinfo[p], m_index[t][p], row[p])
    BY DEF SetRow
  <2>4. /\ Count(p, State \ {"NOTHING"})' \in Nat
        /\ Count(p, State \ {"NOTHING"})' = Count(p, State \ {"NOTHING"})
               - One(IsTracked(m_index[t][p])) + One(IsTracked(row[p]))
    <3>1. /\ m_index[t][p].state \in State \ {"NOTHING"} <=> IsTracked(m_index[t][p])
          /\ row[p].state \in State \ {"NOTHING"} <=> IsTracked(row[p])
      BY <2>1 DEF IsTracked
    <3> QED BY <1>4, <3>1 DEF One
  <2>5. /\ Count(p, {"COMPLETED"})' \in Nat
        /\ Count(p, {"COMPLETED"})' = Count(p, {"COMPLETED"})
               - One(m_index[t][p].state = "COMPLETED") + One(row[p].state = "COMPLETED")
    <3>1. /\ m_index[t][p].state \in {"COMPLETED"} <=> m_index[t][p].state = "COMPLETED"
          /\ row[p].state \in {"COMPLETED"} <=> row[p].state = "COMPLETED"
      OBVIOUS
    <3> QED BY <1>4, <3>1 DEF One
  <2>6. /\ Count(p, {"REQUESTED"})' \in Nat
        /\ Count(p, {"REQUESTED"})' = Count(p, {"REQUESTED"})
               - One(m_index[t][p].state = "REQUESTED") + One(row[p].state = "REQUESTED")
    <3>1. /\ m_index[t][p].state \in {"REQUESTED"} <=> m_index[t][p].state = "REQUESTED"
          /\ row[p].state \in {"REQUESTED"} <=> row[p].state = "REQUESTED"
      OBVIOUS
    <3> QED BY <1>4, <3>1 DEF One
  <2>7. QED
    BY <2>2, <2>3, <2>4, <2>5, <2>6 DEF Account
<1>6. TypeOK' /\ PeerInfoExact'
  <2>1. m_peerinfo' \in [Peer -> [m_total : Nat, m_completed : Nat, m_requested : Nat]]
    BY <1>5 DEF SetRow
  <2>2. PeerInfoExact'
    BY <1>5 DEF PeerInfoExact
  <2> QED BY <1>2, <1>3, <2>1, <2>2 DEF TypeOK
<1>7. SelectionExact'
  <2>1. \A u \in TxHash : RowOK(u, m_index'[u])
    BY <1>1, <1>2
  <2>2. QED
    BY <2>1 DEF SelectionExact, RowOK, IsSelected
<1>8. QED
  BY <1>6, <1>7 DEF SanityCheck
-----------------------------------------------------------------------------
\* The empty tracker.
LEMMA InitSane == Init => SanityCheck
<1> SUFFICES ASSUME Init PROVE SanityCheck
  OBVIOUS
<1>1. \A t \in TxHash : m_index[t] = NoRow /\ NoRow \in Row /\ RowOK(t, NoRow)
  BY NoRowOK DEF Init
<1>2. TypeOK
  <2>1. m_index \in [TxHash -> [Peer -> Announcement]]
    BY <1>1 DEF Init, Row
  <2>2. <<>> \in Seq(TxHash)
    OBVIOUS
  <2>3. QED
    BY <2>1, <2>2 DEF Init, TypeOK
<1>3. SelectionExact
  BY <1>1, SelectionByRow
<1>4. PeerInfoExact
  <2>1. ASSUME NEW p \in Peer, NEW S, "NOTHING" \notin S PROVE Count(p, S) = 0
    <3>1. {t \in TxHash : m_index[t][p].state \in S} = {}
      BY <1>1, <2>1 DEF NoRow, Nothing
    <3> QED BY <3>1, FS_EmptySet DEF Count
  <2>2. \A p \in Peer : /\ Count(p, State \ {"NOTHING"}) = 0
                        /\ Count(p, {"COMPLETED"}) = 0 /\ Count(p, {"REQUESTED"}) = 0
    BY <2>1
  <2>3. QED
    BY <2>2 DEF PeerInfoExact, Init
<1>5. QED
  BY <1>2, <1>3, <1>4 DEF SanityCheck

\* The facts about a row that the steps start from.
LEMMA RowFacts ==
    ASSUME SanityCheck, NEW t \in TxHash
    PROVE  m_index[t] \in Row /\ RowOK(t, m_index[t])
BY SelectionByRow DEF SanityCheck, TypeOK, Row

\* An operation that does not loop.
LEMMA AtomicInv ==
    ASSUME SanityCheck, NEW t \in TxHash, NEW row \in Row, RowOK(t, row), Atomic(t, row)
    PROVE  SanityCheck'
<1>1. SetRow(t, row) /\ call' \in Call \cup {Idle} /\ loop' \in {"first", "second"}
  BY DEF Atomic, SanityCheck, TypeOK
<1>2. result' \in Seq(TxHash)
  BY DEF Atomic
<1>3. QED
  BY <1>1, <1>2, SetRowInv

\* A step that leaves the index alone.
LEMMA IndexKeptInv ==
    ASSUME SanityCheck, UNCHANGED tracker, call' \in Call \cup {Idle}, result' \in Seq(TxHash),
           loop' \in {"first", "second"}
    PROVE  SanityCheck'
<1>1. m_index' = m_index /\ m_order' = m_order /\ m_peerinfo' = m_peerinfo
  BY DEF tracker
<1>2. TypeOK'
  BY <1>1 DEF SanityCheck, TypeOK
<1>3. PeerInfoExact'
  BY <1>1 DEF SanityCheck, PeerInfoExact, Count
<1>4. SelectionExact'
  BY <1>1 DEF SanityCheck, SelectionExact
<1>5. QED
  BY <1>2, <1>3, <1>4 DEF SanityCheck

\* Every step keeps SanityCheck.
LEMMA NextSane == SanityCheck /\ [Next]_vars => SanityCheck'
<1> SUFFICES ASSUME SanityCheck, [Next]_vars PROVE SanityCheck'
  OBVIOUS
<1>1. /\ call \in Call \cup {Idle} /\ result \in Seq(TxHash) /\ <<>> \in Seq(TxHash)
      /\ m_order \in [Peer -> Seq(TxHash)] /\ loop \in {"first", "second"}
  BY DEF SanityCheck, TypeOK
<1>2. ASSUME NEW p \in Peer, NEW t \in TxHash, NEW preferred \in Preference[p], NEW time \in Time,
             ReceivedInv(p, t, preferred, time)
      PROVE  SanityCheck'
  <2> DEFINE row == [m_index[t] EXCEPT ![p] = [state |-> "CANDIDATE_DELAYED", time |-> time,
                                               preferred |-> preferred]]
  <2>1. time \in Nat /\ preferred \in BOOLEAN
    BY TimeType, PreferenceType
  <2>2. ~IsTracked(m_index[t][p]) /\ Atomic(t, row)
    BY <1>2 DEF ReceivedInv
  <2>3. row \in Row /\ RowOK(t, row)
    BY <2>1, <2>2, RowFacts, AnnouncedRowOK
  <2> HIDE DEF row
  <2>4. QED
    BY <2>2, <2>3, AtomicInv
<1>3. ASSUME NEW p \in Peer, NEW t \in TxHash, NEW time \in Time, RequestedTx(p, t, time)
      PROVE  SanityCheck'
  <2>1. /\ m_index[t][p].state \in Candidate /\ time \in Nat
        /\ Atomic(t, RequestedRow(m_index[t], p, time))
    BY <1>3, TimeType DEF RequestedTx
  <2>2. /\ RequestedRow(m_index[t], p, time) \in Row
        /\ RowOK(t, RequestedRow(m_index[t], p, time))
    BY <2>1, RowFacts, RequestedRowOK
  <2>3. QED
    BY <2>1, <2>2, AtomicInv
<1>4. ASSUME NEW p \in Peer, NEW t \in TxHash, ReceivedResponse(p, t)
      PROVE  SanityCheck'
  <2>1. Atomic(t, MakeCompleted(t, m_index[t], p))
    BY <1>4 DEF ReceivedResponse
  <2>2. MakeCompleted(t, m_index[t], p) \in Row /\ RowOK(t, MakeCompleted(t, m_index[t], p))
    BY RowFacts, CompletedRowOK
  <2>3. QED
    BY <2>1, <2>2, AtomicInv
<1>5. ASSUME NEW t \in TxHash, ForgetTxHash(t)
      PROVE  SanityCheck'
  BY <1>5, NoRowOK, AtomicInv DEF ForgetTxHash
<1>6. ASSUME NEW p \in Peer, NEW now \in Nat, NEW op \in {"GetRequestable", "DisconnectedPeer"},
             Begin(op, p, now)
      PROVE  SanityCheck'
  <2>1. call' \in Call \cup {Idle}
    BY <1>6 DEF Begin, Call
  <2>2. UNCHANGED tracker /\ result' \in Seq(TxHash) /\ loop' \in {"first", "second"}
    BY <1>1, <1>6 DEF Begin, tracker
  <2>3. QED
    BY <2>1, <2>2, IndexKeptInv
<1>7. ASSUME NEW t \in TxHash, DisconnectStep(t)
      PROVE  SanityCheck'
  <2> DEFINE p == call.peer
             row == [MakeCompleted(t, m_index[t], p) EXCEPT ![p] = Nothing]
  <2>1. p \in Peer
    BY <1>1, <1>7 DEF DisconnectStep, InCall, Call
  <2>2. SetRow(t, row) /\ call' = call /\ loop' = loop /\ result' = result
    BY <1>7 DEF DisconnectStep
  <2>3. row \in Row /\ RowOK(t, row)
    BY <2>1, RowFacts, WipedRowOK
  <2> HIDE DEF row
  <2>4. QED
    BY <1>1, <2>2, <2>3, SetRowInv
<1>8. ASSUME NEW t \in TxHash, NEW p \in Peer, SetTimePointForward(t, p)
      PROVE  SanityCheck'
  <2>1. call' = call /\ loop' = loop /\ result' = result
    BY <1>8 DEF SetTimePointForward
  <2>2. CASE m_index[t][p].state = "CANDIDATE_DELAYED"
    <3>1. SetRow(t, PromoteCandidateReady(t, m_index[t], p))
      BY <1>8, <2>2 DEF SetTimePointForward
    <3>2. /\ PromoteCandidateReady(t, m_index[t], p) \in Row
          /\ RowOK(t, PromoteCandidateReady(t, m_index[t], p))
      BY <2>2, RowFacts, PromotedRowOK
    <3> QED BY <1>1, <2>1, <3>1, <3>2, SetRowInv
  <2>3. CASE m_index[t][p].state # "CANDIDATE_DELAYED"
    <3>1. SetRow(t, MakeCompleted(t, m_index[t], p))
      BY <1>8, <2>3 DEF SetTimePointForward
    <3>2. MakeCompleted(t, m_index[t], p) \in Row /\ RowOK(t, MakeCompleted(t, m_index[t], p))
      BY RowFacts, CompletedRowOK
    <3> QED BY <1>1, <2>1, <3>1, <3>2, SetRowInv
  <2>4. QED
    BY <2>2, <2>3
<1>9. ASSUME NEW t \in TxHash, NEW p \in Peer, SetTimePointBackward(t, p)
      PROVE  SanityCheck'
  <2>1. /\ SetRow(t, ChangeAndReselect(t, m_index[t], p, "CANDIDATE_DELAYED"))
        /\ call' = call /\ loop' = loop /\ result' = result
    BY <1>9 DEF SetTimePointBackward
  <2>2. /\ ChangeAndReselect(t, m_index[t], p, "CANDIDATE_DELAYED") \in Row
        /\ RowOK(t, ChangeAndReselect(t, m_index[t], p, "CANDIDATE_DELAYED"))
    BY RowFacts, ReselectedRowOK
  <2>3. QED
    BY <1>1, <2>1, <2>2, SetRowInv
<1>9a. CASE FirstLoopBreaks
  BY <1>1, <1>9a, IndexKeptInv DEF FirstLoopBreaks, tracker
<1>10. CASE Disconnected
  BY <1>1, <1>10, IndexKeptInv DEF Disconnected, tracker
<1>11. CASE ReturnRequestable
  <2>1. call \in Call
    BY <1>1, <1>11 DEF ReturnRequestable, InCall
  <2>2. Requestable(call.peer) \in Seq(TxHash)
    BY <1>1, <2>1, OnlyType DEF Requestable, Call
  <2>3. /\ UNCHANGED tracker /\ call' \in Call \cup {Idle} /\ result' \in Seq(TxHash)
        /\ loop' \in {"first", "second"}
    BY <1>11, <2>2 DEF ReturnRequestable
  <2>4. QED
    BY <2>3, IndexKeptInv
<1>12. CASE UNCHANGED vars
  BY <1>1, <1>12, IndexKeptInv DEF vars, tracker
<1>13. QED
  <2>1. 0 \in Nat /\ \A now \in Time : now \in Nat
    BY TimeType
  <2>2. QED
    BY <1>2, <1>3, <1>4, <1>5, <1>6, <1>7, <1>8, <1>9, <1>9a, <1>10, <1>11, <1>12, <2>1
       DEF Next, LoopStep

\* The tracker's own sanity check holds in every reachable state, loops included,
\* for any number of peers and transactions: its statistics are exact and each
\* transaction has at most one selected announcement, the best ready one.
THEOREM TrackerIsSane == Spec => []SanityCheck
BY InitSane, NextSane, PTL DEF Spec
-----------------------------------------------------------------------------
(***************************************************************************)
(* What the first loop of SetTimePoint has achieved is still so while the  *)
(* second one runs.                                                        *)
(***************************************************************************)
FirstLoopDone == loop = "second" => InCall("GetRequestable") /\ NothingDue

\* A ready announcement that is delayed again does not become due by it, and the
\* one that takes its place does not wait.
LEMMA DelayedNotDue ==
    ASSUME SanityCheck, NothingDue, call \in Call, NEW t \in TxHash, NEW p \in Peer,
           SetTimePointBackward(t, p)
    PROVE  NothingDue'
<1> DEFINE new == ChangeAndReselect(t, m_index[t], p, "CANDIDATE_DELAYED")
<1>1. /\ m_index \in [TxHash -> Row] /\ m_index[t] \in Row
      /\ m_index' = [m_index EXCEPT ![t] = new] /\ call' = call
      /\ m_index[t][p].time > call.now
  BY DEF SetTimePointBackward, EarlyReady, SetRow, SanityCheck, TypeOK, Row
<1>2. IsReselected(t, m_index[t], p, "CANDIDATE_DELAYED", new)
  BY <1>1, RowFacts, Reselected
<1>3. call.now \in Nat /\ \A q \in Peer : m_index[t][q].time \in Nat
  BY <1>1 DEF Row, Announcement, Call
<1> HIDE DEF new
<1>4. ASSUME NEW q \in Peer
      PROVE  ~(IsWaiting(new[q]) /\ new[q].time =< call.now)
  <2>1. CASE q = p
    BY <1>1, <1>2, <1>3, <2>1 DEF IsReselected, Row, Announcement
  <2>2. CASE q # p
    BY <1>1, <1>2, <2>2 DEF IsReselected, IsWaiting, NothingDue, Due, Row, Announcement
  <2>3. QED
    BY <2>1, <2>2
<1>5. ASSUME NEW u \in TxHash, NEW q \in Peer PROVE ~Due(u, q)'
  <2>1. CASE u = t
    <3>1. m_index'[u] = new
      BY <1>1, <2>1
    <3> QED BY <1>1, <1>4, <3>1 DEF Due
  <2>2. CASE u # t
    <3>1. m_index'[u] = m_index[u]
      BY <1>1, <2>2
    <3> QED BY <1>1, <3>1 DEF Due, NothingDue
  <2>3. QED
    BY <2>1, <2>2
<1>6. QED
  BY <1>5 DEF NothingDue

\* Nothing is due once the first loop has been left.
LEMMA NextLoop == SanityCheck /\ FirstLoopDone /\ [Next]_vars => FirstLoopDone'
<1> SUFFICES ASSUME SanityCheck, FirstLoopDone, [Next]_vars, loop' = "second"
             PROVE  InCall("GetRequestable")' /\ NothingDue'
  BY DEF FirstLoopDone
<1>1. call \in Call \cup {Idle}
  BY DEF SanityCheck, TypeOK
<1>2. loop = "second" => call # Idle /\ call.op = "GetRequestable" /\ NothingDue
  BY DEF FirstLoopDone, InCall
<1>3. CASE \E p \in Peer, t \in TxHash :
              \/ \E preferred \in Preference[p], time \in Time : ReceivedInv(p, t, preferred, time)
              \/ \E time \in Time : RequestedTx(p, t, time)
              \/ ReceivedResponse(p, t)
  BY <1>2, <1>3 DEF ReceivedInv, RequestedTx, ReceivedResponse, Atomic
<1>4. CASE \E t \in TxHash : ForgetTxHash(t)
  BY <1>2, <1>4 DEF ForgetTxHash, Atomic
<1>5. CASE \E p \in Peer, now \in Time : Begin("GetRequestable", p, now)
  BY <1>2, <1>5 DEF Begin
<1>6. CASE \E p \in Peer : Begin("DisconnectedPeer", p, 0)
  BY <1>2, <1>6 DEF Begin
<1>7. CASE \E t \in TxHash : DisconnectStep(t)
  BY <1>2, <1>7 DEF DisconnectStep, InCall
<1>8. CASE FirstLoopBreaks
  BY <1>8 DEF FirstLoopBreaks, InCall, NothingDue, Due
<1>9. CASE \E t \in TxHash, p \in Peer : SetTimePointForward(t, p)
  BY <1>9 DEF SetTimePointForward
<1>10. ASSUME NEW t \in TxHash, NEW p \in Peer, SetTimePointBackward(t, p)
       PROVE  InCall("GetRequestable")' /\ NothingDue'
  <2>1. call' = call /\ loop = "second" /\ call # Idle
    BY <1>10 DEF SetTimePointBackward, InCall
  <2>2. QED
    BY <1>1, <1>2, <1>10, <2>1, DelayedNotDue DEF InCall
<1>11. CASE Disconnected
  BY <1>2, <1>11 DEF Disconnected, InCall
<1>12. CASE ReturnRequestable
  BY <1>12 DEF ReturnRequestable
<1>13. CASE UNCHANGED vars
  BY <1>2, <1>13 DEF vars, InCall, NothingDue, Due
<1>14. QED
  BY <1>3, <1>4, <1>5, <1>6, <1>7, <1>8, <1>9, <1>10, <1>11, <1>12, <1>13 DEF Next, LoopStep

\* The invariant of the two loops.
LEMMA LoopInvariant == Spec => []FirstLoopDone
<1>1. Init => FirstLoopDone
  BY DEF Init, FirstLoopDone
<1>2. QED
  BY <1>1, TrackerIsSane, NextLoop, PTL DEF Spec

\* A GetRequestable returns only when the time is set.
LEMMA ReturnTimeSet ==
    ASSUME SanityCheck, FirstLoopDone, [Next]_vars, InCall("GetRequestable"), call' = Idle
    PROVE  TimeSet
<1>1. call \in Call /\ call # Idle /\ call.op = "GetRequestable"
  BY DEF SanityCheck, TypeOK, InCall
<1>2. ReturnRequestable
  BY <1>1 DEF Next, LoopStep, ReceivedInv, RequestedTx, ReceivedResponse, ForgetTxHash, Atomic,
              Begin, DisconnectStep, FirstLoopBreaks, SetTimePointForward, SetTimePointBackward,
              Disconnected, InCall, vars
<1>3. NothingDue /\ \A t \in TxHash, p \in Peer : ~EarlyReady(t, p)
  BY <1>2 DEF ReturnRequestable, FirstLoopDone
<1>4. call.now \in Nat /\ \A t \in TxHash, p \in Peer : m_index[t][p].time \in Nat
  BY <1>1 DEF SanityCheck, TypeOK, Announcement, Call
<1>5. QED
  BY <1>3, <1>4 DEF TimeSet, NothingDue, Due, EarlyReady

\* GetRequestable leaves the index as its time demands, for any number of peers
\* and transactions and also when the clock has gone back: the assert of
\* PostGetRequestableSanityCheck never fails.
THEOREM TimeIsSet == Spec => PostGetRequestableSanityCheck
<1>1. SanityCheck /\ FirstLoopDone /\ [Next]_vars
        => [InCall("GetRequestable") /\ call' = Idle => TimeSet]_vars
  BY ReturnTimeSet
<1>2. QED
  BY <1>1, TrackerIsSane, LoopInvariant, PTL DEF Spec, PostGetRequestableSanityCheck
-----------------------------------------------------------------------------
(***************************************************************************)
(* The refinement.  BookRow is the mapping for one transaction.  A step    *)
(* that gives t the row `row' is a step of the abstract tracker that gives *)
(* it a row whose Cleanup is BookRow(row); a promotion or a delay changes  *)
(* nothing that the abstract tracker sees.                                 *)
(***************************************************************************)
BookState(s) == IF s \in Candidate THEN "CANDIDATE" ELSE s
BookRow(row) == [p \in Peer |-> [state |-> BookState(row[p].state), time |-> row[p].time,
                                 preferred |-> row[p].preferred]]

\* Book is made of the rows' images.
LEMMA BookByRow ==
    ASSUME NEW index \in [TxHash -> Row]
    PROVE  [t \in TxHash |-> [p \in Peer |->
               LET a == index[t][p]
               IN  [a EXCEPT !.state = IF @ \in Candidate THEN "CANDIDATE" ELSE @]]] =
           [t \in TxHash |-> BookRow(index[t])]
<1>1. ASSUME NEW t \in TxHash, NEW p \in Peer
      PROVE  [index[t][p] EXCEPT !.state = IF @ \in Candidate THEN "CANDIDATE" ELSE @] =
             [state |-> BookState(index[t][p].state), time |-> index[t][p].time,
              preferred |-> index[t][p].preferred]
  <2>1. index[t][p] \in Announcement
    BY DEF Row
  <2> QED BY <2>1 DEF Announcement, BookState
<1>2. QED
  BY <1>1 DEF BookRow

\* The abstract state is NOTHING exactly for what is not tracked.
LEMMA BookNothing ==
    ASSUME NEW row \in Row, NEW p \in Peer
    PROVE  BookRow(row)[p].state = "NOTHING" <=> ~IsTracked(row[p])
BY DEF BookRow, BookState, IsTracked, Candidate

\* The abstract row that a step has to show for SetRow.
LEMMA SetRowRefines ==
    ASSUME TypeOK, NEW t \in TxHash, NEW row \in Row, SetRow(t, row),
           NEW arow, A!Cleanup(arow) = BookRow(row)
    PROVE  A!SetRow(t, arow)
<1>1. /\ m_index \in [TxHash -> Row] /\ m_index' \in [TxHash -> Row]
      /\ m_index' = [m_index EXCEPT ![t] = row]
  BY DEF TypeOK, SetRow, Row
<1>2. Book = [u \in TxHash |-> BookRow(m_index[u])]
  BY <1>1, BookByRow DEF Book
<1>3. Book' = [u \in TxHash |-> BookRow(m_index'[u])]
  BY <1>1, BookByRow DEF Book
<1>4. Book' = [Book EXCEPT ![t] = A!Cleanup(arow)]
  BY <1>1, <1>2, <1>3
<1>5. m_order' = [p \in Peer |->
                   IF (A!Cleanup(arow)[p].state = "NOTHING") = (Book[t][p].state = "NOTHING")
                     THEN m_order[p]
                     ELSE IF Book[t][p].state = "NOTHING"
                            THEN Append(m_order[p], t)
                            ELSE Only(m_order[p], TxHash \ {t})]
  <2>1. \A p \in Peer : /\ A!Cleanup(arow)[p].state = "NOTHING" <=> ~IsTracked(row[p])
                        /\ Book[t][p].state = "NOTHING" <=> ~IsTracked(m_index[t][p])
    BY <1>1, <1>2, BookNothing
  <2>2. ASSUME NEW p \in Peer
        PROVE  m_order'[p] =
                   IF (A!Cleanup(arow)[p].state = "NOTHING") = (Book[t][p].state = "NOTHING")
                     THEN m_order[p]
                     ELSE IF Book[t][p].state = "NOTHING"
                            THEN Append(m_order[p], t)
                            ELSE Only(m_order[p], TxHash \ {t})
    <3>1. m_order'[p] = IF IsTracked(row[p]) = IsTracked(m_index[t][p])
                          THEN m_order[p]
                          ELSE IF IsTracked(row[p]) THEN Append(m_order[p], t)
                                                    ELSE Only(m_order[p], TxHash \ {t})
      BY DEF SetRow
    <3>2. IsTracked(row[p]) \in BOOLEAN /\ IsTracked(m_index[t][p]) \in BOOLEAN
      BY DEF IsTracked
    <3>3. CASE IsTracked(row[p]) /\ IsTracked(m_index[t][p])
      BY <2>1, <3>1, <3>3, Zenon
    <3>4. CASE IsTracked(row[p]) /\ ~IsTracked(m_index[t][p])
      BY <2>1, <3>1, <3>4, Zenon
    <3>5. CASE ~IsTracked(row[p]) /\ IsTracked(m_index[t][p])
      BY <2>1, <3>1, <3>5, Zenon
    <3>6. CASE ~IsTracked(row[p]) /\ ~IsTracked(m_index[t][p])
      <4>1. IsTracked(row[p]) = IsTracked(m_index[t][p])
        BY <3>2, <3>6
      <4>2. A!Cleanup(arow)[p].state = "NOTHING" /\ Book[t][p].state = "NOTHING"
        BY <2>1, <3>6
      <4> QED BY <3>1, <4>1, <4>2
    <3>7. QED
      BY <3>3, <3>4, <3>5, <3>6
  <2>3. QED
    BY <2>2 DEF SetRow
<1>6. QED
  BY <1>4, <1>5 DEF A!SetRow, A!Only, Only

\* An abstract row with an announcement that may still deliver is not cleaned up.
LEMMA CleanupKeeps ==
    ASSUME NEW arow, NEW p \in Peer, arow[p].state \notin {"NOTHING", "COMPLETED"}
    PROVE  A!Cleanup(arow) = arow
BY DEF A!Cleanup

\* One without is.
LEMMA CleanupErases ==
    ASSUME NEW arow, \A p \in Peer : arow[p].state \in {"NOTHING", "COMPLETED"}
    PROVE  A!Cleanup(arow) = BookRow(NoRow)
<1>1. A!Cleanup(arow) = [p \in Peer |-> A!Nothing]
  BY DEF A!Cleanup
<1>2. [p \in Peer |-> A!Nothing] = BookRow(NoRow)
  BY DEF A!Nothing, BookRow, NoRow, Nothing, BookState, Candidate
<1>3. QED
  BY <1>1, <1>2

\* MakeCompleted is the abstract completion.
LEMMA CompletedRefines ==
    ASSUME NEW t \in TxHash, NEW row \in Row, RowOK(t, row), NEW p \in Peer, IsTracked(row[p])
    PROVE  A!Cleanup([BookRow(row) EXCEPT ![p].state = "COMPLETED"]) =
           BookRow(MakeCompleted(t, row, p))
<1> DEFINE arow == [BookRow(row) EXCEPT ![p].state = "COMPLETED"]
           new == MakeCompleted(t, row, p)
<1>1. \A q \in Peer : row[q] \in Announcement
  BY DEF Row
<1>2. arow = [q \in Peer |-> [state |-> IF q = p THEN "COMPLETED" ELSE BookState(row[q].state),
                              time |-> row[q].time, preferred |-> row[q].preferred]]
  <2>1. arow = [q \in Peer |-> IF q = p THEN [BookRow(row)[q] EXCEPT !.state = "COMPLETED"]
                                       ELSE BookRow(row)[q]]
    BY DEF BookRow
  <2>2. \A q \in Peer : BookRow(row)[q] = [state |-> BookState(row[q].state), time |-> row[q].time,
                                           preferred |-> row[q].preferred]
    BY DEF BookRow
  <2> HIDE DEF arow
  <2>3. ASSUME NEW q \in Peer
        PROVE  arow[q] = [state |-> IF q = p THEN "COMPLETED" ELSE BookState(row[q].state),
                          time |-> row[q].time, preferred |-> row[q].preferred]
    <3>1. CASE q = p
      <4> DEFINE b == BookRow(row)[q]
      <4>1. arow[q] = [b EXCEPT !.state = "COMPLETED"]
        BY <2>1, <3>1
      <4>2. b = [state |-> BookState(row[q].state), time |-> row[q].time,
                 preferred |-> row[q].preferred]
        BY <2>2
      <4> HIDE DEF b
      <4>3. arow[q] = [state |-> "COMPLETED", time |-> row[q].time, preferred |-> row[q].preferred]
        BY <4>1, <4>2
      <4> QED BY <3>1, <4>3
    <3>2. CASE q # p
      <4>1. arow[q] = BookRow(row)[q]
        BY <2>1, <3>2
      <4> QED BY <2>2, <3>2, <4>1
    <3> QED BY <3>1, <3>2
  <2>4. QED
    BY <2>1, <2>3
<1> HIDE DEF arow
<1>3. CASE row[p].state = "COMPLETED"
  <2>1. new = row
    BY <1>3 DEF MakeCompleted
  <2>2. PICK q \in Peer : row[q].state \in Candidate \cup {"REQUESTED"}
    BY <1>3 DEF RowOK
  <2>3. q # p
    BY <1>3, <2>2 DEF Candidate
  <2>4. arow[q].state \notin {"NOTHING", "COMPLETED"}
    BY <1>2, <2>2, <2>3 DEF BookState, Candidate
  <2>5. A!Cleanup(arow) = arow
    BY <2>4, CleanupKeeps
  <2>6. arow = BookRow(row)
    BY <1>2, <1>3 DEF BookRow, BookState, Candidate
  <2>7. QED
    BY <2>1, <2>5, <2>6 DEF arow
<1>4. CASE row[p].state # "COMPLETED" /\ IsOnlyNonCompleted(row, p)
  <2>1. new = NoRow
    BY <1>4 DEF MakeCompleted
  <2>2. \A q \in Peer : arow[q].state \in {"NOTHING", "COMPLETED"}
    BY <1>2, <1>4 DEF IsOnlyNonCompleted, BookState, Candidate
  <2>3. A!Cleanup(arow) = BookRow(NoRow)
    BY <2>2, CleanupErases
  <2>4. QED
    BY <2>1, <2>3 DEF arow
<1>5. CASE row[p].state # "COMPLETED" /\ ~IsOnlyNonCompleted(row, p)
  <2>1. new = ChangeAndReselect(t, row, p, "COMPLETED")
    BY <1>5 DEF MakeCompleted
  <2>2. IsReselected(t, row, p, "COMPLETED", new)
    BY <2>1, Reselected
  <2> HIDE DEF new
  <2>3. BookRow(new) = arow
    <3>1. ASSUME NEW q \in Peer
          PROVE  /\ BookState(new[q].state) = IF q = p THEN "COMPLETED" ELSE BookState(row[q].state)
                 /\ new[q].time = row[q].time /\ new[q].preferred = row[q].preferred
      <4>1. CASE q = p
        <5>1. new[p] = [row[p] EXCEPT !.state = "COMPLETED"]
          BY <2>2 DEF IsReselected
        <5> QED BY <1>1, <4>1, <5>1 DEF Announcement, BookState, Candidate
      <4>2. CASE q # p
        <5>1. \/ new[q] = row[q]
              \/ q \in Ready(row) /\ new[q] = [row[q] EXCEPT !.state = "CANDIDATE_BEST"]
          BY <2>2, <4>2 DEF IsReselected, Ready
        <5>2. CASE new[q] = row[q]
          BY <4>2, <5>2
        <5>3. CASE q \in Ready(row) /\ new[q] = [row[q] EXCEPT !.state = "CANDIDATE_BEST"]
          BY <1>1, <4>2, <5>3 DEF Announcement, Ready, BookState, Candidate
        <5> QED BY <5>1, <5>2, <5>3
      <4> QED BY <4>1, <4>2
    <3> QED BY <1>2, <3>1 DEF BookRow
  <2>4. PICK q \in Peer \ {p} : row[q].state \notin {"COMPLETED", "NOTHING"}
    BY <1>5 DEF IsOnlyNonCompleted
  <2>5. arow[q].state \notin {"NOTHING", "COMPLETED"}
    BY <1>2, <2>4 DEF BookState
  <2>6. A!Cleanup(arow) = arow
    BY <2>5, CleanupKeeps
  <2>7. QED
    BY <2>3, <2>6 DEF arow, new
<1>6. QED
  BY <1>3, <1>4, <1>5

\* Completing and erasing is the abstract erasure.
LEMMA WipedRefines ==
    ASSUME NEW t \in TxHash, NEW row \in Row, RowOK(t, row), NEW p \in Peer, IsTracked(row[p]),
           NEW new, new = [MakeCompleted(t, row, p) EXCEPT ![p] = Nothing]
    PROVE  A!Cleanup([BookRow(row) EXCEPT ![p] = A!Nothing]) = BookRow(new)
<1> DEFINE mid == MakeCompleted(t, row, p)
           amid == [BookRow(row) EXCEPT ![p].state = "COMPLETED"]
           arow == [BookRow(row) EXCEPT ![p] = A!Nothing]
<1>1. A!Cleanup(amid) = BookRow(mid)
  BY CompletedRefines
<1>2. mid \in Row
  BY CompletedRowOK
<1>3. /\ \A q \in Peer \ {p} : amid[q] = arow[q]
      /\ amid[p].state = "COMPLETED" /\ arow[p] = A!Nothing /\ arow[p].state = "NOTHING"
      /\ arow = [amid EXCEPT ![p] = A!Nothing]
  BY DEF BookRow, A!Nothing
<1>4. BookRow(new) = [BookRow(mid) EXCEPT ![p] = A!Nothing]
  <2> HIDE DEF mid
  <2>1. new = [mid EXCEPT ![p] = Nothing]
    BY DEF mid
  <2>2. \A q \in Peer : new[q] = IF q = p THEN Nothing ELSE mid[q]
    BY <1>2, <2>1 DEF Row
  <2>3. [state |-> BookState(Nothing.state), time |-> Nothing.time,
         preferred |-> Nothing.preferred] = A!Nothing
    BY DEF Nothing, A!Nothing, BookState, Candidate
  <2>4. QED
    BY <2>2, <2>3 DEF BookRow
<1> HIDE DEF mid, amid, arow
<1>5. CASE \A q \in Peer : amid[q].state \in {"NOTHING", "COMPLETED"}
  <2>1. A!Cleanup(amid) = BookRow(NoRow)
    BY <1>5, CleanupErases
  <2>2. \A q \in Peer : arow[q].state \in {"NOTHING", "COMPLETED"}
    BY <1>3, <1>5
  <2>3. A!Cleanup(arow) = BookRow(NoRow)
    BY <2>2, CleanupErases
  <2>4. [BookRow(NoRow) EXCEPT ![p] = A!Nothing] = BookRow(NoRow)
    BY DEF BookRow, NoRow, Nothing, A!Nothing, BookState, Candidate
  <2>5. QED
    BY <1>1, <1>4, <2>1, <2>3, <2>4 DEF arow
<1>6. CASE ~\A q \in Peer : amid[q].state \in {"NOTHING", "COMPLETED"}
  <2>1. PICK q \in Peer : amid[q].state \notin {"NOTHING", "COMPLETED"}
    BY <1>6
  <2>2. A!Cleanup(amid) = amid
    BY <2>1, CleanupKeeps
  <2>3. arow[q].state \notin {"NOTHING", "COMPLETED"}
    BY <1>3, <2>1
  <2>4. A!Cleanup(arow) = arow
    BY <2>3, CleanupKeeps
  <2>5. QED
    BY <1>1, <1>3, <1>4, <2>2, <2>4 DEF arow
<1>7. QED
  BY <1>5, <1>6

\* RequestedTx is the abstract request: a selected announcement that makes way
\* becomes COMPLETED if it was REQUESTED and stays a candidate otherwise.
LEMMA RequestedRefines ==
    ASSUME NEW t \in TxHash, NEW row \in Row, RowOK(t, row), NEW p \in Peer, NEW expiry \in Nat,
           NEW arow,
           arow = [q \in Peer |->
                     IF q = p THEN [BookRow(row)[p] EXCEPT !.state = "REQUESTED", !.time = expiry]
                     ELSE IF BookRow(row)[q].state = "REQUESTED"
                            THEN [BookRow(row)[q] EXCEPT !.state = "COMPLETED"]
                            ELSE BookRow(row)[q]]
    PROVE  A!Cleanup(arow) = BookRow(RequestedRow(row, p, expiry))
<1> DEFINE new == RequestedRow(row, p, expiry)
           best == {q \in Peer : row[q].state = "CANDIDATE_BEST"}
<1>1. \A q \in Peer : row[q] \in Announcement
  BY DEF Row
<1>2. \A q \in Peer : /\ BookRow(row)[q].state = "REQUESTED" <=> row[q].state = "REQUESTED"
                      /\ BookRow(row)[q] = [state |-> BookState(row[q].state), time |-> row[q].time,
                                            preferred |-> row[q].preferred]
  BY DEF BookRow, BookState, Candidate
<1>3. arow[p] = [state |-> "REQUESTED", time |-> expiry, preferred |-> row[p].preferred]
  <2> DEFINE b == BookRow(row)[p]
  <2>1. arow[p] = [b EXCEPT !.state = "REQUESTED", !.time = expiry]
    OBVIOUS
  <2>2. b = [state |-> BookState(row[p].state), time |-> row[p].time,
             preferred |-> row[p].preferred]
    BY <1>2
  <2> HIDE DEF b
  <2>3. QED
    BY <2>1, <2>2
<1>4. ASSUME NEW q \in Peer
      PROVE  BookRow(new)[q] = arow[q]
  <2>0. BookRow(new)[q] = [state |-> BookState(new[q].state), time |-> new[q].time,
                           preferred |-> new[q].preferred]
    BY DEF BookRow
  <2>1. CASE q = p
    <3>1. new[q] = [row[q] EXCEPT !.state = "REQUESTED", !.time = expiry]
      BY <2>1 DEF RequestedRow
    <3>2. /\ new[q].state = "REQUESTED" /\ new[q].time = expiry
          /\ new[q].preferred = row[q].preferred
      BY <1>1, <3>1 DEF Announcement
    <3>3. BookState("REQUESTED") = "REQUESTED"
      BY DEF BookState, Candidate
    <3> QED BY <1>3, <2>0, <2>1, <3>2, <3>3
  <2>2. CASE q # p /\ row[q].state = "CANDIDATE_BEST"
    <3>1. new[q] = [row[q] EXCEPT !.state = "CANDIDATE_READY"]
      BY <2>2 DEF RequestedRow
    <3> QED BY <1>1, <1>2, <2>0, <2>2, <3>1 DEF Announcement, BookState, Candidate
  <2>3. CASE q # p /\ row[q].state = "REQUESTED"
    <3>1. best = {}
      BY <2>3 DEF RowOK, IsSelected
    <3>2. new[q] = [row[q] EXCEPT !.state = "COMPLETED"]
      BY <2>3, <3>1 DEF RequestedRow
    <3> QED BY <1>1, <1>2, <2>0, <2>3, <3>2 DEF Announcement, BookState, Candidate
  <2>4. CASE q # p /\ row[q].state \notin {"CANDIDATE_BEST", "REQUESTED"}
    <3>1. new[q] = row[q]
      BY <2>4 DEF RequestedRow
    <3> QED BY <1>2, <2>0, <2>4, <3>1
  <2>5. QED
    BY <2>1, <2>2, <2>3, <2>4
<1>5. BookRow(new) = arow
  <2> HIDE DEF new
  <2> QED BY <1>4 DEF BookRow
<1>6. A!Cleanup(arow) = arow
  <2>1. arow[p].state = "REQUESTED"
    BY <1>3
  <2> QED BY <2>1, CleanupKeeps
<1>7. QED
  BY <1>5, <1>6
-----------------------------------------------------------------------------
\* A row that differs only in which candidates are delayed, ready or best is
\* the same to the abstract tracker.
LEMMA SameBook ==
    ASSUME TypeOK, NEW t \in TxHash, NEW row \in Row, SetRow(t, row),
           BookRow(row) = BookRow(m_index[t])
    PROVE  Book' = Book /\ m_order' = m_order
<1>1. /\ m_index \in [TxHash -> Row] /\ m_index' \in [TxHash -> Row]
      /\ m_index' = [m_index EXCEPT ![t] = row]
  BY DEF TypeOK, SetRow, Row
<1>2. Book = [u \in TxHash |-> BookRow(m_index[u])]
  BY <1>1, BookByRow DEF Book
<1>3. Book' = [u \in TxHash |-> BookRow(m_index'[u])]
  BY <1>1, BookByRow DEF Book
<1>4. Book' = Book
  BY <1>1, <1>2, <1>3
<1>5. \A p \in Peer : IsTracked(row[p]) <=> IsTracked(m_index[t][p])
  BY <1>1, BookNothing
<1>6. \A p \in Peer : IsTracked(row[p]) = IsTracked(m_index[t][p])
  BY <1>5 DEF IsTracked
<1>7. m_order' = [p \in Peer |-> m_order[p]]
  BY <1>6 DEF SetRow
<1>8. m_order' = m_order
  BY <1>7 DEF TypeOK
<1>9. QED
  BY <1>4, <1>8

\* A promotion is such a step.
LEMMA PromotedSameBook ==
    ASSUME NEW t \in TxHash, NEW row \in Row, NEW p \in Peer, row[p].state = "CANDIDATE_DELAYED"
    PROVE  BookRow(PromoteCandidateReady(t, row, p)) = BookRow(row)
<1> DEFINE new == PromoteCandidateReady(t, row, p)
<1>1. \A q \in Peer : row[q] \in Announcement
  BY DEF Row
<1>2. ASSUME NEW q \in Peer
      PROVE  \/ new[q] = row[q]
             \/ /\ row[q].state \in Candidate
                /\ \E s \in Candidate : new[q] = [row[q] EXCEPT !.state = s]
  BY DEF PromoteCandidateReady, Candidate
<1> HIDE DEF new
<1>3. \A q \in Peer : /\ BookState(new[q].state) = BookState(row[q].state)
                      /\ new[q].time = row[q].time /\ new[q].preferred = row[q].preferred
  BY <1>1, <1>2 DEF Announcement, BookState
<1>4. BookRow(new) = BookRow(row)
  BY <1>3 DEF BookRow
<1>5. QED
  BY <1>4 DEF new

\* And so is the delay of a ready candidate when the clock has gone back.
LEMMA DelayedSameBook ==
    ASSUME NEW t \in TxHash, NEW row \in Row, RowOK(t, row), NEW p \in Peer, IsSelectable(row[p])
    PROVE  BookRow(ChangeAndReselect(t, row, p, "CANDIDATE_DELAYED")) = BookRow(row)
<1> DEFINE new == ChangeAndReselect(t, row, p, "CANDIDATE_DELAYED")
<1>1. \A q \in Peer : row[q] \in Announcement
  BY DEF Row
<1>2. IsReselected(t, row, p, "CANDIDATE_DELAYED", new)
  BY Reselected
<1> HIDE DEF new
<1>3. ASSUME NEW q \in Peer
      PROVE  \/ new[q] = row[q]
             \/ /\ row[q].state \in Candidate
                /\ \E s \in Candidate : new[q] = [row[q] EXCEPT !.state = s]
  <2>1. CASE q = p
    BY <1>2, <2>1 DEF IsReselected, IsSelectable, Candidate
  <2>2. CASE q # p
    BY <1>2, <2>2 DEF IsReselected, Ready, Candidate
  <2>3. QED
    BY <2>1, <2>2
<1>4. \A q \in Peer : /\ BookState(new[q].state) = BookState(row[q].state)
                      /\ new[q].time = row[q].time /\ new[q].preferred = row[q].preferred
  BY <1>1, <1>3 DEF Announcement, BookState
<1>5. BookRow(new) = BookRow(row)
  BY <1>4 DEF BookRow
<1>6. QED
  BY <1>5 DEF new

\* When GetRequestable has set the time, the CANDIDATE_BEST announcements are
\* exactly those the abstract tracker selects from scratch.
LEMMA SelectedIsBest ==
    ASSUME SanityCheck, call \in Call, NothingDue,
           \A t \in TxHash, q \in Peer : ~EarlyReady(t, q),
           NEW t \in TxHash, NEW p \in Peer
    PROVE  A!Selected(t, p, call.now) <=> m_index[t][p].state = "CANDIDATE_BEST"
<1> DEFINE row == m_index[t]
           prio(q) == Priority(t, q, row[q])
           now == call.now
           viable == {q \in Peer : Book[t][q].state = "CANDIDATE" /\ Book[t][q].time =< now}
<1>1. row \in Row /\ RowOK(t, row) /\ \A q \in Peer : row[q] \in Announcement
  BY RowFacts DEF Row
<1>2. \A q \in Peer : /\ Book[t][q].state = BookState(row[q].state)
                      /\ Book[t][q].time = row[q].time /\ Book[t][q].preferred = row[q].preferred
  <2>1. m_index \in [TxHash -> Row]
    BY DEF SanityCheck, TypeOK, Row
  <2>2. Book = [u \in TxHash |-> BookRow(m_index[u])]
    BY <2>1, BookByRow DEF Book
  <2>3. QED
    BY <2>2 DEF BookRow
<1>3. \A q \in Peer : /\ row[q].time \in Nat /\ now \in Nat /\ prio(q) \in Nat
                      /\ q # p => prio(q) # prio(p)
  BY <1>1, PriorityType, PriorityDistinct DEF Announcement, Call
<1>4. \A q \in Peer : A!Priority(t, q, Book[t][q].preferred) = prio(q)
  BY <1>2 DEF A!Priority, Priority
<1>5. \A q \in Peer : q \in viable <=> row[q].state \in {"CANDIDATE_READY", "CANDIDATE_BEST"}
  <2>1. ASSUME NEW q \in Peer
        PROVE  q \in viable <=> row[q].state \in {"CANDIDATE_READY", "CANDIDATE_BEST"}
    <3>1. /\ row[q].state = "CANDIDATE_DELAYED" => ~(row[q].time =< now)
          /\ row[q].state \in {"CANDIDATE_READY", "CANDIDATE_BEST"} => ~(row[q].time > now)
      BY DEF NothingDue, Due, EarlyReady, IsWaiting, IsSelectable
    <3>2. Book[t][q].state = "CANDIDATE" <=> row[q].state \in Candidate
      BY <1>1, <1>2 DEF BookState, Announcement, State, Candidate
    <3>3. QED
      BY <1>2, <1>3, <3>1, <3>2 DEF Candidate
  <2>2. QED
    BY <2>1
<1>6. \A q \in Peer : Book[t][q].state # "REQUESTED" <=> row[q].state # "REQUESTED"
  BY <1>2 DEF BookState, Candidate
<1>7. A!Selected(t, p, now) <=> /\ p \in viable
                                /\ \A q \in viable \ {p} : prio(p) > prio(q)
                                /\ \A q \in Peer : Book[t][q].state # "REQUESTED"
  BY <1>4 DEF A!Selected
<1> HIDE DEF prio, viable
<1>8. ASSUME row[p].state = "CANDIDATE_BEST"
      PROVE  A!Selected(t, p, now)
  <2>1. \A q \in Peer : row[q].state # "REQUESTED" /\ (row[q].state = "CANDIDATE_BEST" => q = p)
    BY <1>1, <1>8 DEF RowOK, IsSelected
  <2>2. ASSUME NEW q \in viable \ {p} PROVE prio(p) > prio(q)
    <3>1. q \in Peer /\ row[q].state = "CANDIDATE_READY"
      BY <1>5, <2>1 DEF viable
    <3>2. prio(p) >= prio(q)
      BY <1>1, <1>8, <3>1 DEF RowOK, prio
    <3> QED BY <1>3, <3>1, <3>2
  <2>3. QED
    BY <1>5, <1>6, <1>7, <1>8, <2>1, <2>2
<1>9. ASSUME A!Selected(t, p, now)
      PROVE  row[p].state = "CANDIDATE_BEST"
  <2>1. SUFFICES ASSUME row[p].state = "CANDIDATE_READY" PROVE FALSE
    BY <1>5, <1>7, <1>9
  <2>2. PICK b \in Peer : IsSelected(row[b])
    BY <1>1, <2>1 DEF RowOK
  <2>3. row[b].state = "CANDIDATE_BEST"
    BY <1>6, <1>7, <1>9, <2>2 DEF IsSelected
  <2>4. b \in viable \ {p}
    BY <1>5, <2>1, <2>3
  <2>5. prio(b) >= prio(p)
    BY <1>1, <2>1, <2>3 DEF RowOK, prio
  <2>6. QED
    BY <1>3, <1>7, <1>9, <2>4, <2>5
<1>10. QED
  BY <1>8, <1>9
-----------------------------------------------------------------------------
\* The empty tracker is the empty abstract tracker.
LEMMA InitRefines == Init => A!Init
<1> SUFFICES ASSUME Init PROVE A!Init
  OBVIOUS
<1>1. Book = [t \in TxHash |-> [p \in Peer |-> A!Nothing]]
  BY DEF Init, Book, NoRow, Nothing, A!Nothing, Candidate
<1>2. QED
  BY <1>1 DEF Init, A!Init

\* Every step is a step of the abstract tracker or invisible to it.
LEMMA NextRefines == SanityCheck /\ FirstLoopDone /\ [Next]_vars => [A!Next]_A!vars
<1> SUFFICES ASSUME SanityCheck, FirstLoopDone, [Next]_vars PROVE [A!Next]_A!vars
  OBVIOUS
<1>1. /\ TypeOK /\ m_index \in [TxHash -> Row]
      /\ \A t \in TxHash : m_index[t] \in Row /\ RowOK(t, m_index[t])
  BY RowFacts DEF SanityCheck, TypeOK, Row
<1>2. \A t \in TxHash : Book[t] = BookRow(m_index[t])
  <2>1. Book = [u \in TxHash |-> BookRow(m_index[u])]
    BY <1>1, BookByRow DEF Book
  <2> QED BY <2>1
<1>2a. \A t \in TxHash, p \in Peer :
          /\ Book[t][p] = [state |-> BookState(m_index[t][p].state), time |-> m_index[t][p].time,
                           preferred |-> m_index[t][p].preferred]
          /\ Book[t][p].state = BookState(m_index[t][p].state)
          /\ Book[t][p].time = m_index[t][p].time
  <2>1. ASSUME NEW t \in TxHash, NEW p \in Peer
        PROVE  Book[t][p] = [state |-> BookState(m_index[t][p].state), time |-> m_index[t][p].time,
                             preferred |-> m_index[t][p].preferred]
    <3>1. Book[t] = BookRow(m_index[t])
      BY <1>2
    <3> QED BY <3>1 DEF BookRow
  <2> QED BY <2>1
<1>3. ASSUME NEW p \in Peer, NEW t \in TxHash, NEW preferred \in Preference[p], NEW time \in Time,
             ReceivedInv(p, t, preferred, time)
      PROVE  A!Next
  <2> DEFINE row == [m_index[t] EXCEPT ![p] = [state |-> "CANDIDATE_DELAYED", time |-> time,
                                               preferred |-> preferred]]
             arow == [Book[t] EXCEPT ![p] = [state |-> "CANDIDATE", time |-> time,
                                             preferred |-> preferred]]
  <2>1. time \in Nat /\ preferred \in BOOLEAN
    BY TimeType, PreferenceType
  <2>2. /\ ~IsTracked(m_index[t][p]) /\ SetRow(t, row) /\ call = Idle
        /\ result' = <<>> /\ call' = call
    BY <1>3 DEF ReceivedInv, Atomic
  <2>3. row \in Row
    BY <1>1, <2>1, <2>2, AnnouncedRowOK
  <2>4. BookRow(row) = arow
    <3>1. \A q \in Peer : row[q] = IF q = p THEN [state |-> "CANDIDATE_DELAYED", time |-> time,
                                                   preferred |-> preferred]
                                            ELSE m_index[t][q]
      BY <1>1 DEF Row
    <3>2. \A q \in Peer : arow[q] = IF q = p THEN [state |-> "CANDIDATE", time |-> time,
                                                    preferred |-> preferred]
                                             ELSE Book[t][q]
      BY <1>2 DEF BookRow
    <3>3. DOMAIN arow = Peer /\ arow = [q \in Peer |-> arow[q]]
      BY <1>2 DEF BookRow
    <3> HIDE DEF row, arow
    <3>4. ASSUME NEW q \in Peer
          PROVE  [state |-> BookState(row[q].state), time |-> row[q].time,
                  preferred |-> row[q].preferred] = arow[q]
      BY <1>2a, <3>1, <3>2 DEF BookState, Candidate
    <3>5. QED
      BY <3>3, <3>4 DEF BookRow
  <2>5. arow[p].state = "CANDIDATE"
    BY <1>2 DEF BookRow
  <2>6. A!Cleanup(arow) = arow
    <3> HIDE DEF arow
    <3> QED BY <2>5, CleanupKeeps
  <2>7. Book[t][p].state = "NOTHING"
    BY <1>1, <1>2, <2>2, BookNothing
  <2>8. A!SetRow(t, arow)
    <3> HIDE DEF arow, row
    <3> QED BY <1>1, <2>2, <2>3, <2>4, <2>6, SetRowRefines
  <2>9. A!ReceivedInv(p, t, preferred, time)
    BY <2>2, <2>7, <2>8 DEF A!ReceivedInv
  <2>10. QED
    BY <2>1, <2>9 DEF A!Next
<1>4. ASSUME NEW p \in Peer, NEW t \in TxHash, NEW time \in Time, RequestedTx(p, t, time)
      PROVE  A!Next
  <2> DEFINE row == RequestedRow(m_index[t], p, time)
             arow == [q \in Peer |->
                    IF q = p THEN [Book[t][p] EXCEPT !.state = "REQUESTED", !.time = time]
                    ELSE IF Book[t][q].state = "REQUESTED"
                           THEN [Book[t][q] EXCEPT !.state = "COMPLETED"]
                           ELSE Book[t][q]]
  <2>1. /\ time \in Nat /\ m_index[t][p].state \in Candidate /\ SetRow(t, row)
        /\ call = Idle /\ result' = <<>> /\ call' = call
    BY <1>4, TimeType DEF RequestedTx, Atomic
  <2>2. row \in Row
    BY <1>1, <2>1, RequestedRowOK
  <2>3. A!Cleanup(arow) = BookRow(row)
    <3>1. Book[t] = BookRow(m_index[t])
      BY <1>2
    <3>2. arow = [q \in Peer |->
               IF q = p THEN [BookRow(m_index[t])[p] EXCEPT !.state = "REQUESTED", !.time = time]
               ELSE IF BookRow(m_index[t])[q].state = "REQUESTED"
                      THEN [BookRow(m_index[t])[q] EXCEPT !.state = "COMPLETED"]
                      ELSE BookRow(m_index[t])[q]]
      BY <3>1
    <3> HIDE DEF arow
    <3> QED BY <1>1, <2>1, <3>2, RequestedRefines
  <2>4. Book[t][p].state = "CANDIDATE"
    BY <1>2a, <2>1 DEF BookState
  <2>5. A!SetRow(t, arow)
    <3> HIDE DEF arow, row
    <3> QED BY <1>1, <2>1, <2>2, <2>3, SetRowRefines
  <2>6. A!RequestedTx(p, t, time)
    BY <2>1, <2>4, <2>5 DEF A!RequestedTx
  <2>7. QED
    BY <2>6 DEF A!Next
<1>5. ASSUME NEW p \in Peer, NEW t \in TxHash, IsTracked(m_index[t][p]),
             SetRow(t, MakeCompleted(t, m_index[t], p))
      PROVE  A!SetRow(t, [Book[t] EXCEPT ![p].state = "COMPLETED"])
  <2>1. MakeCompleted(t, m_index[t], p) \in Row
    BY <1>1, CompletedRowOK
  <2>2. A!Cleanup([Book[t] EXCEPT ![p].state = "COMPLETED"]) =
        BookRow(MakeCompleted(t, m_index[t], p))
    BY <1>1, <1>2, <1>5, CompletedRefines
  <2>3. QED
    BY <1>1, <1>5, <2>1, <2>2, SetRowRefines
<1>6. ASSUME NEW p \in Peer, NEW t \in TxHash, ReceivedResponse(p, t)
      PROVE  A!Next
  <2>1. /\ IsTracked(m_index[t][p]) /\ SetRow(t, MakeCompleted(t, m_index[t], p))
        /\ call = Idle /\ result' = <<>> /\ call' = call
    BY <1>6 DEF ReceivedResponse, Atomic
  <2>2. Book[t][p].state # "NOTHING"
    BY <1>1, <1>2, <2>1, BookNothing
  <2>3. A!SetRow(t, [Book[t] EXCEPT ![p].state = "COMPLETED"])
    BY <1>5, <2>1
  <2>4. A!ReceivedResponse(p, t)
    BY <2>1, <2>2, <2>3 DEF A!ReceivedResponse
  <2>5. QED
    BY <2>4 DEF A!Next
<1>7. ASSUME NEW t \in TxHash, ForgetTxHash(t)
      PROVE  A!Next
  <2> DEFINE arow == [p \in Peer |-> A!Nothing]
  <2>1. SetRow(t, NoRow) /\ call = Idle /\ result' = <<>> /\ call' = call /\ NoRow \in Row
    BY <1>7, NoRowOK DEF ForgetTxHash, Atomic
  <2>2. \A p \in Peer : arow[p].state \in {"NOTHING", "COMPLETED"}
    BY DEF A!Nothing
  <2>3. A!Cleanup(arow) = BookRow(NoRow)
    <3> HIDE DEF arow
    <3> QED BY <2>2, CleanupErases
  <2>4. A!SetRow(t, arow)
    <3> HIDE DEF arow
    <3> QED BY <1>1, <2>1, <2>3, SetRowRefines
  <2>5. A!ForgetTxHash(t)
    BY <2>1, <2>4 DEF A!ForgetTxHash
  <2>6. QED
    BY <2>5 DEF A!Next
<1>8. ASSUME UNCHANGED tracker PROVE UNCHANGED <<Book, m_order>>
  BY <1>8 DEF tracker, Book
<1>8a. CASE FirstLoopBreaks
  BY <1>8, <1>8a DEF FirstLoopBreaks, tracker, A!vars
<1>9. ASSUME NEW p \in Peer, NEW now \in Time, Begin("GetRequestable", p, now)
      PROVE  A!Next
  <2>1. A!Call("GetRequestable", p, now)
    BY <1>8, <1>9 DEF Begin, tracker, A!Call
  <2> QED BY <2>1 DEF A!Next
<1>10. ASSUME NEW p \in Peer, Begin("DisconnectedPeer", p, 0)
       PROVE  A!Next
  <2>1. A!Call("DisconnectedPeer", p, 0)
    BY <1>8, <1>10 DEF Begin, tracker, A!Call
  <2> QED BY <2>1 DEF A!Next
<1>11. ASSUME NEW t \in TxHash, DisconnectStep(t)
       PROVE  A!Next
  <2> DEFINE p == call.peer
             row == [MakeCompleted(t, m_index[t], p) EXCEPT ![p] = Nothing]
             arow == [Book[t] EXCEPT ![p] = A!Nothing]
  <2>1. p \in Peer
    BY <1>1, <1>11 DEF DisconnectStep, InCall, Call, TypeOK
  <2>2. /\ call # Idle /\ call.op = "DisconnectedPeer" /\ IsTracked(m_index[t][p])
        /\ SetRow(t, row) /\ call' = call /\ result' = result
    BY <1>11 DEF DisconnectStep, InCall
  <2>3. row \in Row
    BY <1>1, <2>1, WipedRowOK
  <2>4. A!Cleanup(arow) = BookRow(row)
    BY <1>1, <1>2, <2>1, <2>2, WipedRefines
  <2>5. Book[t][p].state # "NOTHING"
    BY <1>1, <1>2, <2>1, <2>2, BookNothing
  <2>6. A!SetRow(t, arow)
    <3> HIDE DEF arow, row
    <3> QED BY <1>1, <2>2, <2>3, <2>4, SetRowRefines
  <2>7. A!Wipe(t)
    BY <2>2, <2>5, <2>6 DEF A!Wipe
  <2>8. QED
    BY <2>7 DEF A!Next
<1>12. ASSUME NEW t \in TxHash, NEW p \in Peer, SetTimePointForward(t, p)
       PROVE  [A!Next]_A!vars
  <2>1. /\ call # Idle /\ call.op = "GetRequestable" /\ Due(t, p)
        /\ call' = call /\ result' = result
    BY <1>12 DEF SetTimePointForward, InCall
  <2>2. CASE m_index[t][p].state = "CANDIDATE_DELAYED"
    <3>1. SetRow(t, PromoteCandidateReady(t, m_index[t], p))
      BY <1>12, <2>2 DEF SetTimePointForward
    <3>2. /\ PromoteCandidateReady(t, m_index[t], p) \in Row
          /\ BookRow(PromoteCandidateReady(t, m_index[t], p)) = BookRow(m_index[t])
      BY <1>1, <2>2, PromotedRowOK, PromotedSameBook
    <3>3. Book' = Book /\ m_order' = m_order
      BY <1>1, <3>1, <3>2, SameBook
    <3> QED BY <2>1, <3>3 DEF A!vars
  <2>3. CASE m_index[t][p].state # "CANDIDATE_DELAYED"
    <3>1. m_index[t][p].state = "REQUESTED" /\ m_index[t][p].time =< call.now
      BY <2>1, <2>3 DEF Due, IsWaiting
    <3>2. IsTracked(m_index[t][p]) /\ SetRow(t, MakeCompleted(t, m_index[t], p))
      BY <1>12, <2>3, <3>1 DEF SetTimePointForward, IsTracked
    <3>3. A!SetRow(t, [Book[t] EXCEPT ![p].state = "COMPLETED"])
      BY <1>5, <3>2
    <3>4. Book[t][p].state = "REQUESTED" /\ Book[t][p].time =< call.now
      BY <1>2a, <3>1 DEF BookState, Candidate
    <3>5. A!Expire(t, p)
      BY <2>1, <3>3, <3>4 DEF A!Expire
    <3> QED BY <3>5 DEF A!Next
  <2>4. QED
    BY <2>2, <2>3
<1>13. ASSUME NEW t \in TxHash, NEW p \in Peer, SetTimePointBackward(t, p)
       PROVE  UNCHANGED A!vars
  <2>1. /\ SetRow(t, ChangeAndReselect(t, m_index[t], p, "CANDIDATE_DELAYED"))
        /\ IsSelectable(m_index[t][p]) /\ call' = call /\ result' = result
    BY <1>13 DEF SetTimePointBackward, EarlyReady
  <2>2. /\ ChangeAndReselect(t, m_index[t], p, "CANDIDATE_DELAYED") \in Row
        /\ BookRow(ChangeAndReselect(t, m_index[t], p, "CANDIDATE_DELAYED")) = BookRow(m_index[t])
    BY <1>1, <2>1, ReselectedRowOK, DelayedSameBook
  <2>3. Book' = Book /\ m_order' = m_order
    BY <1>1, <2>1, <2>2, SameBook
  <2>4. QED
    BY <2>1, <2>3 DEF A!vars
<1>14. CASE Disconnected
  <2>1. call \in Call /\ call # Idle /\ call.op = "DisconnectedPeer" /\ call.peer \in Peer
    BY <1>1, <1>14 DEF Disconnected, InCall, TypeOK, Call
  <2>2. \A t \in TxHash : Book[t][call.peer].state = "NOTHING"
    BY <1>1, <1>2, <1>14, <2>1, BookNothing DEF Disconnected
  <2>3. call' = Idle /\ result' = result /\ UNCHANGED <<Book, m_order>>
    BY <1>8, <1>14 DEF Disconnected, tracker
  <2>4. A!ReturnDisconnected
    BY <2>1, <2>2, <2>3 DEF A!ReturnDisconnected
  <2>5. QED
    BY <2>4 DEF A!Next
<1>15. CASE ReturnRequestable
  <2>1. /\ call \in Call /\ call # Idle /\ call.op = "GetRequestable" /\ call.peer \in Peer
        /\ call.now \in Nat
    BY <1>1, <1>15 DEF ReturnRequestable, InCall, TypeOK, Call
  <2>2. NothingDue /\ \A t \in TxHash, p \in Peer : ~EarlyReady(t, p)
    BY <1>15 DEF ReturnRequestable, FirstLoopDone
  <2>3. \A t \in TxHash, p \in Peer :
           Book[t][p].state = "REQUESTED" => Book[t][p].time > call.now
    <3>1. ASSUME NEW t \in TxHash, NEW p \in Peer, Book[t][p].state = "REQUESTED"
          PROVE  Book[t][p].time > call.now
      <4>1. m_index[t][p].state = "REQUESTED" /\ Book[t][p].time = m_index[t][p].time
        BY <1>2a, <3>1 DEF BookState, Candidate
      <4>2. ~(m_index[t][p].time =< call.now)
        BY <2>2, <4>1 DEF NothingDue, Due, IsWaiting
      <4>3. m_index[t][p].time \in Nat
        BY <1>1 DEF Row, Announcement
      <4> QED BY <2>1, <4>1, <4>2, <4>3
    <3> QED BY <3>1
  <2>4. {t \in TxHash : m_index[t][call.peer].state = "CANDIDATE_BEST"} =
        {t \in TxHash : A!Selected(t, call.peer, call.now)}
    BY <2>1, <2>2, SelectedIsBest
  <2>5. result' = Only(m_order[call.peer], {t \in TxHash : A!Selected(t, call.peer, call.now)})
    BY <1>15, <2>4 DEF ReturnRequestable, Requestable
  <2>6. call' = Idle /\ UNCHANGED <<Book, m_order>>
    BY <1>8, <1>15 DEF ReturnRequestable
  <2>7. A!ReturnRequestable
    BY <2>1, <2>3, <2>5, <2>6 DEF A!ReturnRequestable, A!Only, Only
  <2>8. QED
    BY <2>7 DEF A!Next
<1>16. CASE UNCHANGED vars
  BY <1>8, <1>16 DEF vars, tracker, A!vars
<1>17. QED
  BY <1>3, <1>4, <1>6, <1>7, <1>8a, <1>9, <1>10, <1>11, <1>12, <1>13, <1>14, <1>15, <1>16
     DEF Next, LoopStep

\* The tracker, with its cached selection and its incremental SetTimePoint,
\* implements the tracker that computes what to request from scratch.
THEOREM TrackerRefines == Spec => RefinesAnnouncements
<1>1. Spec => []SanityCheck
  BY TrackerIsSane
<1>2. QED
  BY <1>1, LoopInvariant, InitRefines, NextRefines, PTL DEF Spec, RefinesAnnouncements, A!Spec
=============================================================================
