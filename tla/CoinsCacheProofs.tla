-------------------------- MODULE CoinsCacheProofs --------------------------
(***************************************************************************)
(* For any outpoints, coins and hashes, the caches of CoinsCache keep the  *)
(* promises of their flags and together implement UtxoSet.                 *)
(*                                                                         *)
(* CacheInv is the inductive invariant.  EntryOK says what an entry means  *)
(* relative to the answer of the cache below it, so that a step has to be  *)
(* looked at for one outpoint at a time: the first lemmas show that the    *)
(* entry AddCoin, SpendCoin, BatchWrite, FetchCoin and Sync leave is sound *)
(* again and what it answers.  The lemmas on steps lift that to the two    *)
(* maps, and say at the same time what the step does to the answers, which *)
(* is what the refinement needs.  ClosedEmpty is there because without a   *)
(* view the topmost cache is CoinsTip().                                   *)
(***************************************************************************)
EXTENDS CoinsCache, SumTheorems

\* What a lookup finds, given the entry and the answer of the base.
Answer(e, base) == IF e = NoEntry THEN base ELSE e.coin

\* The entry is absent, or its flags are right over that base.
EntryOK(e, base) ==
    e = NoEntry \/ /\ e \in CCoinsCacheEntry
                   /\ e.fresh => base = Spent
                   /\ ~e.dirty => e.coin = base
                   /\ e.fresh /\ e.coin # Spent => e.dirty
                   /\ e.coin = Spent => e.dirty # e.fresh

\* A constructed cache entry is an entry, is not NoEntry and has the fields it
\* was given (the CCoinsCacheEntry constructors).
LEMMA EntryFacts ==
    ASSUME NEW c \in CoinOrSpent, NEW d \in BOOLEAN, NEW f \in BOOLEAN
    PROVE  /\ Entry(c, d, f) \in CCoinsCacheEntry
           /\ Entry(c, d, f) # NoEntry
           /\ Entry(c, d, f).coin = c
           /\ Entry(c, d, f).dirty = d
           /\ Entry(c, d, f).fresh = f
BY ConstantsDistinct DEF Entry, CCoinsCacheEntry

\* The fields of an entry, and that it is not NoEntry.
LEMMA FieldFacts ==
    ASSUME NEW e \in CCoinsCacheEntry
    PROVE  /\ e.coin \in CoinOrSpent
           /\ e.dirty \in BOOLEAN
           /\ e.fresh \in BOOLEAN
           /\ e # NoEntry
BY ConstantsDistinct DEF CCoinsCacheEntry

\* AddCoin turns a sound entry into a sound one that answers the new coin,
\* provided that possible_overwrite is false only when no unspent coin is there.
LEMMA AddedOK ==
    ASSUME NEW e, NEW base \in CoinOrSpent, EntryOK(e, base),
           NEW c \in Coin \ Unspendable, NEW overwrite \in BOOLEAN,
           overwrite \/ Answer(e, base) = Spent
    PROVE  /\ EntryOK(AddedEntry(e, c, overwrite), base)
           /\ Answer(AddedEntry(e, c, overwrite), base) = c
<1> DEFINE f == \/ ~overwrite /\ (e = NoEntry \/ ~e.dirty)
                \/ e # NoEntry /\ e.fresh
<1>1. c \in CoinOrSpent /\ c # Spent
  BY ConstantsDistinct DEF CoinOrSpent
<1>2. f => base = Spent
  BY FieldFacts DEF EntryOK, Answer
<1>3. AddedEntry(e, c, overwrite) = Entry(c, TRUE, f) /\ f \in BOOLEAN
  BY DEF AddedEntry
<1> HIDE DEF f
<1>4. /\ Entry(c, TRUE, f) \in CCoinsCacheEntry /\ Entry(c, TRUE, f) # NoEntry
      /\ Entry(c, TRUE, f).coin = c /\ Entry(c, TRUE, f).dirty = TRUE
      /\ Entry(c, TRUE, f).fresh = f
  BY <1>1, <1>3, EntryFacts
<1>5. QED
  BY <1>1, <1>2, <1>3, <1>4 DEF EntryOK, Answer

\* SpendCoin, dropping a FRESH entry or keeping a spent DIRTY one, leaves a
\* sound entry and the answer Spent.
LEMMA SpentOK ==
    ASSUME NEW e \in CCoinsCacheEntry, NEW base \in CoinOrSpent, EntryOK(e, base)
    PROVE  /\ EntryOK(SpentEntry(e), base)
           /\ Answer(SpentEntry(e), base) = Spent
<1>1. Spent \in CoinOrSpent
  BY DEF CoinOrSpent
<1> QED
  BY <1>1, EntryFacts, FieldFacts DEF SpentEntry, EntryOK, Answer

\* BatchWrite merges a child's sound entry into the parent's sound entry: the
\* result is sound over the grandparent and answers what the child answered.
LEMMA MergedOK ==
    ASSUME NEW us, NEW it, NEW base \in CoinOrSpent,
           EntryOK(us, base), EntryOK(it, Answer(us, base))
    PROVE  /\ EntryOK(MergedEntry(us, it), base)
           /\ Answer(MergedEntry(us, it), base) = Answer(it, Answer(us, base))
<1>1. CASE it = NoEntry
  BY <1>1 DEF MergedEntry, Answer
<1>2. CASE it # NoEntry /\ ~it.dirty
  BY <1>2 DEF MergedEntry, Answer, EntryOK
<1>3. CASE it # NoEntry /\ it.dirty /\ us = NoEntry
  <2>1. MergedEntry(us, it) = IF it.fresh /\ it.coin = Spent THEN NoEntry
                                          ELSE Entry(it.coin, TRUE, it.fresh)
    BY <1>3 DEF MergedEntry
  <2>2. it \in CCoinsCacheEntry
    BY <1>3 DEF EntryOK
  <2> DEFINE m == Entry(it.coin, TRUE, it.fresh)
  <2>3. /\ m \in CCoinsCacheEntry /\ m # NoEntry
        /\ m.coin = it.coin /\ m.dirty = TRUE /\ m.fresh = it.fresh
    <3>1. it.coin \in CoinOrSpent /\ it.fresh \in BOOLEAN
      BY <2>2, FieldFacts
    <3>2. ASSUME NEW c \in CoinOrSpent, NEW f \in BOOLEAN
          PROVE  /\ Entry(c, TRUE, f) \in CCoinsCacheEntry /\ Entry(c, TRUE, f) # NoEntry
                 /\ Entry(c, TRUE, f).coin = c /\ Entry(c, TRUE, f).dirty = TRUE
                 /\ Entry(c, TRUE, f).fresh = f
      BY EntryFacts, Zenon
    <3> QED BY <3>1, <3>2
  <2>4. /\ it.coin \in CoinOrSpent /\ it.fresh \in BOOLEAN
        /\ it.fresh => base = Spent
        /\ Answer(it, Answer(us, base)) = it.coin
    BY <1>3, <2>2, FieldFacts DEF EntryOK, Answer
  <2>5. CASE it.fresh /\ it.coin = Spent
    BY <2>1, <2>4, <2>5 DEF EntryOK, Answer
  <2>6. CASE ~(it.fresh /\ it.coin = Spent)
    <3>1. MergedEntry(us, it) = m
      BY <2>1, <2>6
    <3> HIDE DEF m
    <3> QED
      BY <3>1, <2>3, <2>4, <2>6 DEF EntryOK, Answer
  <2> QED
    BY <2>5, <2>6
<1>4. CASE it # NoEntry /\ it.dirty /\ us # NoEntry
  <2>1. MergedEntry(us, it) = IF us.fresh /\ it.coin = Spent THEN NoEntry
                                          ELSE Entry(it.coin, TRUE, us.fresh)
    BY <1>4 DEF MergedEntry
  <2>2. it \in CCoinsCacheEntry /\ us \in CCoinsCacheEntry
    BY <1>4 DEF EntryOK
  <2> DEFINE m == Entry(it.coin, TRUE, us.fresh)
  <2>3. /\ m \in CCoinsCacheEntry /\ m # NoEntry
        /\ m.coin = it.coin /\ m.dirty = TRUE /\ m.fresh = us.fresh
    <3>1. it.coin \in CoinOrSpent /\ us.fresh \in BOOLEAN
      BY <2>2, FieldFacts
    <3>2. ASSUME NEW c \in CoinOrSpent, NEW f \in BOOLEAN
          PROVE  /\ Entry(c, TRUE, f) \in CCoinsCacheEntry /\ Entry(c, TRUE, f) # NoEntry
                 /\ Entry(c, TRUE, f).coin = c /\ Entry(c, TRUE, f).dirty = TRUE
                 /\ Entry(c, TRUE, f).fresh = f
      BY EntryFacts, Zenon
    <3> QED BY <3>1, <3>2
  <2>4. /\ it.coin \in CoinOrSpent /\ us.fresh \in BOOLEAN
        /\ us.fresh => base = Spent
        /\ Answer(it, Answer(us, base)) = it.coin
    BY <1>4, <2>2, FieldFacts DEF EntryOK, Answer
  <2>5. CASE us.fresh /\ it.coin = Spent
    BY <2>1, <2>4, <2>5 DEF EntryOK, Answer
  <2>6. CASE ~(us.fresh /\ it.coin = Spent)
    <3>1. MergedEntry(us, it) = m
      BY <2>1, <2>6
    <3> HIDE DEF m
    <3> QED
      BY <3>1, <2>3, <2>4, <2>6 DEF EntryOK, Answer
  <2> QED
    BY <2>5, <2>6
<1> QED
  BY <1>1, <1>2, <1>3, <1>4

\* FetchCoin leaves a sound entry that answers as before; without an entry the
\* answer was Spent.
LEMMA FetchedOK ==
    ASSUME NEW e, NEW base \in CoinOrSpent, EntryOK(e, base)
    PROVE  LET f == IF e = NoEntry /\ base # Spent THEN Entry(base, FALSE, FALSE) ELSE e
           IN  /\ EntryOK(f, base)
               /\ Answer(f, base) = Answer(e, base)
               /\ f # NoEntry => f \in CCoinsCacheEntry
               /\ f = NoEntry => Answer(e, base) = Spent
BY EntryFacts DEF EntryOK, Answer

\* The entry that Sync leaves is sound over a base that has just been given
\* the coin, and answers as before.
LEMMA SyncedOK ==
    ASSUME NEW e, NEW base \in CoinOrSpent, EntryOK(e, base)
    PROVE  /\ EntryOK(SyncedEntry(e), Answer(e, base))
           /\ Answer(SyncedEntry(e), Answer(e, base)) = Answer(e, base)
BY EntryFacts, FieldFacts DEF EntryOK, Answer, SyncedEntry

\* A sound entry over a base answers a coin or Spent.
LEMMA AnswerType ==
    ASSUME NEW e, NEW base \in CoinOrSpent, EntryOK(e, base)
    PROVE  Answer(e, base) \in CoinOrSpent
BY FieldFacts DEF EntryOK, Answer
-----------------------------------------------------------------------------
\* Every entry of both caches is sound over what is below it.
EntriesOK == \A o \in Outpoint : /\ EntryOK(coins["tip"][o], db[o])
                                 /\ EntryOK(coins["view"][o], Answer(coins["tip"][o], db[o]))

\* Without a view there is nothing in its cache.
ClosedEmpty == ~open => /\ coins["view"] = EmptyCache
                        /\ hashBlock["view"] = NullHash

\* The inductive invariant of CoinsCache.
CacheInv == TypeOK /\ EntriesOK /\ ClosedEmpty

\* What CoinsTip() and the topmost view find for o.
TipAnswer(o) == Answer(coins["tip"][o], db[o])
ViewAnswer(o) == Answer(coins["view"][o], TipAnswer(o))

\* What the inductive invariant says of one outpoint, and how Lookup, TipCoins,
\* BaseCoins and ViewCoins are expressed by TipAnswer and ViewAnswer.
LEMMA StateFacts ==
    ASSUME CacheInv
    PROVE  /\ \A o \in Outpoint :
                /\ db[o] \in CoinOrSpent
                /\ EntryOK(coins["tip"][o], db[o])
                /\ EntryOK(coins["view"][o], TipAnswer(o))
                /\ TipAnswer(o) \in CoinOrSpent
                /\ ViewAnswer(o) \in CoinOrSpent
                /\ coins["tip"][o] \in CCoinsCacheEntry \cup {NoEntry}
                /\ coins["view"][o] \in CCoinsCacheEntry \cup {NoEntry}
           /\ TipCoins = [o \in Outpoint |-> TipAnswer(o)]
           /\ ViewCoins = [o \in Outpoint |-> ViewAnswer(o)]
           /\ ViewBlock = IF hashBlock["view"] = NullHash THEN TipBlock ELSE hashBlock["view"]
           /\ "tip" \in Level /\ "view" \in Level
<1>1. \A o \in Outpoint :
                /\ db[o] \in CoinOrSpent
                /\ EntryOK(coins["tip"][o], db[o])
                /\ EntryOK(coins["view"][o], TipAnswer(o))
                /\ coins["tip"][o] \in CCoinsCacheEntry \cup {NoEntry}
                /\ coins["view"][o] \in CCoinsCacheEntry \cup {NoEntry}
  BY DEF CacheInv, TypeOK, EntriesOK, TipAnswer, Level
<1>2. \A o \in Outpoint : TipAnswer(o) \in CoinOrSpent
  BY <1>1, AnswerType DEF TipAnswer
<1>3. \A o \in Outpoint : ViewAnswer(o) \in CoinOrSpent
  BY <1>1, <1>2, AnswerType DEF ViewAnswer
<1>4. TipCoins = [o \in Outpoint |-> TipAnswer(o)]
  BY DEF TipCoins, Lookup, TipAnswer, Answer
<1>5. ViewCoins = [o \in Outpoint |-> ViewAnswer(o)]
  <2>1. CASE open
    BY <2>1, <1>4 DEF ViewCoins, Lookup, ViewAnswer, Answer, top, BaseCoins
  <2>2. CASE ~open
    BY <2>2, <1>4 DEF ViewCoins, Lookup, TipAnswer, ViewAnswer, Answer, top, BaseCoins,
                      CacheInv, ClosedEmpty, EmptyCache
  <2> QED
    BY <2>1, <2>2
<1>6. ViewBlock = IF hashBlock["view"] = NullHash THEN TipBlock ELSE hashBlock["view"]
  BY DEF ViewBlock, TipBlock, top, CacheInv, ClosedEmpty
<1> QED
  BY <1>1, <1>2, <1>3, <1>4, <1>5, <1>6 DEF Level

\* What remains to be shown of a step, entry by entry.
LEMMA StepRule ==
    ASSUME coins' \in [Level -> [Outpoint -> CCoinsCacheEntry \cup {NoEntry}]],
           hashBlock' \in [Level -> Hash \cup {NullHash}],
           open' \in BOOLEAN,
           db' \in [Outpoint -> CoinOrSpent],
           dbHash' \in Hash \cup {NullHash},
           ClosedEmpty',
           \A p \in Outpoint : /\ EntryOK(coins'["tip"][p], db'[p])
                               /\ EntryOK(coins'["view"][p], Answer(coins'["tip"][p], db'[p]))
    PROVE  CacheInv'
BY DEF CacheInv, TypeOK, EntriesOK, ClosedEmpty

\* A step that changes nothing the users of the caches can see.
Invisible == /\ \A p \in Outpoint : TipAnswer(p)' = TipAnswer(p) /\ ViewAnswer(p)' = ViewAnswer(p)
             /\ TipBlock' = TipBlock /\ ViewBlock' = ViewBlock /\ open' = open

\* FetchedOK for each of the two caches, with the coins of the state.
LEMMA FetchedFacts ==
    ASSUME CacheInv, NEW o \in Outpoint
    PROVE  /\ EntryOK(FetchedEntry("tip", o), db[o])
           /\ Answer(FetchedEntry("tip", o), db[o]) = TipAnswer(o)
           /\ FetchedEntry("tip", o) = NoEntry => TipAnswer(o) = Spent
           /\ EntryOK(FetchedEntry("view", o), TipAnswer(o))
           /\ Answer(FetchedEntry("view", o), TipAnswer(o)) = ViewAnswer(o)
           /\ FetchedEntry("view", o) = NoEntry => ViewAnswer(o) = Spent
<1>1. BaseCoins("tip")[o] = db[o] /\ BaseCoins("view")[o] = TipAnswer(o)
  BY StateFacts DEF BaseCoins
<1>2. /\ EntryOK(FetchedEntry("tip", o), db[o])
      /\ Answer(FetchedEntry("tip", o), db[o]) = TipAnswer(o)
      /\ FetchedEntry("tip", o) = NoEntry => TipAnswer(o) = Spent
  BY <1>1, StateFacts, FetchedOK DEF FetchedEntry, TipAnswer
<1>3. /\ EntryOK(FetchedEntry("view", o), TipAnswer(o))
      /\ Answer(FetchedEntry("view", o), TipAnswer(o)) = ViewAnswer(o)
      /\ FetchedEntry("view", o) = NoEntry => ViewAnswer(o) = Spent
  BY <1>1, StateFacts, FetchedOK DEF FetchedEntry, ViewAnswer
<1> QED
  BY <1>2, <1>3

\* Contents m of the two caches that answer every lookup as coins does.
SameAnswers(m) ==
    /\ m \in [Level -> [Outpoint -> CCoinsCacheEntry \cup {NoEntry}]]
    /\ \A p \in Outpoint : /\ EntryOK(m["tip"][p], db[p])
                           /\ Answer(m["tip"][p], db[p]) = TipAnswer(p)
                           /\ EntryOK(m["view"][p], TipAnswer(p))
                           /\ Answer(m["view"][p], TipAnswer(p)) = ViewAnswer(p)
    /\ ~open => m["view"] = EmptyCache

\* The caches as they are answer as they do.
LEMMA CoinsSame == ASSUME CacheInv PROVE SameAnswers(coins)
BY StateFacts DEF SameAnswers, CacheInv, TypeOK, ClosedEmpty, TipAnswer, ViewAnswer

\* FetchCoin, which may leave an entry in both caches, changes no answer.
LEMMA FetchSame ==
    ASSUME CacheInv, NEW o \in Outpoint
    PROVE  /\ SameAnswers(FetchCoin(o))
           /\ FetchCoin(o)[top][o] = FetchedEntry(top, o)
<1> DEFINE ft == FetchedEntry("tip", o)
           fv == FetchedEntry("view", o)
           m == FetchCoin(o)
<1>1. /\ EntryOK(ft, db[o]) /\ Answer(ft, db[o]) = TipAnswer(o)
      /\ EntryOK(fv, TipAnswer(o)) /\ Answer(fv, TipAnswer(o)) = ViewAnswer(o)
  BY FetchedFacts
<1>2. /\ ft \in CCoinsCacheEntry \cup {NoEntry}
      /\ fv \in CCoinsCacheEntry \cup {NoEntry}
  BY <1>1 DEF EntryOK
<1>3. \A p \in Outpoint :
        /\ m["tip"][p] = IF p = o /\ "tip" \in Reached(o) THEN ft ELSE coins["tip"][p]
        /\ m["view"][p] = IF p = o /\ "view" \in Reached(o) THEN fv ELSE coins["view"][p]
  BY DEF FetchCoin, CacheInv, TypeOK, Level
<1>4. m \in [Level -> [Outpoint -> CCoinsCacheEntry \cup {NoEntry}]]
  BY <1>2 DEF FetchCoin, CacheInv, TypeOK, Level
<1>5. ~open => m["view"] = EmptyCache
  <2>1. ~open => "view" \notin Reached(o)
    BY DEF Reached, top
  <2> QED
    BY <2>1 DEF FetchCoin, CacheInv, TypeOK, ClosedEmpty, Level
<1>6. m[top][o] = FetchedEntry(top, o)
  BY <1>3 DEF Reached, top
<1> HIDE DEF ft, fv, m
<1>7. \A p \in Outpoint : /\ EntryOK(m["tip"][p], db[p])
                          /\ Answer(m["tip"][p], db[p]) = TipAnswer(p)
                          /\ EntryOK(m["view"][p], TipAnswer(p))
                          /\ Answer(m["view"][p], TipAnswer(p)) = ViewAnswer(p)
  BY <1>1, <1>3, StateFacts DEF TipAnswer, ViewAnswer
<1> QED
  BY <1>4, <1>5, <1>6, <1>7 DEF SameAnswers, m

\* A step that keeps every answer preserves the invariant and is invisible.
LEMMA SameStep ==
    ASSUME CacheInv, SameAnswers(coins'), UNCHANGED <<hashBlock, open, db, dbHash>>
    PROVE  CacheInv' /\ Invisible
<1>1. \A p \in Outpoint : TipAnswer(p)' = TipAnswer(p) /\ ViewAnswer(p)' = ViewAnswer(p)
  BY DEF SameAnswers, TipAnswer, ViewAnswer
<1>2. CacheInv'
  BY StepRule DEF SameAnswers, CacheInv, TypeOK, ClosedEmpty, TipAnswer, EmptyCache
<1>3. TipBlock' = TipBlock /\ ViewBlock' = ViewBlock
  BY DEF TipBlock, ViewBlock, top
<1> QED
  BY <1>1, <1>2, <1>3 DEF Invisible

\* A step that writes c at outpoint o of the topmost view, as its users see it.
Writes(o, c) == /\ \A p \in Outpoint : ViewAnswer(p)' = IF p = o THEN c ELSE ViewAnswer(p)
                /\ \A p \in Outpoint : TipAnswer(p)' = IF ~open /\ p = o THEN c ELSE TipAnswer(p)
                /\ TipBlock' = TipBlock /\ ViewBlock' = ViewBlock /\ open' = open

TopBase(o) == IF open THEN TipAnswer(o) ELSE db[o]

\* Replacing the entry of o in the topmost cache by a sound one that answers c.
LEMMA TopWrite ==
    ASSUME CacheInv, NEW m, SameAnswers(m), NEW o \in Outpoint, NEW c, NEW e,
           EntryOK(e, TopBase(o)), Answer(e, TopBase(o)) = c,
           coins' = [m EXCEPT ![top][o] = e],
           UNCHANGED <<hashBlock, open, db, dbHash>>
    PROVE  CacheInv' /\ Writes(o, c)
<1>1. TipBlock' = TipBlock /\ ViewBlock' = ViewBlock
  BY DEF TipBlock, ViewBlock, top
<1>2. e \in CCoinsCacheEntry \cup {NoEntry}
  BY DEF EntryOK
<1>3. coins' \in [Level -> [Outpoint -> CCoinsCacheEntry \cup {NoEntry}]]
  BY <1>2 DEF SameAnswers, Level
<1>4. CASE open
  <2>1. coins' = [m EXCEPT !["view"][o] = e]
    BY <1>4 DEF top
  <2>2. \A p \in Outpoint : /\ coins'["tip"][p] = m["tip"][p]
                            /\ coins'["view"][p] = IF p = o THEN e ELSE m["view"][p]
    BY <2>1 DEF SameAnswers, Level
  <2>3. \A p \in Outpoint : /\ EntryOK(coins'["tip"][p], db'[p])
                            /\ TipAnswer(p)' = TipAnswer(p)
                            /\ EntryOK(coins'["view"][p], TipAnswer(p)')
                            /\ ViewAnswer(p)' = IF p = o THEN c ELSE ViewAnswer(p)
    BY <1>4, <2>2 DEF SameAnswers, TipAnswer, ViewAnswer, TopBase
  <2>4. CacheInv'
    BY <1>3, <1>4, <2>3, StepRule DEF CacheInv, TypeOK, TipAnswer, ClosedEmpty
  <2> QED
    BY <1>1, <1>4, <2>3, <2>4 DEF Writes
<1>5. CASE ~open
  <2>1. coins' = [m EXCEPT !["tip"][o] = e]
    BY <1>5 DEF top
  <2>2. /\ coins'["view"] = EmptyCache /\ coins["view"] = EmptyCache
        /\ \A p \in Outpoint : coins'["tip"][p] = IF p = o THEN e ELSE m["tip"][p]
    BY <1>5, <2>1 DEF SameAnswers, Level, CacheInv, ClosedEmpty
  <2>3. \A p \in Outpoint : /\ EntryOK(coins'["tip"][p], db'[p])
                            /\ TipAnswer(p)' = IF p = o THEN c ELSE TipAnswer(p)
    BY <1>5, <2>2 DEF SameAnswers, TipAnswer, TopBase
  <2>4. \A p \in Outpoint : /\ EntryOK(coins'["view"][p], TipAnswer(p)')
                            /\ ViewAnswer(p)' = TipAnswer(p)' /\ ViewAnswer(p) = TipAnswer(p)
    BY <2>2 DEF EntryOK, ViewAnswer, Answer, EmptyCache
  <2>5. CacheInv'
    BY <1>3, <1>5, <2>2, <2>3, <2>4, StepRule
       DEF CacheInv, TypeOK, TipAnswer, ClosedEmpty, EmptyCache
  <2> QED
    BY <1>1, <1>5, <2>3, <2>4, <2>5 DEF Writes
<1> QED
  BY <1>4, <1>5

\* The entry of the topmost cache is sound over the cache below it.
LEMMA TopFacts ==
    ASSUME CacheInv, NEW o \in Outpoint
    PROVE  /\ TopBase(o) \in CoinOrSpent
           /\ EntryOK(coins[top][o], TopBase(o))
           /\ Answer(coins[top][o], TopBase(o)) = ViewAnswer(o)
           /\ EntryOK(FetchedEntry(top, o), TopBase(o))
           /\ FetchedEntry(top, o) = NoEntry => ViewAnswer(o) = Spent
<1>1. CASE open
  BY <1>1, StateFacts, FetchedFacts DEF TopBase, top, ViewAnswer
<1>2. CASE ~open
  <2>1. ViewAnswer(o) = TipAnswer(o)
    BY <1>2 DEF CacheInv, ClosedEmpty, EmptyCache, ViewAnswer, Answer
  <2> QED
    BY <1>2, <2>1, StateFacts, FetchedFacts DEF TopBase, top, TipAnswer
<1> QED
  BY <1>1, <1>2
-----------------------------------------------------------------------------
\* GetCoin, HaveCoin and AccessCoin preserve the invariant and are invisible.
LEMMA GetCoinStep ==
    ASSUME CacheInv, NEW o \in Outpoint, GetCoin(o)
    PROVE  CacheInv' /\ Invisible
BY FetchSame, SameStep DEF GetCoin

\* AddCoin preserves the invariant and writes the coin, or does nothing for an
\* unspendable one.
LEMMA AddCoinStep ==
    ASSUME CacheInv, NEW o \in Outpoint, NEW c \in Coin, NEW overwrite \in BOOLEAN,
           AddCoin(o, c, overwrite)
    PROVE  CacheInv' /\ (Invisible \/ (c \notin Unspendable /\ Writes(o, c)))
<1>1. CASE c \in Unspendable
  BY <1>1, CoinsSame, SameStep DEF AddCoin
<1>2. CASE c \notin Unspendable
  <2> DEFINE e == AddedEntry(coins[top][o], c, overwrite)
  <2>1. overwrite \/ ViewAnswer(o) = Spent
    BY StateFacts DEF AddCoin
  <2>2. EntryOK(e, TopBase(o)) /\ Answer(e, TopBase(o)) = c
    BY <1>2, <2>1, TopFacts, AddedOK
  <2>3. coins' = [coins EXCEPT ![top][o] = e]
    BY <1>2 DEF AddCoin
  <2> HIDE DEF e
  <2>4. UNCHANGED <<hashBlock, open, db, dbHash>>
    BY DEF AddCoin
  <2> QED
    BY <1>2, <2>2, <2>3, <2>4, CoinsSame, TopWrite
<1> QED
  BY <1>1, <1>2

\* SpendCoin preserves the invariant and writes Spent.
LEMMA SpendCoinStep ==
    ASSUME CacheInv, NEW o \in Outpoint, SpendCoin(o)
    PROVE  CacheInv' /\ Writes(o, Spent)
<1> DEFINE m == FetchCoin(o)
           e == m[top][o]
<1>1. SameAnswers(m) /\ e = FetchedEntry(top, o)
  BY FetchSame
<1>2. UNCHANGED <<hashBlock, open, db, dbHash>>
  BY DEF SpendCoin
<1>3. CASE e = NoEntry
  <2>1. CacheInv' /\ Invisible
    BY <1>1, <1>2, <1>3, SameStep DEF SpendCoin
  <2>2. ViewAnswer(o) = Spent
    BY <1>1, <1>3, TopFacts
  <2>3. ~open => TipAnswer(o) = ViewAnswer(o)
    BY DEF CacheInv, ClosedEmpty, EmptyCache, ViewAnswer, Answer
  <2> QED
    BY <2>1, <2>2, <2>3 DEF Invisible, Writes
<1>4. CASE e # NoEntry
  <2>1. e \in CCoinsCacheEntry /\ EntryOK(e, TopBase(o)) /\ TopBase(o) \in CoinOrSpent
    BY <1>1, <1>4, TopFacts DEF EntryOK
  <2>2. EntryOK(SpentEntry(e), TopBase(o)) /\ Answer(SpentEntry(e), TopBase(o)) = Spent
    BY <2>1, SpentOK
  <2>3. coins' = [m EXCEPT ![top][o] = SpentEntry(e)]
    BY <1>4 DEF SpendCoin
  <2> HIDE DEF m, e
  <2> QED
    BY <1>1, <1>2, <2>2, <2>3, TopWrite
<1> QED
  BY <1>3, <1>4

\* Uncache preserves the invariant and is invisible: an entry without flags
\* agrees with the base.
LEMMA UncacheStep ==
    ASSUME CacheInv, NEW o \in Outpoint, Uncache(o)
    PROVE  CacheInv' /\ Invisible
<1>1. /\ coins' = [coins EXCEPT ![top][o] = NoEntry]
      /\ UNCHANGED <<hashBlock, open, db, dbHash>>
      /\ coins[top][o] # NoEntry /\ ~coins[top][o].dirty
  BY DEF Uncache
<1>2. ViewAnswer(o) = TopBase(o)
  BY <1>1, TopFacts DEF EntryOK, Answer
<1>3. EntryOK(NoEntry, TopBase(o)) /\ Answer(NoEntry, TopBase(o)) = ViewAnswer(o)
  BY <1>2 DEF EntryOK, Answer
<1>4. CacheInv' /\ Writes(o, ViewAnswer(o))
  BY <1>1, <1>3, CoinsSame, TopWrite
<1>5. ~open => TipAnswer(o) = ViewAnswer(o)
  BY DEF CacheInv, ClosedEmpty, EmptyCache, ViewAnswer, Answer
<1> QED
  BY <1>4, <1>5 DEF Writes, Invisible

\* EmplaceCoinInternalDANGER preserves the invariant and writes the coin.
LEMMA EmplaceStep ==
    ASSUME CacheInv, NEW o \in Outpoint, NEW c \in Coin \ Unspendable, EmplaceCoinInternalDANGER(o, c)
    PROVE  CacheInv' /\ Writes(o, c)
<1>1. c \in CoinOrSpent /\ c # Spent
  BY ConstantsDistinct DEF CoinOrSpent
<1> DEFINE e == Entry(c, TRUE, FALSE)
<1>2. EntryOK(e, TopBase(o)) /\ Answer(e, TopBase(o)) = c
  BY <1>1, EntryFacts DEF EntryOK, Answer
<1>3. coins' = [coins EXCEPT ![top][o] = e]
  BY DEF EmplaceCoinInternalDANGER, top
<1>4. UNCHANGED <<hashBlock, open, db, dbHash>>
  BY DEF EmplaceCoinInternalDANGER
<1> HIDE DEF e
<1> QED
  BY <1>2, <1>3, <1>4, CoinsSame, TopWrite

\* GetBestBlock, which caches the hash, preserves the invariant and is invisible.
LEMMA GetBestBlockStep ==
    ASSUME CacheInv, GetBestBlock
    PROVE  CacheInv' /\ Invisible
<1>1. UNCHANGED <<coins, usage, open, db, dbHash>>
  BY DEF GetBestBlock
<1>2. TipBlock \in Hash \cup {NullHash} /\ ViewBlock \in Hash \cup {NullHash}
  BY DEF TipBlock, ViewBlock, top, CacheInv, TypeOK, Level
<1>3. hashBlock' \in [Level -> Hash \cup {NullHash}]
  BY <1>2 DEF GetBestBlock, CacheInv, TypeOK, Level
<1>4. hashBlock'["view"] = IF open THEN ViewBlock ELSE hashBlock["view"]
  BY DEF GetBestBlock, top, Level
<1>5. hashBlock'["tip"] = hashBlock["tip"] \/ hashBlock'["tip"] = TipBlock
  BY DEF GetBestBlock, top, Level, ViewBlock, TipBlock
<1>6. TipBlock' = TipBlock
  BY <1>1, <1>5 DEF TipBlock
<1>7. ViewBlock' = ViewBlock
  BY <1>1, <1>4, <1>6, StateFacts DEF ViewBlock, top, CacheInv, ClosedEmpty, TipBlock
<1>8. CacheInv'
  BY <1>1, <1>3, <1>4, StepRule DEF CacheInv, TypeOK, EntriesOK, ClosedEmpty, EmptyCache
<1> QED
  BY <1>1, <1>6, <1>7, <1>8 DEF Invisible, TipAnswer, ViewAnswer

\* SetBestBlock preserves the invariant and sets the block of the topmost view.
LEMMA SetBestBlockStep ==
    ASSUME CacheInv, NEW h \in Hash, SetBestBlock(h)
    PROVE  /\ CacheInv'
           /\ \A p \in Outpoint : TipAnswer(p)' = TipAnswer(p) /\ ViewAnswer(p)' = ViewAnswer(p)
           /\ ViewBlock' = h /\ TipBlock' = (IF open THEN TipBlock ELSE h) /\ open' = open
<1>1. UNCHANGED <<coins, usage, open, db, dbHash>> /\ hashBlock' = [hashBlock EXCEPT ![top] = h]
  BY DEF SetBestBlock
<1>2. hashBlock' \in [Level -> Hash \cup {NullHash}] /\ top \in Level /\ h # NullHash
  BY <1>1, ConstantsDistinct DEF CacheInv, TypeOK, Level, top
<1>3. /\ hashBlock'["view"] = IF open THEN h ELSE hashBlock["view"]
      /\ hashBlock'["tip"] = IF open THEN hashBlock["tip"] ELSE h
  BY <1>1 DEF CacheInv, TypeOK, Level, top
<1>4. CacheInv'
  BY <1>1, <1>2, <1>3, StepRule DEF CacheInv, TypeOK, EntriesOK, ClosedEmpty, EmptyCache
<1>5. ViewBlock' = h /\ TipBlock' = (IF open THEN TipBlock ELSE h)
  BY <1>1, <1>2, <1>3 DEF ViewBlock, TipBlock, top
<1> QED
  BY <1>1, <1>4, <1>5 DEF TipAnswer, ViewAnswer

\* A step that publishes the coins and the block of the view in CoinsTip().
Publishes == /\ \A p \in Outpoint : TipAnswer(p)' = ViewAnswer(p) /\ ViewAnswer(p)' = ViewAnswer(p)
             /\ TipBlock' = ViewBlock /\ ViewBlock' = ViewBlock /\ open /\ open'

\* Flush and Sync of the view: it stands for what is left in the view.
LEMMA WriteView ==
    ASSUME CacheInv, open, hashBlock["view"] # NullHash,
           NEW m \in [Outpoint -> CCoinsCacheEntry \cup {NoEntry}],
           \A p \in Outpoint : /\ EntryOK(m[p], ViewAnswer(p))
                               /\ Answer(m[p], ViewAnswer(p)) = ViewAnswer(p),
           coins' = [coins EXCEPT !["tip"] = BatchWrite(coins["tip"], coins["view"]), !["view"] = m],
           hashBlock' = [hashBlock EXCEPT !["tip"] = hashBlock["view"]],
           UNCHANGED <<open, db, dbHash>>
    PROVE  CacheInv' /\ Publishes
<1> DEFINE t(p) == MergedEntry(coins["tip"][p], coins["view"][p])
<1>1. \A p \in Outpoint : /\ EntryOK(t(p), db[p])
                          /\ Answer(t(p), db[p]) = ViewAnswer(p)
  BY StateFacts, MergedOK DEF TipAnswer, ViewAnswer
<1>2. \A p \in Outpoint : t(p) \in CCoinsCacheEntry \cup {NoEntry}
  BY <1>1 DEF EntryOK
<1>3. BatchWrite(coins["tip"], coins["view"]) = [p \in Outpoint |-> t(p)]
  BY DEF BatchWrite
<1> HIDE DEF t
<1>4. coins' \in [Level -> [Outpoint -> CCoinsCacheEntry \cup {NoEntry}]]
  BY <1>2, <1>3 DEF CacheInv, TypeOK, Level
<1>5. coins'["view"] = m /\ \A p \in Outpoint : coins'["tip"][p] = t(p)
  BY <1>3 DEF CacheInv, TypeOK, Level
<1>6. \A p \in Outpoint : /\ EntryOK(coins'["tip"][p], db'[p])
                          /\ TipAnswer(p)' = ViewAnswer(p)
                          /\ EntryOK(coins'["view"][p], TipAnswer(p)')
                          /\ ViewAnswer(p)' = ViewAnswer(p)
  BY <1>1, <1>5 DEF TipAnswer, ViewAnswer
<1>7. hashBlock' \in [Level -> Hash \cup {NullHash}]
  BY DEF CacheInv, TypeOK, Level
<1>8. CacheInv'
  BY <1>4, <1>6, <1>7, StepRule DEF CacheInv, TypeOK, ClosedEmpty, TipAnswer
<1>9. TipBlock' = ViewBlock /\ ViewBlock' = ViewBlock
  BY DEF TipBlock, ViewBlock, top, CacheInv, TypeOK, Level
<1> QED
  BY <1>6, <1>8, <1>9 DEF Publishes

\* Flush of the view preserves the invariant and publishes its coins and block.
LEMMA FlushViewStep == ASSUME CacheInv, FlushView PROVE CacheInv' /\ Publishes
<1>1. EmptyCache \in [Outpoint -> CCoinsCacheEntry \cup {NoEntry}]
  BY DEF EmptyCache
<1>2. \A p \in Outpoint : /\ EntryOK(EmptyCache[p], ViewAnswer(p))
                          /\ Answer(EmptyCache[p], ViewAnswer(p)) = ViewAnswer(p)
  BY DEF EmptyCache, EntryOK, Answer
<1>3. /\ open /\ hashBlock["view"] # NullHash
      /\ coins' = [coins EXCEPT !["tip"] = BatchWrite(coins["tip"], coins["view"]),
                                !["view"] = EmptyCache]
      /\ hashBlock' = [hashBlock EXCEPT !["tip"] = hashBlock["view"]]
      /\ UNCHANGED <<open, db, dbHash>>
  BY DEF FlushView
<1> QED
  BY <1>1, <1>2, <1>3, WriteView

\* Sync of the view does the same and keeps the view's unspent coins.
LEMMA SyncViewStep == ASSUME CacheInv, SyncView PROVE CacheInv' /\ Publishes
<1> DEFINE m == SyncedCache(coins["view"])
<1>1. \A p \in Outpoint : /\ EntryOK(m[p], ViewAnswer(p))
                          /\ Answer(m[p], ViewAnswer(p)) = ViewAnswer(p)
  BY StateFacts, SyncedOK DEF SyncedCache, ViewAnswer
<1>2. m \in [Outpoint -> CCoinsCacheEntry \cup {NoEntry}]
  BY <1>1 DEF EntryOK, SyncedCache
<1>3. /\ open /\ hashBlock["view"] # NullHash
      /\ coins' = [coins EXCEPT !["tip"] = BatchWrite(coins["tip"], coins["view"]),
                                !["view"] = m]
      /\ hashBlock' = [hashBlock EXCEPT !["tip"] = hashBlock["view"]]
      /\ UNCHANGED <<open, db, dbHash>>
  BY DEF SyncView, CacheInv, TypeOK, Level
<1> HIDE DEF m
<1> QED
  BY <1>1, <1>2, <1>3, WriteView

\* Flush and Sync of CoinsTip(): m stands for what is left in it.
LEMMA WriteTip ==
    ASSUME CacheInv, ~open, TipBlock # NullHash,
           NEW m \in [Outpoint -> CCoinsCacheEntry \cup {NoEntry}],
           \A p \in Outpoint : /\ EntryOK(m[p], TipAnswer(p))
                               /\ Answer(m[p], TipAnswer(p)) = TipAnswer(p),
           db' = BatchWriteDB(coins["tip"]),
           dbHash' = TipBlock,
           coins' = [coins EXCEPT !["tip"] = m],
           hashBlock' = [hashBlock EXCEPT !["tip"] = TipBlock],
           UNCHANGED open
    PROVE  CacheInv' /\ Invisible
<1>1. \A p \in Outpoint : db'[p] = TipAnswer(p)
  BY StateFacts DEF BatchWriteDB, TipAnswer, Answer, EntryOK
<1>2. db' \in [Outpoint -> CoinOrSpent]
  BY <1>1, StateFacts DEF BatchWriteDB
<1>3. coins' \in [Level -> [Outpoint -> CCoinsCacheEntry \cup {NoEntry}]]
  BY DEF CacheInv, TypeOK, Level
<1>4. coins'["tip"] = m /\ coins'["view"] = EmptyCache /\ coins["view"] = EmptyCache
  BY DEF CacheInv, TypeOK, Level, ClosedEmpty
<1>5. \A p \in Outpoint : /\ EntryOK(coins'["tip"][p], db'[p])
                          /\ TipAnswer(p)' = TipAnswer(p)
  BY <1>1, <1>4 DEF TipAnswer
<1>6. \A p \in Outpoint : /\ EntryOK(coins'["view"][p], TipAnswer(p)')
                          /\ ViewAnswer(p)' = ViewAnswer(p)
  BY <1>4, <1>5 DEF ViewAnswer, Answer, EntryOK, EmptyCache
<1>7. TipBlock \in Hash \cup {NullHash} /\ hashBlock' \in [Level -> Hash \cup {NullHash}]
  BY DEF TipBlock, CacheInv, TypeOK, Level
<1>8. hashBlock'["tip"] = TipBlock /\ hashBlock'["view"] = NullHash /\ hashBlock["view"] = NullHash
  BY DEF CacheInv, TypeOK, Level, ClosedEmpty
<1>9. CacheInv'
  BY <1>2, <1>3, <1>4, <1>5, <1>6, <1>7, <1>8, StepRule
     DEF CacheInv, TypeOK, ClosedEmpty, TipAnswer, EmptyCache
<1>10. TipBlock' = TipBlock /\ ViewBlock' = ViewBlock
  BY <1>8 DEF TipBlock, ViewBlock, top
<1> QED
  BY <1>5, <1>6, <1>9, <1>10 DEF Invisible

\* Flush of CoinsTip() to the database preserves the invariant and is invisible.
LEMMA FlushTipStep == ASSUME CacheInv, FlushTip PROVE CacheInv' /\ Invisible
<1>1. EmptyCache \in [Outpoint -> CCoinsCacheEntry \cup {NoEntry}]
  BY DEF EmptyCache
<1>2. \A p \in Outpoint : /\ EntryOK(EmptyCache[p], TipAnswer(p))
                          /\ Answer(EmptyCache[p], TipAnswer(p)) = TipAnswer(p)
  BY DEF EmptyCache, EntryOK, Answer
<1> QED
  BY <1>1, <1>2, WriteTip DEF FlushTip

\* Sync of CoinsTip() to the database preserves the invariant and is invisible.
LEMMA SyncTipStep == ASSUME CacheInv, SyncTip PROVE CacheInv' /\ Invisible
<1> DEFINE m == SyncedCache(coins["tip"])
<1>1. \A p \in Outpoint : /\ EntryOK(m[p], TipAnswer(p))
                          /\ Answer(m[p], TipAnswer(p)) = TipAnswer(p)
  BY StateFacts, SyncedOK DEF SyncedCache, TipAnswer
<1>2. m \in [Outpoint -> CCoinsCacheEntry \cup {NoEntry}]
  BY <1>1 DEF EntryOK, SyncedCache
<1>3. coins' = [coins EXCEPT !["tip"] = m]
  BY DEF SyncTip
<1> HIDE DEF m
<1> QED
  BY <1>1, <1>2, <1>3, WriteTip DEF SyncTip

\* Constructing the view preserves the invariant and changes no answer.
LEMMA OpenViewStep ==
    ASSUME CacheInv, OpenView
    PROVE  /\ CacheInv' /\ ~open /\ open'
           /\ \A p \in Outpoint : TipAnswer(p)' = TipAnswer(p) /\ ViewAnswer(p)' = ViewAnswer(p)
           /\ TipBlock' = TipBlock /\ ViewBlock' = ViewBlock
<1>1. ~open /\ open' /\ open' \in BOOLEAN /\ UNCHANGED <<coins, hashBlock, db, dbHash>>
  BY DEF OpenView
<1>2. CacheInv'
  BY <1>1, StepRule DEF CacheInv, TypeOK, EntriesOK, ClosedEmpty
<1>3. TipBlock' = TipBlock /\ ViewBlock' = ViewBlock
  BY <1>1, <1>2, StateFacts DEF TipBlock, ViewBlock, top, CacheInv, ClosedEmpty
<1> QED
  BY <1>1, <1>2, <1>3 DEF TipAnswer, ViewAnswer

\* Destroying the view preserves the invariant and leaves the answers of
\* CoinsTip() as they were.
LEMMA CloseViewStep ==
    ASSUME CacheInv, CloseView
    PROVE  /\ CacheInv' /\ open /\ ~open'
           /\ \A p \in Outpoint : TipAnswer(p)' = TipAnswer(p) /\ ViewAnswer(p)' = TipAnswer(p)
           /\ TipBlock' = TipBlock /\ ViewBlock' = TipBlock
<1>1. /\ open /\ open' = FALSE /\ UNCHANGED <<db, dbHash>>
      /\ coins'["view"] = EmptyCache /\ coins'["tip"] = coins["tip"]
      /\ hashBlock'["view"] = NullHash /\ hashBlock'["tip"] = hashBlock["tip"]
  BY DEF CloseView, CacheInv, TypeOK, Level
<1>2. /\ coins' \in [Level -> [Outpoint -> CCoinsCacheEntry \cup {NoEntry}]]
      /\ hashBlock' \in [Level -> Hash \cup {NullHash}]
  BY DEF CloseView, CacheInv, TypeOK, Level, EmptyCache
<1>3. \A p \in Outpoint : /\ EntryOK(coins'["tip"][p], db'[p])
                          /\ TipAnswer(p)' = TipAnswer(p)
                          /\ EntryOK(coins'["view"][p], TipAnswer(p)')
                          /\ ViewAnswer(p)' = TipAnswer(p)
  BY <1>1, StateFacts DEF TipAnswer, ViewAnswer, Answer, EntryOK, EmptyCache
<1>4. CacheInv'
  BY <1>1, <1>2, <1>3, StepRule DEF CacheInv, TypeOK, ClosedEmpty, TipAnswer, EmptyCache
<1>5. TipBlock' = TipBlock /\ ViewBlock' = TipBlock
  BY <1>1 DEF TipBlock, ViewBlock, top
<1> QED
  BY <1>1, <1>3, <1>4, <1>5
-----------------------------------------------------------------------------
\* Empty caches over any database satisfy the invariant.
LEMMA InitInv == Init => CacheInv
<1> SUFFICES ASSUME Init PROVE CacheInv
  OBVIOUS
<1>1. \A l \in Level, o \in Outpoint : coins[l][o] = NoEntry
  BY DEF Init, EmptyCache
<1>2. TypeOK
  BY DEF Init, TypeOK, EmptyCache, CoinOrSpent
<1>3. EntriesOK
  BY <1>1 DEF EntriesOK, EntryOK, Level
<1>4. ClosedEmpty
  BY DEF Init, ClosedEmpty, Level
<1> QED
  BY <1>2, <1>3, <1>4 DEF CacheInv

\* Every operation on the caches preserves the inductive invariant.
LEMMA NextInv == CacheInv /\ [Next]_vars => CacheInv'
<1> SUFFICES ASSUME CacheInv, [Next]_vars PROVE CacheInv'
  OBVIOUS
<1>1. ASSUME NEW o \in Outpoint, GetCoin(o) \/ SpendCoin(o) \/ Uncache(o) PROVE CacheInv'
  BY <1>1, GetCoinStep, SpendCoinStep, UncacheStep
<1>2. ASSUME NEW o \in Outpoint, NEW c \in Coin, NEW overwrite \in BOOLEAN,
             AddCoin(o, c, overwrite)
      PROVE  CacheInv'
  BY <1>2, AddCoinStep
<1>3. ASSUME NEW o \in Outpoint, NEW c \in Coin \ Unspendable, EmplaceCoinInternalDANGER(o, c)
      PROVE  CacheInv'
  BY <1>3, EmplaceStep
<1>4. CASE GetBestBlock
  BY <1>4, GetBestBlockStep
<1>5. ASSUME NEW h \in Hash, SetBestBlock(h) PROVE CacheInv'
  BY <1>5, SetBestBlockStep
<1>6. CASE FlushView \/ SyncView \/ FlushTip \/ SyncTip
  BY <1>6, FlushViewStep, SyncViewStep, FlushTipStep, SyncTipStep
<1>7. CASE OpenView \/ CloseView
  BY <1>7, OpenViewStep, CloseViewStep
<1>8. CASE UNCHANGED vars
  BY <1>8 DEF vars, CacheInv, TypeOK, EntriesOK, ClosedEmpty, EmptyCache
<1> QED
  BY <1>1, <1>2, <1>3, <1>4, <1>5, <1>6, <1>7, <1>8 DEF Next

\* In every reachable state the caches satisfy the inductive invariant.
THEOREM InvHolds == Spec => []CacheInv
BY InitInv, NextInv, PTL DEF Spec

\* The caches always hold well-formed entries (CCoinsCacheEntry) and the
\* database, for each outpoint, an unspent coin or none.
THEOREM TypeCorrect == Spec => []TypeOK
<1>1. CacheInv => TypeOK
  BY DEF CacheInv
<1> QED
  BY <1>1, InvHolds, PTL

\* The coins below a cache, by level, as FreshSound and CleanSound name them.
LEMMA LevelFacts ==
    ASSUME CacheInv, NEW l \in Level, NEW o \in Outpoint, coins[l][o] # NoEntry
    PROVE  EntryOK(coins[l][o], BaseCoins(l)[o])
BY StateFacts DEF BaseCoins, Level

\* FRESH is never set on an entry whose base still has the coin, so SpendCoin
\* and BatchWrite may drop such an entry when it is spent (coins.h, FRESH).
THEOREM FreshSoundHolds == Spec => []FreshSound
<1>1. CacheInv => FreshSound
  BY LevelFacts DEF FreshSound, EntryOK
<1> QED
  BY <1>1, InvHolds, PTL

\* An entry that is not DIRTY agrees with its base, so Uncache, Flush and Sync
\* may forget it (coins.h, DIRTY).
THEOREM CleanSoundHolds == Spec => []CleanSound
<1>1. CacheInv => CleanSound
  BY LevelFacts DEF CleanSound, EntryOK
<1> QED
  BY <1>1, InvHolds, PTL

\* The assertion of CCoinsViewCache::SanityCheck on the flags of every entry
\* can never fail.
THEOREM SanityCheckHolds == Spec => []SanityCheck
<1>1. CacheInv => SanityCheck
  BY LevelFacts DEF SanityCheck, EntryOK
<1> QED
  BY <1>1, InvHolds, PTL
-----------------------------------------------------------------------------
\* The variables of UtxoSet under the refinement mapping.
absVars == <<TipCoins, TipBlock, ViewCoins, ViewBlock, open>>

\* The refinement mapping in terms of TipAnswer and ViewAnswer.
AbsFacts == /\ TipCoins = [o \in Outpoint |-> TipAnswer(o)]
            /\ ViewCoins = [o \in Outpoint |-> ViewAnswer(o)]

\* The inductive invariant gives those equations before a step ...
LEMMA InvAbs == CacheInv => AbsFacts
BY StateFacts DEF AbsFacts

\* ... and after it.
LEMMA InvAbsNext == CacheInv' => AbsFacts'
BY InvAbs, PTL

\* The two maps of coins before and after a step, answer by answer.
LEMMA AbsStep ==
    ASSUME CacheInv, CacheInv'
    PROVE  /\ TipCoins = [o \in Outpoint |-> TipAnswer(o)]
           /\ ViewCoins = [o \in Outpoint |-> ViewAnswer(o)]
           /\ TipCoins' = [o \in Outpoint |-> TipAnswer(o)']
           /\ ViewCoins' = [o \in Outpoint |-> ViewAnswer(o)']
BY InvAbs, InvAbsNext DEF AbsFacts

\* An invisible step (a lookup, Uncache, Flush of CoinsTip()) is a stuttering
\* step of UtxoSet.
LEMMA InvisibleStutters ==
    ASSUME CacheInv, CacheInv', Invisible PROVE UNCHANGED absVars
BY AbsStep DEF Invisible, absVars

\* A step that writes one coin of the topmost view is a Put of UtxoSet.
LEMMA WritesPut ==
    ASSUME CacheInv, CacheInv', NEW o \in Outpoint, NEW c \in CoinOrSpent, Writes(o, c)
    PROVE  Utxo!Put(o, c)
<1>1. ViewCoins' = [ViewCoins EXCEPT ![o] = c]
  BY AbsStep DEF Writes
<1>2. TipCoins' = IF open THEN TipCoins ELSE ViewCoins'
  <2>1. ~open => \A p \in Outpoint : ViewAnswer(p) = TipAnswer(p)
    BY DEF CacheInv, ClosedEmpty, EmptyCache, ViewAnswer, Answer
  <2> QED
    BY <2>1, AbsStep DEF Writes
<1> QED
  BY <1>1, <1>2 DEF Writes, Utxo!Put

\* Flush or Sync of the view is a Commit of UtxoSet.
LEMMA PublishesCommit ==
    ASSUME CacheInv, CacheInv', Publishes PROVE Utxo!Commit
BY AbsStep DEF Publishes, Utxo!Commit

\* The initial states of the caches map to initial states of UtxoSet.
LEMMA InitRefines == Init => Utxo!AInit
<1> SUFFICES ASSUME Init PROVE Utxo!AInit
  OBVIOUS
<1>1. CacheInv /\ ~open
  BY InitInv DEF Init
<1>2. TipCoins \in [Outpoint -> Coin \cup {Spent}]
  BY <1>1, StateFacts DEF CoinOrSpent
<1>3. ViewCoins = TipCoins
  BY <1>1, StateFacts DEF CacheInv, ClosedEmpty, EmptyCache, ViewAnswer, Answer
<1>4. ViewBlock = TipBlock /\ TipBlock \in Hash \cup {NullHash}
  BY <1>1, StateFacts DEF CacheInv, TypeOK, ClosedEmpty, TipBlock, Level
<1> QED
  BY <1>1, <1>2, <1>3, <1>4 DEF Utxo!AInit, Init

\* Every operation on the caches maps to a step of UtxoSet or to a stutter.
LEMMA NextRefines == CacheInv /\ [Next]_vars => [Utxo!ANext]_(Utxo!avars)
<1> SUFFICES ASSUME CacheInv, [Next]_vars PROVE Utxo!ANext \/ UNCHANGED absVars
  BY DEF Utxo!avars, absVars
<1>0. CacheInv'
  BY NextInv
<1>1. ASSUME NEW o \in Outpoint, GetCoin(o) \/ Uncache(o) PROVE UNCHANGED absVars
  BY <1>0, <1>1, GetCoinStep, UncacheStep, InvisibleStutters
<1>2. ASSUME NEW o \in Outpoint, SpendCoin(o) PROVE Utxo!ANext
  <2>1. Spent \in CoinOrSpent
    BY DEF CoinOrSpent
  <2>2. Utxo!Put(o, Spent)
    BY <1>0, <1>2, <2>1, SpendCoinStep, WritesPut
  <2> QED
    BY <2>1, <2>2 DEF Utxo!ANext, CoinOrSpent
<1>3. ASSUME NEW o \in Outpoint, NEW c \in Coin \ Unspendable, Writes(o, c) PROVE Utxo!ANext
  <2>1. c \in CoinOrSpent
    BY DEF CoinOrSpent
  <2>2. Utxo!Put(o, c)
    BY <1>0, <1>3, <2>1, WritesPut
  <2> QED
    BY <2>1, <2>2 DEF Utxo!ANext, CoinOrSpent
<1>4. ASSUME NEW o \in Outpoint, NEW c \in Coin, NEW overwrite \in BOOLEAN,
             AddCoin(o, c, overwrite)
      PROVE  Utxo!ANext \/ UNCHANGED absVars
  BY <1>0, <1>3, <1>4, AddCoinStep, InvisibleStutters
<1>5. ASSUME NEW o \in Outpoint, NEW c \in Coin \ Unspendable, EmplaceCoinInternalDANGER(o, c)
      PROVE  Utxo!ANext
  BY <1>3, <1>5, EmplaceStep
<1>6. CASE GetBestBlock
  BY <1>0, <1>6, GetBestBlockStep, InvisibleStutters
<1>7. ASSUME NEW h \in Hash, SetBestBlock(h) PROVE Utxo!ANext
  <2>1. Utxo!SetBest(h)
    BY <1>0, <1>7, SetBestBlockStep, AbsStep DEF Utxo!SetBest
  <2> QED
    BY <2>1 DEF Utxo!ANext
<1>8. CASE FlushView \/ SyncView
  BY <1>0, <1>8, FlushViewStep, SyncViewStep, PublishesCommit DEF Utxo!ANext
<1>9. CASE FlushTip \/ SyncTip
  BY <1>0, <1>9, FlushTipStep, SyncTipStep, InvisibleStutters
<1>10. CASE OpenView
  <2>1. Utxo!Open
    BY <1>0, <1>10, OpenViewStep, AbsStep DEF Utxo!Open, OpenView
  <2> QED
    BY <2>1 DEF Utxo!ANext
<1>11. CASE CloseView
  <2>1. Utxo!Discard
    BY <1>0, <1>11, CloseViewStep, AbsStep DEF Utxo!Discard, CloseView
  <2> QED
    BY <2>1 DEF Utxo!ANext
<1>12. CASE UNCHANGED vars
  BY <1>12 DEF vars, absVars, TipCoins, ViewCoins, TipBlock, ViewBlock, Lookup, BaseCoins, top
<1> QED
  BY <1>1, <1>2, <1>4, <1>5, <1>6, <1>7, <1>8, <1>9, <1>10, <1>11, <1>12 DEF Next

\* The stack of caches implements UtxoSet: no sequence of lookups, additions,
\* spends, evictions and flushes shows its users anything but one map of coins
\* with one scratch view over it.
THEOREM Refinement == Spec => RefinesUtxoSet
BY InvHolds, InitRefines, NextRefines, PTL DEF Spec, RefinesUtxoSet, Utxo!ASpec
-----------------------------------------------------------------------------
\* The memory of the coins in a cache, outpoint by outpoint and together.
Bytes(m) == [o \in Outpoint |-> DynamicMemoryUsage(CoinIn(m[o]))]
CacheBytes(m) == SumFunctionOnSet(Bytes(m), Outpoint)

EntryMap == [Outpoint -> CCoinsCacheEntry \cup {NoEntry}]

\* cachedCoinsUsage of each cache is the memory of what it holds.
UsageInv == /\ usage \in [Level -> Int]
            /\ usage["tip"] = CacheBytes(coins["tip"])
            /\ usage["view"] = CacheBytes(coins["view"])

\* The memory of an entry's coin is a natural number.
LEMMA EntryBytes ==
    ASSUME NEW e \in CCoinsCacheEntry \cup {NoEntry}
    PROVE  CoinIn(e) \in CoinOrSpent /\ DynamicMemoryUsage(CoinIn(e)) \in Nat
<1>1. CoinIn(e) \in CoinOrSpent
  BY FieldFacts DEF CoinIn, CoinOrSpent
<1> QED
  BY <1>1, UsageType DEF DynamicMemoryUsage, CoinOrSpent

\* So is the memory of a cache.
LEMMA BytesType ==
    ASSUME NEW m \in EntryMap
    PROVE  /\ \A o \in Outpoint : Bytes(m)[o] \in Int
           /\ CacheBytes(m) \in Int
<1>1. \A o \in Outpoint : Bytes(m)[o] \in Int
  BY EntryBytes DEF Bytes, EntryMap
<1> QED
  BY <1>1, OutpointsFinite, SumType DEF CacheBytes

\* Replacing one entry changes it by the difference of the two.
LEMMA PutBytes ==
    ASSUME NEW m \in EntryMap, NEW o \in Outpoint, NEW e \in CCoinsCacheEntry \cup {NoEntry}
    PROVE  CacheBytes([m EXCEPT ![o] = e]) =
               CacheBytes(m) - DynamicMemoryUsage(CoinIn(m[o])) + DynamicMemoryUsage(CoinIn(e))
<1> DEFINE n == [m EXCEPT ![o] = e]
<1>1. n \in EntryMap /\ n[o] = e /\ \A p \in Outpoint \ {o} : n[p] = m[p]
  BY DEF EntryMap
<1> HIDE DEF n
<1>2. /\ Bytes(n)[o] = DynamicMemoryUsage(CoinIn(e))
      /\ Bytes(m)[o] = DynamicMemoryUsage(CoinIn(m[o]))
      /\ \A p \in Outpoint \ {o} : Bytes(n)[p] = Bytes(m)[p]
  BY <1>1 DEF Bytes
<1>3. CacheBytes(n) = CacheBytes(m) - Bytes(m)[o] + Bytes(n)[o]
  BY <1>1, <1>2, BytesType, OutpointsFinite, SumUpdate DEF CacheBytes
<1> QED
  BY <1>2, <1>3 DEF n

\* An empty cache holds nothing.
LEMMA EmptyBytes == CacheBytes(EmptyCache) = 0
<1>1. \A o \in Outpoint : Bytes(EmptyCache)[o] = 0
  BY DEF Bytes, EmptyCache, CoinIn, DynamicMemoryUsage
<1> QED
  BY <1>1, OutpointsFinite, SumZeros DEF CacheBytes

\* Sync erases only entries that hold no script.
LEMMA SyncedBytes ==
    ASSUME NEW m \in EntryMap
    PROVE  CacheBytes(SyncedCache(m)) = CacheBytes(m)
<1>1. \A o \in Outpoint : CoinIn(SyncedEntry(m[o])) = CoinIn(m[o])
  <2> TAKE o \in Outpoint
  <2> DEFINE e == m[o]
  <2>1. e \in CCoinsCacheEntry \cup {NoEntry}
    BY DEF EntryMap
  <2> HIDE DEF e
  <2>2. CASE e = NoEntry
    BY <2>2 DEF SyncedEntry, CoinIn, e
  <2>3. CASE e # NoEntry /\ e.coin = Spent
    BY <2>3 DEF SyncedEntry, CoinIn, e
  <2>4. CASE e # NoEntry /\ e.coin # Spent
    <3>1. e.coin \in CoinOrSpent
      BY <2>1, <2>4, FieldFacts
    <3>2. Entry(e.coin, FALSE, FALSE) # NoEntry /\ Entry(e.coin, FALSE, FALSE).coin = e.coin
      BY <3>1, EntryFacts
    <3>3. SyncedEntry(e) = Entry(e.coin, FALSE, FALSE) /\ CoinIn(e) = e.coin
      BY <2>4 DEF SyncedEntry, CoinIn
    <3>4. CoinIn(SyncedEntry(e)) = e.coin
      BY <3>2, <3>3 DEF CoinIn
    <3> QED BY <3>3, <3>4 DEF e
  <2> QED BY <2>2, <2>3, <2>4
<1>2. \A o \in Outpoint : Bytes(m)[o] = Bytes(SyncedCache(m))[o]
  BY <1>1 DEF Bytes, SyncedCache
<1>3. SumFunctionOnSet(Bytes(m), Outpoint) = SumFunctionOnSet(Bytes(SyncedCache(m)), Outpoint)
  BY <1>2, BytesType, OutpointsFinite, SumSame
<1> QED
  BY <1>3 DEF CacheBytes

\* The coin of a constructed entry.
LEMMA CoinInEntry ==
    ASSUME NEW c \in CoinOrSpent, NEW d \in BOOLEAN, NEW f \in BOOLEAN
    PROVE  CoinIn(Entry(c, d, f)) = c
BY EntryFacts DEF CoinIn

\* What BatchWrite adds to the parent's usage for an entry is what the merged
\* entry holds more than the parent's.
LEMMA MergedBytes ==
    ASSUME NEW us \in CCoinsCacheEntry \cup {NoEntry}, NEW it \in CCoinsCacheEntry \cup {NoEntry}
    PROVE  /\ MergeUsage(us, it) \in Int
           /\ DynamicMemoryUsage(CoinIn(MergedEntry(us, it))) =
                  DynamicMemoryUsage(CoinIn(us)) + MergeUsage(us, it)
<1>1. /\ DynamicMemoryUsage(CoinIn(us)) \in Nat /\ DynamicMemoryUsage(CoinIn(it)) \in Nat
      /\ DynamicMemoryUsage(Spent) = 0 /\ CoinIn(NoEntry) = Spent
  BY EntryBytes DEF DynamicMemoryUsage, CoinIn
<1>2. CASE it = NoEntry \/ ~it.dirty
  <2>1. MergeUsage(us, it) = 0
    BY <1>2 DEF MergeUsage
  <2>2. MergedEntry(us, it) = us
    BY <1>2 DEF MergedEntry
  <2> QED BY <1>1, <2>1, <2>2
<1>3. CASE it # NoEntry /\ it.dirty /\ us = NoEntry
  <2>1. it \in CCoinsCacheEntry /\ CoinIn(it) = it.coin
    BY <1>3 DEF CoinIn
  <2>2. MergeUsage(us, it) = DynamicMemoryUsage(it.coin)
    BY <1>3 DEF MergeUsage
  <2>3. CoinIn(MergedEntry(us, it)) = it.coin
    <3>1. MergedEntry(us, it) = IF it.fresh /\ it.coin = Spent THEN NoEntry
                                           ELSE Entry(it.coin, TRUE, it.fresh)
      BY <1>3 DEF MergedEntry
    <3>2. CoinIn(Entry(it.coin, TRUE, it.fresh)) = it.coin
      BY <2>1, CoinInEntry, FieldFacts
    <3> QED BY <1>1, <3>1, <3>2
  <2> QED BY <1>1, <1>3, <2>1, <2>2, <2>3
<1>4. CASE it # NoEntry /\ it.dirty /\ us # NoEntry
  <2>1. /\ it \in CCoinsCacheEntry /\ CoinIn(it) = it.coin
        /\ us \in CCoinsCacheEntry /\ CoinIn(us) = us.coin
    BY <1>4 DEF CoinIn
  <2>2. CoinIn(MergedEntry(us, it)) = it.coin
    <3>1. MergedEntry(us, it) = IF us.fresh /\ it.coin = Spent THEN NoEntry
                                           ELSE Entry(it.coin, TRUE, us.fresh)
      BY <1>4 DEF MergedEntry
    <3>2. CoinIn(Entry(it.coin, TRUE, us.fresh)) = it.coin
      BY <2>1, CoinInEntry, FieldFacts
    <3> QED BY <1>1, <3>1, <3>2
  <2>3. MergeUsage(us, it) = IF us.fresh /\ it.coin = Spent
                               THEN 0 - DynamicMemoryUsage(us.coin)
                               ELSE DynamicMemoryUsage(it.coin) - DynamicMemoryUsage(us.coin)
    BY <1>4 DEF MergeUsage
  <2> QED BY <1>1, <2>1, <2>2, <2>3
<1> QED
  BY <1>2, <1>3, <1>4

\* Over all outpoints: BatchWriteUsage is the growth of the parent.
LEMMA BatchBytes ==
    ASSUME NEW us \in EntryMap, NEW them \in EntryMap
    PROVE  CacheBytes(BatchWrite(us, them)) = CacheBytes(us) + BatchWriteUsage(us, them)
<1> DEFINE g == [o \in Outpoint |-> MergeUsage(us[o], them[o])]
           f == Bytes(us)
           h == Bytes(BatchWrite(us, them))
<1>1. \A o \in Outpoint : us[o] \in CCoinsCacheEntry \cup {NoEntry} /\ them[o] \in CCoinsCacheEntry \cup {NoEntry}
  BY DEF EntryMap
<1>2. \A o \in Outpoint : g[o] \in Int
  BY <1>1, MergedBytes
<1>3. \A o \in Outpoint : h[o] = f[o] + g[o]
  BY <1>1, MergedBytes DEF Bytes, BatchWrite
<1>4. \A o \in Outpoint : f[o] \in Int
  BY BytesType
<1>5. BatchWriteUsage(us, them) = SumFunctionOnSet(g, Outpoint)
  BY DEF BatchWriteUsage
<1> HIDE DEF f, g, h
<1>6. SumFunctionOnSet(h, Outpoint) = SumFunctionOnSet(f, Outpoint) + SumFunctionOnSet(g, Outpoint)
  BY <1>2, <1>3, <1>4, OutpointsFinite, SumPlus
<1> QED
  BY <1>5, <1>6 DEF CacheBytes, f, h

\* An inductive state's caches are maps of entries.
LEMMA MapFacts ==
    ASSUME CacheInv
    PROVE  coins["tip"] \in EntryMap /\ coins["view"] \in EntryMap /\ coins = [l \in Level |-> coins[l]]
BY DEF CacheInv, TypeOK, EntryMap, Level

\* Caches m with usage u, every byte accounted for.
Accounted(m, u) == \A l \in Level : m[l] \in EntryMap /\ u[l] = CacheBytes(m[l])

\* The usage of the state is such an account ...
LEMMA UsageAccounted == ASSUME CacheInv, UsageInv PROVE Accounted(coins, usage)
BY MapFacts DEF Accounted, UsageInv, Level

\* ... and a step that leaves one preserves the invariant.
LEMMA AccountedInv ==
    ASSUME CacheInv', Accounted(coins', usage'), usage' = [l \in Level |-> usage'[l]]
    PROVE  UsageInv'
<1>1. \A l \in Level : usage'[l] \in Int
  BY BytesType DEF Accounted
<1> QED
  BY <1>1 DEF Accounted, UsageInv, Level

\* Replacing one entry of one cache and adjusting that cache's usage by the
\* difference keeps the account.
LEMMA AccountPut ==
    ASSUME NEW m, NEW u, Accounted(m, u), NEW l \in Level, NEW o \in Outpoint,
           NEW e \in CCoinsCacheEntry \cup {NoEntry}, NEW n, NEW v,
           n[l] = [m[l] EXCEPT ![o] = e],
           v[l] = u[l] - DynamicMemoryUsage(CoinIn(m[l][o])) + DynamicMemoryUsage(CoinIn(e)),
           \A k \in Level \ {l} : n[k] = m[k] /\ v[k] = u[k]
    PROVE  Accounted(n, v)
<1>1. m[l] \in EntryMap /\ u[l] = CacheBytes(m[l])
  BY DEF Accounted
<1>2. n[l] \in EntryMap
  BY <1>1 DEF EntryMap
<1>3. v[l] = CacheBytes(n[l])
  BY <1>1, PutBytes
<1> QED
  BY <1>2, <1>3 DEF Accounted

\* FetchCoin accounts, in each cache it reaches, for the entry it leaves there.
LEMMA FetchAccounted ==
    ASSUME CacheInv, UsageInv, NEW o \in Outpoint
    PROVE  Accounted(FetchCoin(o), FetchUsage(o))
<1> DEFINE m == FetchCoin(o)
           u == FetchUsage(o)
<1>1. Accounted(coins, usage)
  BY UsageAccounted
<1>2. ASSUME NEW l \in Level
      PROVE  m[l] \in EntryMap /\ u[l] = CacheBytes(m[l])
  <2> DEFINE e == FetchedEntry(l, o)
  <2>1. coins[l] \in EntryMap /\ usage[l] = CacheBytes(coins[l]) /\ usage[l] \in Int
    BY <1>1, BytesType DEF Accounted
  <2>2. e \in CCoinsCacheEntry \cup {NoEntry} /\ BaseCoins(l)[o] \in CoinOrSpent
    BY StateFacts, FetchedFacts DEF Level, EntryOK, BaseCoins
  <2>3. CASE l \notin Reached(o)
    BY <2>1, <2>3 DEF FetchCoin, FetchUsage
  <2>4. CASE l \in Reached(o)
    <3>1. m[l] = [coins[l] EXCEPT ![o] = e]
      BY <2>4 DEF FetchCoin
    <3>2. CacheBytes(m[l]) = usage[l] - DynamicMemoryUsage(CoinIn(coins[l][o]))
                                      + DynamicMemoryUsage(CoinIn(e))
      BY <2>1, <2>2, <3>1, PutBytes
    <3>3. m[l] \in EntryMap
      BY <2>1, <2>2, <3>1 DEF EntryMap
    <3>4. CASE coins[l][o] # NoEntry
      <4>1. e = coins[l][o] /\ u[l] = usage[l]
        BY <3>4 DEF FetchedEntry, FetchUsage
      <4>2. DynamicMemoryUsage(CoinIn(e)) \in Nat
        BY <2>2, EntryBytes
      <4> QED BY <2>1, <3>2, <3>3, <4>1, <4>2
    <3>5. CASE coins[l][o] = NoEntry
      <4>1. u[l] = usage[l] + DynamicMemoryUsage(BaseCoins(l)[o])
        BY <2>4, <3>5 DEF FetchUsage
      <4>2. CoinIn(e) = BaseCoins(l)[o]
        <5>1. e = IF BaseCoins(l)[o] # Spent THEN Entry(BaseCoins(l)[o], FALSE, FALSE) ELSE NoEntry
          BY <3>5 DEF FetchedEntry
        <5> QED BY <2>2, <5>1, EntryFacts DEF CoinIn
      <4>3. DynamicMemoryUsage(CoinIn(coins[l][o])) = 0
        BY <3>5 DEF CoinIn, DynamicMemoryUsage
      <4>4. DynamicMemoryUsage(CoinIn(e)) \in Nat
        BY <2>2, EntryBytes
      <4> QED BY <2>1, <3>2, <3>3, <4>1, <4>2, <4>3, <4>4
    <3> QED BY <3>4, <3>5
  <2> QED BY <2>3, <2>4
<1> QED
  BY <1>2 DEF Accounted

\* The usage invariant holds of empty caches.
LEMMA UsageInit == Init => UsageInv
BY EmptyBytes DEF Init, UsageInv, Level

\* Every operation preserves it.
LEMMA UsageNext == CacheInv /\ UsageInv /\ [Next]_vars => UsageInv'
<1> SUFFICES ASSUME CacheInv, UsageInv, [Next]_vars PROVE UsageInv'
  OBVIOUS
<1>0. /\ CacheInv' /\ Accounted(coins, usage)
      /\ usage = [l \in Level |-> usage[l]]
      /\ top \in Level /\ coins \in [Level -> EntryMap] /\ usage \in [Level -> Int]
  BY NextInv, UsageAccounted DEF UsageInv, top, Level, CacheInv, TypeOK, EntryMap
<1>1. ASSUME NEW o \in Outpoint, GetCoin(o) PROVE UsageInv'
  BY <1>0, <1>1, FetchAccounted, AccountedInv DEF GetCoin, FetchUsage
<1>2. ASSUME NEW o \in Outpoint, SpendCoin(o) PROVE UsageInv'
  <2> DEFINE m == FetchCoin(o)
             u == FetchUsage(o)
             e == m[top][o]
  <2>1. Accounted(m, u)
    BY FetchAccounted
  <2>2. /\ u = [l \in Level |-> u[l]] /\ m = [l \in Level |-> m[l]]
        /\ e \in CCoinsCacheEntry \cup {NoEntry}
    BY <1>0, <2>1 DEF FetchUsage, FetchCoin, Accounted, EntryMap
  <2>3. CASE e = NoEntry
    BY <1>0, <1>2, <2>1, <2>2, <2>3, AccountedInv DEF SpendCoin
  <2>4. CASE e # NoEntry
    <3> DEFINE n == [m EXCEPT ![top][o] = SpentEntry(e)]
               v == [u EXCEPT ![top] = @ - DynamicMemoryUsage(e.coin)]
    <3>1. coins' = n /\ usage' = v
      BY <1>2, <2>4 DEF SpendCoin
    <3>2. /\ SpentEntry(e) \in CCoinsCacheEntry \cup {NoEntry}
          /\ DynamicMemoryUsage(CoinIn(SpentEntry(e))) = 0
          /\ CoinIn(m[top][o]) = e.coin
      <4>1. Spent \in CoinOrSpent
        BY DEF CoinOrSpent
      <4> QED BY <2>2, <2>4, <4>1, EntryFacts, FieldFacts DEF SpentEntry, CoinIn, DynamicMemoryUsage
    <3> HIDE DEF m, u, e
    <3>3. /\ n[top] = [m[top] EXCEPT ![o] = SpentEntry(e)]
          /\ v[top] = u[top] - DynamicMemoryUsage(e.coin)
          /\ \A k \in Level \ {top} : n[k] = m[k] /\ v[k] = u[k]
          /\ v = [l \in Level |-> v[l]]
      BY <1>0, <2>2
    <3>4. u[top] \in Int /\ DynamicMemoryUsage(e.coin) \in Int
      BY <1>0, <2>1, <2>2, <3>2, BytesType, EntryBytes DEF Accounted, e
    <3>5. v[top] = u[top] - DynamicMemoryUsage(CoinIn(m[top][o]))
                          + DynamicMemoryUsage(CoinIn(SpentEntry(e)))
      BY <3>2, <3>3, <3>4
    <3> HIDE DEF n, v
    <3>6. Accounted(n, v)
      BY <1>0, <2>1, <3>2, <3>3, <3>5, AccountPut
    <3> QED BY <1>0, <3>1, <3>3, <3>6, AccountedInv
  <2> QED BY <2>3, <2>4
\* One entry of one cache is replaced.
<1>3. ASSUME NEW o \in Outpoint, NEW k \in Level, NEW e \in CCoinsCacheEntry \cup {NoEntry},
             NEW w,
             coins' = [coins EXCEPT ![k][o] = e],
             usage' = [usage EXCEPT ![k] = w],
             w = usage[k] - DynamicMemoryUsage(CoinIn(coins[k][o])) + DynamicMemoryUsage(CoinIn(e))
      PROVE  UsageInv'
  <2>1. /\ coins'[k] = [coins[k] EXCEPT ![o] = e]
        /\ usage'[k] = usage[k] - DynamicMemoryUsage(CoinIn(coins[k][o]))
                                 + DynamicMemoryUsage(CoinIn(e))
        /\ \A j \in Level \ {k} : coins'[j] = coins[j] /\ usage'[j] = usage[j]
        /\ usage' = [l \in Level |-> usage'[l]]
    BY <1>0, <1>3
  <2>2. Accounted(coins', usage')
    BY <1>0, <2>1, AccountPut
  <2> QED BY <1>0, <2>1, <2>2, AccountedInv
<1>4. ASSUME NEW o \in Outpoint, Uncache(o) PROVE UsageInv'
  <2>1. /\ coins' = [coins EXCEPT ![top][o] = NoEntry]
        /\ usage' = [usage EXCEPT ![top] = usage[top] - DynamicMemoryUsage(CoinIn(coins[top][o]))]
        /\ DynamicMemoryUsage(CoinIn(NoEntry)) = 0
    BY <1>4 DEF Uncache, CoinIn, DynamicMemoryUsage
  <2>2. DynamicMemoryUsage(CoinIn(coins[top][o])) \in Int /\ usage[top] \in Int
    BY <1>0, EntryBytes DEF EntryMap
  <2>3. usage[top] - DynamicMemoryUsage(CoinIn(coins[top][o])) =
            usage[top] - DynamicMemoryUsage(CoinIn(coins[top][o])) + DynamicMemoryUsage(CoinIn(NoEntry))
    BY <2>1, <2>2
  <2> QED BY <1>0, <1>3, <2>1, <2>3
<1>5. ASSUME NEW o \in Outpoint, NEW c \in Coin, NEW overwrite \in BOOLEAN,
             AddCoin(o, c, overwrite)
      PROVE  UsageInv'
  <2>1. CASE c \in Unspendable
    BY <1>0, <1>5, <2>1, AccountedInv DEF AddCoin
  <2>2. CASE c \notin Unspendable
    <3> DEFINE e == AddedEntry(coins[top][o], c, overwrite)
    <3>1. /\ coins' = [coins EXCEPT ![top][o] = e]
          /\ usage' = [usage EXCEPT ![top] = usage[top] - DynamicMemoryUsage(CoinIn(coins[top][o]))
                                                       + DynamicMemoryUsage(c)]
      BY <1>5, <2>2 DEF AddCoin
    <3>2. e \in CCoinsCacheEntry \cup {NoEntry} /\ CoinIn(e) = c
      <4>1. c \in CoinOrSpent
        BY <2>2 DEF CoinOrSpent
      <4>2. ( \/ ~overwrite /\ (coins[top][o] = NoEntry \/ ~coins[top][o].dirty)
              \/ coins[top][o] # NoEntry /\ coins[top][o].fresh ) \in BOOLEAN
        OBVIOUS
      <4> QED BY <4>1, <4>2, EntryFacts DEF AddedEntry, CoinIn
    <3> HIDE DEF e
    <3> QED BY <1>0, <1>3, <3>1, <3>2
  <2> QED BY <2>1, <2>2
<1>6. ASSUME NEW o \in Outpoint, NEW c \in Coin \ Unspendable, EmplaceCoinInternalDANGER(o, c)
      PROVE  UsageInv'
  <2> DEFINE e == Entry(c, TRUE, FALSE)
  <2>1. /\ coins' = [coins EXCEPT !["tip"][o] = e]
        /\ usage' = [usage EXCEPT !["tip"] = usage["tip"] + DynamicMemoryUsage(c)]
        /\ DynamicMemoryUsage(CoinIn(coins["tip"][o])) = 0
    BY <1>6 DEF EmplaceCoinInternalDANGER, CoinIn, DynamicMemoryUsage
  <2>2. e \in CCoinsCacheEntry \cup {NoEntry} /\ CoinIn(e) = c
    <3>1. c \in CoinOrSpent
      BY DEF CoinOrSpent
    <3> QED BY <3>1, EntryFacts DEF CoinIn
  <2> HIDE DEF e
  <2>3. "tip" \in Level /\ usage["tip"] \in Int /\ DynamicMemoryUsage(CoinIn(e)) \in Int
    BY <1>0, <2>2, EntryBytes DEF Level
  <2>4. usage["tip"] + DynamicMemoryUsage(c) =
            usage["tip"] - DynamicMemoryUsage(CoinIn(coins["tip"][o])) + DynamicMemoryUsage(CoinIn(e))
    BY <2>1, <2>2, <2>3
  <2> QED BY <1>3, <2>1, <2>2, <2>3, <2>4
<1>7. CASE GetBestBlock \/ (\E h \in Hash : SetBestBlock(h)) \/ OpenView \/ UNCHANGED vars
  BY <1>0, <1>7, AccountedInv DEF GetBestBlock, SetBestBlock, OpenView, vars
<1>8. /\ coins["tip"] \in EntryMap /\ coins["view"] \in EntryMap
      /\ usage["tip"] = CacheBytes(coins["tip"]) /\ usage["view"] = CacheBytes(coins["view"])
      /\ "tip" \in Level /\ "view" \in Level /\ "tip" # "view"
  BY <1>0 DEF UsageInv, Level
<1>9. CASE FlushView \/ SyncView
  <2>1. /\ coins'["tip"] = BatchWrite(coins["tip"], coins["view"])
        /\ usage'["tip"] = usage["tip"] + BatchWriteUsage(coins["tip"], coins["view"])
    BY <1>0, <1>8, <1>9 DEF FlushView, SyncView
  <2>2. usage'["tip"] = CacheBytes(coins'["tip"])
    BY <1>8, <2>1, BatchBytes
  <2>3. usage'["view"] = CacheBytes(coins'["view"])
    BY <1>0, <1>8, <1>9, EmptyBytes, SyncedBytes DEF FlushView, SyncView
  <2>4. usage' = [l \in Level |-> usage'[l]]
    BY <1>0, <1>9 DEF FlushView, SyncView
  <2>5. coins'["tip"] \in EntryMap /\ coins'["view"] \in EntryMap
    BY <1>0 DEF CacheInv, TypeOK, EntryMap, Level
  <2> QED BY <1>0, <2>2, <2>3, <2>4, <2>5, AccountedInv DEF Accounted, Level
<1>10. CASE FlushTip \/ SyncTip \/ CloseView
  <2>1. /\ usage'["tip"] = CacheBytes(coins'["tip"])
        /\ usage'["view"] = CacheBytes(coins'["view"])
        /\ usage' = [l \in Level |-> usage'[l]]
    <3>1. CASE FlushTip
      BY <1>0, <1>8, <3>1, EmptyBytes DEF FlushTip
    <3>2. CASE SyncTip
      BY <1>0, <1>8, <3>2, SyncedBytes DEF SyncTip
    <3>3. CASE CloseView
      BY <1>0, <1>8, <3>3, EmptyBytes DEF CloseView
    <3> QED BY <1>10, <3>1, <3>2, <3>3
  <2>2. coins'["tip"] \in EntryMap /\ coins'["view"] \in EntryMap
    BY <1>0 DEF CacheInv, TypeOK, EntryMap, Level
  <2> QED BY <1>0, <2>1, <2>2, AccountedInv DEF Accounted, Level
<1> QED
  BY <1>1, <1>2, <1>4, <1>5, <1>6, <1>7, <1>9, <1>10 DEF Next

\* cachedCoinsUsage of both caches always is the memory of the coins they
\* hold, whatever is fetched, added, overwritten, spent, uncached, merged or
\* synced (the assertion on it in SanityCheck cannot fail).
THEOREM UsageIsExact == Spec => []UsageExact
<1>1. UsageInv => UsageExact
  BY DEF UsageInv, UsageExact, CacheBytes, Bytes, Level
<1> QED
  BY <1>1, InvHolds, UsageInit, UsageNext, PTL DEF Spec
=============================================================================
