---------------------------- MODULE TradeProofs -----------------------------
(***************************************************************************)
(* Theorems about Trade, for every set of players, items and spells, any   *)
(* number of slots and any gold limit.                                     *)
(***************************************************************************)
EXTENDS Trade, TLAPS

-----------------------------------------------------------------------------
(***************************************************************************)
(* The inductive invariant.  An acceptance can only be held against the    *)
(* partner's offer while the two TradeData lead to each other: the         *)
(* properties need one another.                                            *)
(***************************************************************************)
TradeType ==
    /\ trade \in [Players -> TradeData \cup {NoTrade}]
    /\ online \subseteq Players
    /\ agreed \in [Players -> Offers \X Offers]

MoneyType == gold \in [Players -> 0..MAX_MONEY_AMOUNT]

TradeInv == TradeType /\ Mutual /\ AcceptedTermsStand

IInv == TradeInv /\ MoneyType

-----------------------------------------------------------------------------
\* An empty offer is an offer, and NULL is no TradeData: its trader is nobody.
LEMMA Basics ==
    /\ NoOffer \in Offers
    /\ NoTerms \in Offers \X Offers
    /\ NoTrade \notin TradeData
    /\ NoTrade.accepted = FALSE
    /\ \A q \in Players : NewTradeData(q) \in TradeData /\ ~NewTradeData(q).accepted
<1>1. NoOffer \in Offers
  BY DEF NoOffer, Offers
<1>2. NoTerms \in Offers \X Offers
  BY <1>1 DEF NoTerms
<1>3. NoTrade \notin TradeData
  BY TradeAssumption DEF NoTrade, TradeData
<1>4. NoTrade.accepted = FALSE
  BY DEF NoTrade
<1>5. \A q \in Players : NewTradeData(q) \in TradeData /\ ~NewTradeData(q).accepted
  BY <1>1 DEF NewTradeData, TradeData
<1> QED
  BY <1>1, <1>2, <1>3, <1>4, <1>5

\* What the setters of a TradeData leave in it.
LEMMA Setters ==
    ASSUME NEW t \in TradeData
    PROVE  /\ \A offer \in Offers :
                LET u == [t EXCEPT !.offer = offer, !.accepted = FALSE]
                IN  u \in TradeData /\ u.trader = t.trader /\ ~u.accepted
           /\ \A flag \in BOOLEAN :
                LET u == [t EXCEPT !.accepted = flag]
                IN  u \in TradeData /\ u.trader = t.trader /\ u.offer = t.offer /\ (u.accepted <=> flag)
           /\ ~t.accepted =>
                LET u == [t EXCEPT !.offer.spell = NoSpell]
                IN  u \in TradeData /\ u.trader = t.trader /\ ~u.accepted
<1>1. ASSUME NEW offer \in Offers
      PROVE  LET u == [t EXCEPT !.offer = offer, !.accepted = FALSE]
             IN  u \in TradeData /\ u.trader = t.trader /\ ~u.accepted
  BY DEF TradeData
<1>2. ASSUME NEW flag \in BOOLEAN
      PROVE  LET u == [t EXCEPT !.accepted = flag]
             IN  u \in TradeData /\ u.trader = t.trader /\ u.offer = t.offer /\ (u.accepted <=> flag)
  BY DEF TradeData
<1>3. ASSUME ~t.accepted
      PROVE  LET u == [t EXCEPT !.offer.spell = NoSpell]
             IN  u \in TradeData /\ u.trader = t.trader /\ ~u.accepted
  BY <1>3 DEF TradeData, Offers
<1> QED
  BY <1>1, <1>2, <1>3

\* The two sides of a trade, for a player with an m_trade.
LEMMA Partner ==
    ASSUME TradeInv, NEW p \in Players, Trading(p)
    PROVE  /\ Trader(p) \in Players
           /\ Trader(p) # p
           /\ trade[p] \in TradeData
           /\ trade[Trader(p)] \in TradeData
           /\ Trader(Trader(p)) = p
           /\ trade[p].offer \in Offers
           /\ trade[Trader(p)].offer \in Offers
           /\ p \in online
           /\ Trader(p) \in online
<1>1. Trader(p) \in Players \ {p} /\ Trading(Trader(p)) /\ Trader(Trader(p)) = p /\ p \in online
  BY DEF TradeInv, Mutual
<1>2. Trader(p) \in online
  BY <1>1 DEF TradeInv, Mutual
<1>3. trade[p] \in TradeData /\ trade[Trader(p)] \in TradeData
  BY <1>1 DEF TradeInv, TradeType, Trading
<1>4. trade[p].offer \in Offers /\ trade[Trader(p)].offer \in Offers
  BY <1>3 DEF TradeData
<1> QED
  BY <1>1, <1>2, <1>3, <1>4

\* Forgetting the terms with the acceptance keeps the type of the memory.
LEMMA RememberTyped ==
    ASSUME TradeType, Remember
    PROVE  /\ agreed' \in [Players -> Offers \X Offers]
           /\ \A r \in Players : trade'[r].accepted => agreed'[r] = agreed[r]
BY Basics DEF Remember, TradeType

\* Both acceptances are taken back with a changed offer: SetItem, SetSpell, SetMoney.
LEMMA OffersChange ==
    ASSUME TradeInv, NEW p \in Players, Trading(p),
           trade' \in [Players -> TradeData \cup {NoTrade}],
           trade'[p] \in TradeData, trade'[p].trader = Trader(p), ~trade'[p].accepted,
           trade'[Trader(p)] \in TradeData, trade'[Trader(p)].trader = p, ~trade'[Trader(p)].accepted,
           \A r \in Players \ {p, Trader(p)} : trade'[r] = trade[r],
           Remember, online' = online
    PROVE  TradeInv'
<1> DEFINE q == Trader(p)
<1>1. q \in Players /\ q # p /\ p \in online /\ q \in online /\ Trader(q) = p
  BY Partner
<1>2. \A r \in Players \ {p, q} : trade'[r] = trade[r]
  OBVIOUS
<1>3. /\ trade'[p] # NoTrade /\ trade'[p].trader = q /\ ~trade'[p].accepted
      /\ trade'[q] # NoTrade /\ trade'[q].trader = p /\ ~trade'[q].accepted
  BY Basics
<1>4. TradeType'
  BY RememberTyped DEF TradeInv, TradeType
<1>5. Mutual'
  <2> SUFFICES ASSUME NEW r \in Players, Trading(r)'
               PROVE  /\ r \in online
                      /\ Trader(r)' \in Players \ {r}
                      /\ trade'[Trader(r)'] # NoTrade
                      /\ trade'[Trader(r)'].trader = r
    BY DEF Mutual, Trading, Trader
  <2>1. CASE r = p
    BY <2>1, <1>1, <1>3 DEF Trader
  <2>2. CASE r = q
    BY <2>2, <1>1, <1>3 DEF Trader
  <2>3. CASE r \notin {p, q}
    <3>1. Trading(r) /\ Trader(r)' = Trader(r) /\ r \in online
      BY <2>3, <1>2 DEF Trading, Trader, TradeInv, Mutual
    <3>2. Trader(r) \in Players \ {r} /\ Trading(Trader(r)) /\ Trader(Trader(r)) = r
      BY <3>1 DEF TradeInv, Mutual
    <3>3. Trader(r) \notin {p, q}
      BY <3>2, <2>3, <1>1
    <3> QED
      BY <3>1, <3>2, <3>3, <1>2 DEF Trading, Trader
  <2> QED
    BY <2>1, <2>2, <2>3
<1>6. AcceptedTermsStand'
  <2> SUFFICES ASSUME NEW r \in Players, trade'[r].accepted
               PROVE  agreed'[r] = <<trade'[r].offer, trade'[Trader(r)'].offer>>
    BY DEF AcceptedTermsStand
  <2>1. r \notin {p, q} /\ trade'[r] = trade[r]
    BY <1>2, <1>3
  <2>2. Trading(r)
    BY <2>1, Basics DEF Trading
  <2>3. Trader(r) \in Players /\ Trader(r) \notin {p, q} /\ Trader(r)' = Trader(r)
    BY <2>1, <2>2, <1>1 DEF Trader, TradeInv, Mutual
  <2>4. agreed'[r] = agreed[r]
    BY RememberTyped DEF TradeInv
  <2>5. trade'[Trader(r)] = trade[Trader(r)]
    BY <2>3, <1>2
  <2>6. agreed[r] = <<trade[r].offer, trade[Trader(r)].offer>>
    BY <2>1 DEF TradeInv, AcceptedTermsStand
  <2> QED
    BY <2>1, <2>3, <2>4, <2>5, <2>6
<1> QED
  BY <1>4, <1>5, <1>6 DEF TradeInv

\* Only acceptances change, and one that is set or stays set knows the terms: UnacceptTrade and the ways out of AcceptTrade.
LEMMA FlagsChange ==
    ASSUME TradeInv,
           trade' \in [Players -> TradeData \cup {NoTrade}],
           agreed' \in [Players -> Offers \X Offers],
           online' = online,
           \A r \in Players : /\ trade'[r].trader = trade[r].trader
                              /\ trade'[r].offer = trade[r].offer
                              /\ Trading(r)' <=> Trading(r)
                              /\ trade'[r].accepted => agreed'[r] = <<trade[r].offer, trade[Trader(r)].offer>>
    PROVE  TradeInv'
<1>1. TradeType'
  BY DEF TradeInv, TradeType
<1>2. Mutual'
  BY DEF TradeInv, Mutual, Trader
<1>3. AcceptedTermsStand'
  <2> SUFFICES ASSUME NEW r \in Players, trade'[r].accepted
               PROVE  agreed'[r] = <<trade'[r].offer, trade'[Trader(r)'].offer>>
    BY DEF AcceptedTermsStand
  <2>1. Trading(r)'
    BY Basics DEF Trading
  <2>2. Trader(r) \in Players
    BY <2>1, Partner
  <2> QED
    BY <2>2 DEF Trader
<1> QED
  BY <1>1, <1>2, <1>3 DEF TradeInv

\* Both m_trade are deleted: TradeCancel, Logout, the end of a completed trade.
LEMMA TradeEnds ==
    ASSUME TradeInv, NEW p \in Players, Trading(p), trade' = Ended(p), Remember,
           online' \subseteq online, online \subseteq online' \cup {p}
    PROVE  TradeInv'
<1> DEFINE q == Trader(p)
<1>1. q \in Players /\ q # p /\ Trader(q) = p
  BY Partner
<1>2. /\ trade'[p] = NoTrade
      /\ trade'[q] = NoTrade
      /\ \A r \in Players \ {p, q} : trade'[r] = trade[r]
  BY <1>1 DEF TradeInv, TradeType, Ended
<1>3. TradeType'
  BY <1>1, RememberTyped DEF TradeInv, TradeType, Ended
<1>4. ASSUME NEW r \in Players, Trading(r)'
      PROVE  /\ trade'[r] = trade[r]
             /\ r \in online'
             /\ Trader(r) \in Players \ {r}
             /\ Trader(r)' = Trader(r)
             /\ trade'[Trader(r)] = trade[Trader(r)]
             /\ Trading(Trader(r))
             /\ Trader(Trader(r)) = r
  <2>1. r \notin {p, q} /\ trade'[r] = trade[r] /\ Trading(r)
    BY <1>2, <1>4 DEF Trading
  <2>2. r \in online /\ Trader(r) \in Players \ {r} /\ Trading(Trader(r)) /\ Trader(Trader(r)) = r
    BY <2>1 DEF TradeInv, Mutual
  <2>3. Trader(r) \notin {p, q}
    BY <2>1, <2>2, <1>1
  <2> QED
    BY <2>1, <2>2, <2>3, <1>2 DEF Trader
<1>5. Mutual'
  BY <1>4 DEF Mutual, Trading, Trader
<1>6. AcceptedTermsStand'
  <2> SUFFICES ASSUME NEW r \in Players, trade'[r].accepted
               PROVE  agreed'[r] = <<trade'[r].offer, trade'[Trader(r)'].offer>>
    BY DEF AcceptedTermsStand
  <2>1. Trading(r)'
    BY Basics DEF Trading
  <2>2. agreed'[r] = agreed[r]
    BY RememberTyped DEF TradeInv
  <2> QED
    BY <2>1, <2>2, <1>4 DEF TradeInv, AcceptedTermsStand
<1> QED
  BY <1>3, <1>5, <1>6 DEF TradeInv

\* Two new m_trade, for two players who had none: InitiateTrade.
LEMMA TradeBegins ==
    ASSUME TradeInv, NEW p \in Players, NEW q \in Players, InitiateTrade(p, q)
    PROVE  TradeInv'
<1>1. p # q /\ p \in online /\ q \in online /\ ~Trading(p) /\ ~Trading(q) /\ online' = online
  BY DEF InitiateTrade, world
<1>2. /\ trade'[p] = NewTradeData(q)
      /\ trade'[q] = NewTradeData(p)
      /\ \A r \in Players \ {p, q} : trade'[r] = trade[r]
  BY <1>1 DEF TradeInv, TradeType, InitiateTrade
<1>3. /\ trade'[p] \in TradeData /\ trade'[p] # NoTrade /\ trade'[p].trader = q /\ ~trade'[p].accepted
      /\ trade'[q] \in TradeData /\ trade'[q] # NoTrade /\ trade'[q].trader = p /\ ~trade'[q].accepted
  <2>1. \A r \in Players : NewTradeData(r).trader = r
    BY DEF NewTradeData
  <2> QED
    BY <1>2, <2>1, Basics
<1>4. TradeType'
  <2>1. trade' \in [Players -> TradeData \cup {NoTrade}]
    BY <1>1, Basics DEF TradeInv, TradeType, InitiateTrade
  <2> QED
    BY <1>1, <2>1, RememberTyped DEF TradeInv, TradeType, InitiateTrade
<1>5. ASSUME NEW r \in Players \ {p, q}, Trading(r)'
      PROVE  /\ trade'[r] = trade[r]
             /\ r \in online
             /\ Trader(r) \in Players \ {r}
             /\ Trader(r)' = Trader(r)
             /\ trade'[Trader(r)] = trade[Trader(r)]
             /\ Trading(Trader(r))
             /\ Trader(Trader(r)) = r
  <2>1. trade'[r] = trade[r] /\ Trading(r)
    BY <1>2, <1>5 DEF Trading
  <2>2. r \in online /\ Trader(r) \in Players \ {r} /\ Trading(Trader(r)) /\ Trader(Trader(r)) = r
    BY <2>1 DEF TradeInv, Mutual
  <2>3. Trader(r) \notin {p, q}
    BY <2>2, <1>1
  <2> QED
    BY <2>1, <2>2, <2>3, <1>2 DEF Trader
<1>6. Mutual'
  <2> SUFFICES ASSUME NEW r \in Players, Trading(r)'
               PROVE  /\ r \in online
                      /\ Trader(r)' \in Players \ {r}
                      /\ trade'[Trader(r)'] # NoTrade
                      /\ trade'[Trader(r)'].trader = r
    BY <1>1 DEF Mutual, Trading, Trader
  <2>1. CASE r = p
    BY <2>1, <1>1, <1>3 DEF Trader
  <2>2. CASE r = q
    BY <2>2, <1>1, <1>3 DEF Trader
  <2>3. CASE r \notin {p, q}
    BY <2>3, <1>5 DEF Trading, Trader
  <2> QED
    BY <2>1, <2>2, <2>3
<1>7. AcceptedTermsStand'
  <2> SUFFICES ASSUME NEW r \in Players, trade'[r].accepted
               PROVE  agreed'[r] = <<trade'[r].offer, trade'[Trader(r)'].offer>>
    BY DEF AcceptedTermsStand
  <2>1. r \in Players \ {p, q} /\ Trading(r)'
    BY <1>3, Basics DEF Trading
  <2>2. agreed'[r] = agreed[r]
    BY RememberTyped DEF TradeInv, InitiateTrade
  <2> QED
    BY <2>1, <2>2, <1>5 DEF TradeInv, AcceptedTermsStand
<1> QED
  BY <1>4, <1>6, <1>7 DEF TradeInv

-----------------------------------------------------------------------------
(***************************************************************************)
(* The shape of the changed TradeData, for each operator of the code.      *)
(***************************************************************************)
\* TradeData::SetItem, SetSpell, SetMoney.
LEMMA ChangedShape ==
    ASSUME TradeInv, NEW p \in Players, Trading(p), NEW offer \in Offers
    PROVE  LET t == Changed(p, offer)
           IN  /\ t \in [Players -> TradeData \cup {NoTrade}]
               /\ t[p] \in TradeData /\ t[p].trader = Trader(p) /\ ~t[p].accepted
               /\ t[Trader(p)] \in TradeData /\ t[Trader(p)].trader = p /\ ~t[Trader(p)].accepted
               /\ \A r \in Players \ {p, Trader(p)} : t[r] = trade[r]
<1> DEFINE q    == Trader(p)
           mine == [trade[p] EXCEPT !.offer = offer, !.accepted = FALSE]
           his  == [trade[q] EXCEPT !.accepted = FALSE]
<1>1. q \in Players /\ q # p /\ trade[p] \in TradeData /\ trade[q] \in TradeData /\ trade[q].trader = p
  BY Partner DEF Trader
<1>2. mine \in TradeData /\ mine.trader = q /\ ~mine.accepted
  BY <1>1, Setters DEF Trader
<1>3. his \in TradeData /\ his.trader = p /\ ~his.accepted
  BY <1>1, Setters
<1>4. Changed(p, offer) = [trade EXCEPT ![p] = mine, ![q] = his]
  BY <1>1 DEF Changed, TradeInv, TradeType
<1> HIDE DEF mine, his, q
<1>5. LET t == Changed(p, offer)
      IN  /\ t \in [Players -> TradeData \cup {NoTrade}]
          /\ t[p] = mine
          /\ t[q] = his
          /\ \A r \in Players \ {p, q} : t[r] = trade[r]
  BY <1>1, <1>2, <1>3, <1>4 DEF TradeInv, TradeType
<1> QED
  BY <1>2, <1>3, <1>5 DEF q

\* An offer with another sum, spell or item is an offer.
LEMMA OfferTyped ==
    ASSUME NEW offer \in Offers
    PROVE  /\ \A sum \in Nat : [offer EXCEPT !.money = sum] \in Offers
           /\ \A spell \in Spells \cup {NoSpell} : [offer EXCEPT !.spell = spell] \in Offers
           /\ \A s \in Slots, i \in Items \cup {NoItem} :
                [offer EXCEPT !.items[s] = i, !.spell = NoSpell] \in Offers
<1>1. \A sum \in Nat : [offer EXCEPT !.money = sum] \in Offers
  BY DEF Offers
<1>2. \A spell \in Spells \cup {NoSpell} : [offer EXCEPT !.spell = spell] \in Offers
  BY DEF Offers
<1>3. ASSUME NEW s \in Slots, NEW i \in Items \cup {NoItem}
      PROVE  [offer EXCEPT !.items[s] = i, !.spell = NoSpell] \in Offers
  BY DEF Offers
<1> QED
  BY <1>1, <1>2, <1>3

\* SetItem, HandleSetTradeItemOpcode and HandleClearTradeItemOpcode.
LEMMA ItemChanges ==
    ASSUME TradeInv, NEW p \in Players, Trading(p), NEW s \in Slots, NEW i \in Items \cup {NoItem},
           trade' = SetItem(p, s, i), Remember, online' = online
    PROVE  TradeInv'
<1> DEFINE q     == Trader(p)
           offer == [trade[p].offer EXCEPT !.items[s] = i, !.spell = NoSpell]
           t     == Changed(p, offer)
<1>1. q \in Players /\ q # p /\ trade[p].offer \in Offers
  BY Partner
<1>2. offer \in Offers
  BY <1>1, OfferTyped
<1> HIDE DEF offer
<1>3. /\ t \in [Players -> TradeData \cup {NoTrade}]
      /\ t[p] \in TradeData /\ t[p].trader = q /\ ~t[p].accepted
      /\ t[q] \in TradeData /\ t[q].trader = p /\ ~t[q].accepted
      /\ \A r \in Players \ {p, q} : t[r] = trade[r]
  BY <1>2, ChangedShape
<1>4. trade' = IF s = NonTraded THEN [t EXCEPT ![q].offer.spell = NoSpell] ELSE t
  BY DEF SetItem, offer
<1> HIDE DEF t, q
<1>5. CASE s # NonTraded
  BY <1>3, <1>4, <1>5, OffersChange DEF q
<1>6. CASE s = NonTraded
  <2> DEFINE his == [t[q] EXCEPT !.offer.spell = NoSpell]
  <2>1. his \in TradeData /\ his.trader = p /\ ~his.accepted
    BY <1>3, Setters
  <2>2. trade' = [t EXCEPT ![q] = his]
    BY <1>4, <1>6
  <2> HIDE DEF his
  <2>3. /\ trade' \in [Players -> TradeData \cup {NoTrade}]
        /\ trade'[q] = his
        /\ \A r \in Players \ {q} : trade'[r] = t[r]
    BY <1>1, <1>3, <2>1, <2>2
  <2>4. /\ trade'[p] \in TradeData /\ trade'[p].trader = q /\ ~trade'[p].accepted
        /\ trade'[q] \in TradeData /\ trade'[q].trader = p /\ ~trade'[q].accepted
        /\ \A r \in Players \ {p, q} : trade'[r] = trade[r]
    BY <1>1, <1>3, <2>1, <2>3
  <2> QED
    BY <2>3, <2>4, OffersChange DEF q
<1> QED
  BY <1>5, <1>6

\* Another sum or another spell: SetMoney, SetSpell.
LEMMA OfferChanges ==
    ASSUME TradeInv, NEW p \in Players, Trading(p), NEW offer \in Offers,
           trade' = Changed(p, offer), Remember, online' = online
    PROVE  TradeInv'
BY Partner, ChangedShape, OffersChange

-----------------------------------------------------------------------------
(***************************************************************************)
(* Acceptances.                                                            *)
(***************************************************************************)
\* One acceptance is taken back: HandleUnacceptTradeOpcode, and a player without the money.
LEMMA OneUnaccepts ==
    ASSUME TradeInv, NEW p \in Players, Trading(p),
           trade' = [trade EXCEPT ![p].accepted = FALSE], Remember, online' = online
    PROVE  TradeInv'
<1> DEFINE u == [trade[p] EXCEPT !.accepted = FALSE]
<1>1. trade[p] \in TradeData
  BY Partner
<1>2. u \in TradeData /\ u.trader = trade[p].trader /\ u.offer = trade[p].offer /\ ~u.accepted
  BY <1>1, Setters
<1>3. trade' = [trade EXCEPT ![p] = u]
  OBVIOUS
<1> HIDE DEF u
<1>4. /\ trade' \in [Players -> TradeData \cup {NoTrade}]
      /\ trade'[p] = u
      /\ \A r \in Players \ {p} : trade'[r] = trade[r]
  BY <1>2, <1>3 DEF TradeInv, TradeType
<1>5. ASSUME NEW r \in Players
      PROVE  /\ trade'[r].trader = trade[r].trader
             /\ trade'[r].offer = trade[r].offer
             /\ Trading(r)' <=> Trading(r)
             /\ trade'[r].accepted => agreed'[r] = <<trade[r].offer, trade[Trader(r)].offer>>
  <2>1. CASE r = p
    BY <2>1, <1>2, <1>4, Basics DEF Trading
  <2>2. CASE r # p
    BY <2>2, <1>4, RememberTyped DEF Trading, TradeInv, AcceptedTermsStand
  <2> QED
    BY <2>1, <2>2
<1> QED
  BY <1>4, <1>5, RememberTyped, FlagsChange DEF TradeInv

\* Both are taken back: one of the two has no room.
LEMMA BothUnaccept ==
    ASSUME TradeInv, NEW p \in Players, Trading(p),
           trade' = [trade EXCEPT ![p].accepted = FALSE, ![Trader(p)].accepted = FALSE], Remember, online' = online
    PROVE  TradeInv'
<1> DEFINE q == Trader(p)
           u == [trade[p] EXCEPT !.accepted = FALSE]
           v == [trade[q] EXCEPT !.accepted = FALSE]
<1>1. q \in Players /\ q # p /\ trade[p] \in TradeData /\ trade[q] \in TradeData /\ trade[p].trader = q /\ trade[q].trader = p
  BY Partner DEF Trader
<1>2. /\ u \in TradeData /\ u.trader = q /\ ~u.accepted
      /\ v \in TradeData /\ v.trader = p /\ ~v.accepted
  BY <1>1, Setters
<1>3. trade' = [trade EXCEPT ![p] = u, ![q] = v]
  BY <1>1 DEF TradeInv, TradeType
<1> HIDE DEF u, v, q
<1>4. trade \in [Players -> TradeData \cup {NoTrade}]
  BY DEF TradeInv, TradeType
<1>5. trade' \in [Players -> TradeData \cup {NoTrade}]
  BY <1>1, <1>2, <1>3, <1>4
<1>6. /\ trade'[p] = u
      /\ trade'[q] = v
      /\ \A r \in Players \ {p, q} : trade'[r] = trade[r]
  BY <1>1, <1>3, <1>4
<1>7. /\ trade'[p] \in TradeData /\ trade'[p].trader = q /\ ~trade'[p].accepted
      /\ trade'[q] \in TradeData /\ trade'[q].trader = p /\ ~trade'[q].accepted
  BY <1>2, <1>6
<1> QED
  BY <1>5, <1>6, <1>7, OffersChange DEF q

\* A player accepts, and knows the two offers: the flag is set before the checks, the partner's stays or is taken back.
LEMMA OneAccepts ==
    ASSUME TradeInv, NEW p \in Players, Trading(p), Accepts(p), online' = online,
           NEW t, t = Accepted(p),
           trade' = t \/ trade' = [t EXCEPT ![Trader(p)].accepted = FALSE]
    PROVE  TradeInv'
<1> DEFINE q == Trader(p)
           u == [trade[p] EXCEPT !.accepted = TRUE]
           v == [trade[q] EXCEPT !.accepted = FALSE]
<1>1. /\ q \in Players /\ q # p
      /\ trade[p] \in TradeData /\ trade[q] \in TradeData
      /\ trade[p].offer \in Offers /\ trade[q].offer \in Offers
  BY Partner
<1>2. /\ u \in TradeData /\ u.trader = trade[p].trader /\ u.offer = trade[p].offer
      /\ v \in TradeData /\ v.trader = trade[q].trader /\ v.offer = trade[q].offer /\ ~v.accepted
  BY <1>1, Setters
<1>3. t = [trade EXCEPT ![p] = u]
  BY DEF Accepted
<1>4. t \in [Players -> TradeData \cup {NoTrade}] /\ t[p] = u /\ \A r \in Players \ {p} : t[r] = trade[r]
  <2> HIDE DEF u
  <2> QED
    BY <1>2, <1>3 DEF TradeInv, TradeType
<1>5. trade' = t \/ trade' = [t EXCEPT ![q] = v]
  BY <1>1, <1>4
<1> HIDE DEF u, v, q
<1>6. /\ trade' \in [Players -> TradeData \cup {NoTrade}]
      /\ trade'[p] = u
      /\ trade'[q] = v \/ trade'[q] = trade[q]
      /\ \A r \in Players \ {p, q} : trade'[r] = trade[r]
  BY <1>1, <1>2, <1>4, <1>5
<1>7. /\ agreed' \in [Players -> Offers \X Offers]
      /\ trade'[p].accepted => agreed'[p] = <<trade[p].offer, trade[q].offer>>
      /\ \A r \in Players \ {p} : trade'[r].accepted => agreed'[r] = agreed[r]
  BY <1>1, Basics DEF Accepts, TradeInv, TradeType, q
<1>8. ASSUME NEW r \in Players
      PROVE  /\ trade'[r].trader = trade[r].trader
             /\ trade'[r].offer = trade[r].offer
             /\ Trading(r)' <=> Trading(r)
             /\ trade'[r].accepted => agreed'[r] = <<trade[r].offer, trade[Trader(r)].offer>>
  <2>1. CASE r = p
    BY <2>1, <1>2, <1>6, <1>7, Basics DEF Trading, q
  <2>2. CASE r = q /\ trade'[q] = v
    BY <2>2, <1>1, <1>2, Basics DEF Trading
  <2>3. CASE r # p /\ trade'[r] = trade[r]
    BY <2>3, <1>7 DEF Trading, TradeInv, AcceptedTermsStand
  <2> QED
    BY <2>1, <2>2, <2>3, <1>6
<1> QED
  BY <1>6, <1>7, <1>8, FlagsChange

\* No TradeData changes: what happens to items and money between the handlers, and players who come and go without a trade.
LEMMA TradesStay ==
    ASSUME TradeInv, trade' = trade, agreed' = agreed \/ Remember,
           online' \subseteq Players, \A r \in Players : Trading(r) => r \in online'
    PROVE  TradeInv'
<1>1. agreed' \in [Players -> Offers \X Offers] /\ \A r \in Players : trade[r].accepted => agreed'[r] = agreed[r]
  BY RememberTyped DEF TradeInv, TradeType
<1> QED
  BY <1>1 DEF TradeInv, TradeType, Mutual, AcceptedTermsStand, Trading, Trader

-----------------------------------------------------------------------------
(***************************************************************************)
(* Every step keeps the invariant on the trades, one step for each action. *)
(***************************************************************************)
LEMMA AcceptKeeps ==
    ASSUME TradeInv, NEW p \in Players, AcceptTrade(p)
    PROVE  TradeInv'
<1>1. CASE AcceptWithoutMoney(p)
  BY <1>1, OneUnaccepts DEF AcceptWithoutMoney, world
<1>2. CASE AcceptPartnerWithoutMoney(p)
  BY <1>2, OneAccepts DEF AcceptPartnerWithoutMoney, world
<1>3. CASE AcceptIneligible(p)
  BY <1>3, OneAccepts DEF AcceptIneligible, Sound, world
<1>4. CASE AcceptFirst(p)
  BY <1>4, OneAccepts DEF AcceptFirst, Sound, world
<1>5. CASE AcceptSpellFails(p)
  <2>1. Trading(p) /\ Remember /\ online' = online
    BY <1>5 DEF AcceptSpellFails, Second, Sound, world
  <2>2. PICK r \in {p, Trader(p)} : trade' = Changed(r, [trade[r].offer EXCEPT !.spell = NoSpell])
    BY <1>5 DEF AcceptSpellFails
  <2>3. r \in Players /\ Trading(r)
    BY <2>1, Partner DEF TradeInv, Mutual
  <2>4. [trade[r].offer EXCEPT !.spell = NoSpell] \in Offers
    BY <2>3, Partner, OfferTyped
  <2> QED
    BY <2>1, <2>2, <2>3, <2>4, OfferChanges
<1>6. CASE AcceptNoRoom(p)
  BY <1>6, BothUnaccept DEF AcceptNoRoom, Second, Sound, world
<1>7. CASE AcceptCompletes(p)
  <2>1. Trading(p) /\ trade' = Ended(p) /\ Remember /\ online' = online
    BY <1>7 DEF AcceptCompletes, Second, Sound
  <2> QED
    BY <2>1, TradeEnds
<1> QED
  BY <1>1, <1>2, <1>3, <1>4, <1>5, <1>6, <1>7 DEF AcceptTrade

\* The same for the other actions, and for a step that changes nothing.
LEMMA TradeStep ==
    ASSUME TradeInv, [Next]_vars
    PROVE  TradeInv'
<1>1. ASSUME NEW p \in Players, NEW q \in Players, InitiateTrade(p, q)
      PROVE  TradeInv'
  BY <1>1, TradeBegins
<1>2. ASSUME NEW p \in Players, TradeCancel(p)
      PROVE  TradeInv'
  BY <1>2, TradeEnds DEF TradeCancel, world
<1>3. ASSUME NEW p \in Players, UnacceptTrade(p)
      PROVE  TradeInv'
  BY <1>3, OneUnaccepts DEF UnacceptTrade, world
<1>4. ASSUME NEW p \in Players, NEW sum \in Amounts, SetTradeGold(p, sum)
      PROVE  TradeInv'
  <2>1. Trading(p) /\ Remember /\ online' = online /\ trade' = Changed(p, [trade[p].offer EXCEPT !.money = sum])
    BY <1>4 DEF SetTradeGold, world
  <2>2. sum \in Nat
    BY TradeAssumption
  <2>3. [trade[p].offer EXCEPT !.money = sum] \in Offers
    BY <2>1, <2>2, Partner, OfferTyped
  <2> QED
    BY <2>1, <2>3, OfferChanges
<1>5. ASSUME NEW p \in Players, NEW s \in Slots, NEW i \in Items, SetTradeItem(p, s, i)
      PROVE  TradeInv'
  BY <1>5, ItemChanges DEF SetTradeItem, world
<1>6. ASSUME NEW p \in Players, NEW s \in Slots, ClearTradeItem(p, s)
      PROVE  TradeInv'
  BY <1>6, ItemChanges DEF ClearTradeItem, world
<1>7. ASSUME NEW p \in Players, NEW spell \in Spells, CastOnTradeItem(p, spell)
      PROVE  TradeInv'
  <2>1. Trading(p) /\ Remember /\ online' = online /\ trade' = Changed(p, [trade[p].offer EXCEPT !.spell = spell])
    BY <1>7 DEF CastOnTradeItem, world
  <2>2. [trade[p].offer EXCEPT !.spell = spell] \in Offers
    BY <2>1, Partner, OfferTyped
  <2> QED
    BY <2>1, <2>2, OfferChanges
<1>8. ASSUME NEW p \in Players, AcceptTrade(p)
      PROVE  TradeInv'
  BY <1>8, AcceptKeeps
<1>9. ASSUME NEW p \in Players, Logout(p)
      PROVE  TradeInv'
  <2>1. Remember /\ online' = online \ {p} /\ p \in online
    BY <1>9 DEF Logout
  <2>2. CASE Trading(p)
    BY <1>9, <2>1, <2>2, TradeEnds DEF Logout
  <2>3. CASE ~Trading(p)
    <3>1. trade' = trade
      BY <1>9, <2>3 DEF Logout
    <3>2. online' \subseteq Players /\ \A r \in Players : Trading(r) => r \in online'
      BY <2>1, <2>3 DEF TradeInv, TradeType, Mutual
    <3> QED
      BY <2>1, <3>1, <3>2, TradesStay
  <2> QED
    BY <2>2, <2>3
<1>10. ASSUME NEW p \in Players, Login(p)
       PROVE  TradeInv'
  <2>1. trade' = trade /\ agreed' = agreed /\ online' = online \cup {p}
    BY <1>10 DEF Login
  <2>2. online' \subseteq Players /\ \A r \in Players : Trading(r) => r \in online'
    BY <2>1 DEF TradeInv, TradeType, Mutual
  <2> QED
    BY <2>1, <2>2, TradesStay
<1>11. ASSUME UNCHANGED <<trade, agreed, online>>
       PROVE  TradeInv'
  <2>1. online' \subseteq Players /\ \A r \in Players : Trading(r) => r \in online'
    BY <1>11 DEF TradeInv, TradeType, Mutual
  <2> QED
    BY <1>11, <2>1, TradesStay
<1>12. ASSUME NEW p \in Players, NEW i \in Items, Gain(p, i) \/ Lose(p, i) \/ Bind(i)
       PROVE  TradeInv'
  BY <1>11, <1>12 DEF Gain, Lose, Bind
<1>13. ASSUME NEW p \in Players, NEW sum \in Amounts, MoneyChanges(p, sum)
       PROVE  TradeInv'
  BY <1>11, <1>13 DEF MoneyChanges
<1>14. CASE UNCHANGED vars
  BY <1>11, <1>14 DEF vars
<1> QED
  BY <1>1, <1>2, <1>3, <1>4, <1>5, <1>6, <1>7, <1>8, <1>9, <1>10, <1>12, <1>13, <1>14 DEF Next

-----------------------------------------------------------------------------
(***************************************************************************)
(* Money.                                                                  *)
(***************************************************************************)
\* ModifyMoney keeps between zero and the gold limit.
LEMMA ModifyMoneyBounds ==
    ASSUME NEW money \in 0..MAX_MONEY_AMOUNT, NEW d \in Int
    PROVE  ModifyMoney(money, d) \in 0..MAX_MONEY_AMOUNT
BY TradeAssumption DEF ModifyMoney

\* A covered payment is taken in full; what is received may be cut at the limit.
LEMMA PaidAmount ==
    ASSUME MoneyType, NEW p \in Players, NEW q \in Players, HasEnoughMoney(p),
           trade[p].offer.money \in Nat, trade[q].offer.money \in Nat
    PROVE  LET sum == gold[p] - trade[p].offer.money + trade[q].offer.money
           IN  \/ Paid(p, q) = sum /\ sum \in 0..MAX_MONEY_AMOUNT
               \/ Paid(p, q) = MAX_MONEY_AMOUNT /\ sum > MAX_MONEY_AMOUNT
<1> DEFINE mine == trade[p].offer.money
           his  == trade[q].offer.money
           rest == ModifyMoney(gold[p], -mine)
<1>1. gold[p] \in 0..MAX_MONEY_AMOUNT /\ mine \in Nat /\ his \in Nat /\ gold[p] >= mine
  BY DEF MoneyType, HasEnoughMoney
<1>2. Paid(p, q) = ModifyMoney(rest, his)
  BY DEF Paid
<1> HIDE DEF mine, his
<1>3. rest = gold[p] - mine
  BY <1>1, TradeAssumption DEF ModifyMoney
<1> HIDE DEF rest
<1>4. \/ ModifyMoney(rest, his) = rest + his /\ rest + his \in 0..MAX_MONEY_AMOUNT
      \/ ModifyMoney(rest, his) = MAX_MONEY_AMOUNT /\ rest + his > MAX_MONEY_AMOUNT
  BY <1>1, <1>3, TradeAssumption DEF ModifyMoney
<1> QED
  BY <1>2, <1>3, <1>4 DEF mine, his

\* The completion of a trade in a state of the invariant.
LEMMA CompletionPays ==
    ASSUME IInv
    PROVE  MoneyStep
<1> SUFFICES ASSUME NEW p \in Players, AcceptCompletes(p)
             PROVE  LET q      == Trader(p)
                        before == gold[p] + gold[q]
                        after  == gold'[p] + gold'[q]
                    IN  /\ after = before \/ (after < before /\ MAX_MONEY_AMOUNT \in {gold'[p], gold'[q]})
                        /\ {gold'[p], gold'[q]} \subseteq 0..MAX_MONEY_AMOUNT
  BY DEF MoneyStep
<1> DEFINE q == Trader(p)
<1>1. Trading(p) /\ HasEnoughMoney(p) /\ HasEnoughMoney(q)
  BY DEF AcceptCompletes, Second, Sound
<1>2. /\ q \in Players /\ q # p
      /\ trade[p].offer.money \in Nat /\ trade[q].offer.money \in Nat
  BY <1>1, Partner DEF IInv, Offers
<1>3. gold' = [gold EXCEPT ![p] = Paid(p, q), ![q] = Paid(q, p)]
  BY DEF AcceptCompletes
<1> HIDE DEF q
<1>4. gold'[p] = Paid(p, q) /\ gold'[q] = Paid(q, p)
  BY <1>2, <1>3 DEF IInv, MoneyType
<1>5. gold[p] \in 0..MAX_MONEY_AMOUNT /\ gold[q] \in 0..MAX_MONEY_AMOUNT
  BY <1>2 DEF IInv, MoneyType
<1> DEFINE mine == trade[p].offer.money
           his  == trade[q].offer.money
<1>6. \/ gold'[p] = gold[p] - mine + his /\ gold'[p] \in 0..MAX_MONEY_AMOUNT
      \/ gold'[p] = MAX_MONEY_AMOUNT /\ gold[p] - mine + his > MAX_MONEY_AMOUNT
  BY <1>1, <1>2, <1>4, PaidAmount DEF IInv
<1>7. \/ gold'[q] = gold[q] - his + mine /\ gold'[q] \in 0..MAX_MONEY_AMOUNT
      \/ gold'[q] = MAX_MONEY_AMOUNT /\ gold[q] - his + mine > MAX_MONEY_AMOUNT
  BY <1>1, <1>2, <1>4, PaidAmount DEF IInv
<1>8. mine \in Nat /\ his \in Nat
  BY <1>2
<1> HIDE DEF mine, his
<1>9. gold'[p] \in 0..MAX_MONEY_AMOUNT /\ gold'[q] \in 0..MAX_MONEY_AMOUNT
  BY <1>6, <1>7, TradeAssumption
<1>10. \/ gold'[p] + gold'[q] = gold[p] + gold[q]
       \/ gold'[p] + gold'[q] < gold[p] + gold[q] /\ MAX_MONEY_AMOUNT \in {gold'[p], gold'[q]}
  BY <1>5, <1>6, <1>7, <1>8, TradeAssumption
<1> QED
  BY <1>9, <1>10 DEF q

\* Nobody has less than nothing or more than the limit.
LEMMA MoneyTyped ==
    ASSUME IInv, [Next]_vars
    PROVE  MoneyType'
<1>1. CASE UNCHANGED gold
  BY <1>1 DEF IInv, MoneyType
<1>2. ASSUME NEW p \in Players, NEW sum \in Amounts, MoneyChanges(p, sum)
      PROVE  MoneyType'
  BY <1>2, TradeAssumption DEF IInv, MoneyType, MoneyChanges
<1>3. ASSUME NEW p \in Players, AcceptCompletes(p)
      PROVE  MoneyType'
  <2> DEFINE q == Trader(p)
  <2>1. q \in Players /\ q # p /\ gold' = [gold EXCEPT ![p] = Paid(p, q), ![q] = Paid(q, p)]
    BY <1>3, Partner DEF IInv, AcceptCompletes, Second, Sound
  <2>2. {gold'[p], gold'[q]} \subseteq 0..MAX_MONEY_AMOUNT
    BY <1>3, CompletionPays DEF MoneyStep
  <2> HIDE DEF q
  <2>3. gold \in [Players -> 0..MAX_MONEY_AMOUNT]
    BY DEF IInv, MoneyType
  <2>4. gold'[p] = Paid(p, q) /\ gold'[q] = Paid(q, p)
    BY <2>1, <2>3
  <2> QED
    BY <2>1, <2>2, <2>3, <2>4 DEF MoneyType
<1>4. ASSUME NEW p \in Players, AcceptTrade(p), ~AcceptCompletes(p)
      PROVE  UNCHANGED gold
  BY <1>4 DEF AcceptTrade, AcceptWithoutMoney, AcceptPartnerWithoutMoney, AcceptIneligible, AcceptFirst,
              AcceptSpellFails, AcceptNoRoom, world
<1>5. CASE UNCHANGED vars
  BY <1>1, <1>5 DEF vars
<1>6. CASE Next
  <2>1. PICK p \in Players :
            \/ AcceptTrade(p)
            \/ \E sum \in Amounts : MoneyChanges(p, sum)
            \/ UNCHANGED gold
    BY <1>6 DEF Next, InitiateTrade, TradeCancel, UnacceptTrade, SetTradeGold, SetTradeItem, ClearTradeItem,
                CastOnTradeItem, Logout, Login, Gain, Lose, Bind, world
  <2> QED
    BY <2>1, <1>1, <1>2, <1>3, <1>4
<1> QED
  BY <1>5, <1>6

-----------------------------------------------------------------------------
\* The constructors: no player has an m_trade, and none has accepted anything.
LEMMA InitHolds == Init => IInv
<1> SUFFICES ASSUME Init PROVE IInv
  OBVIOUS
<1>1. TradeType
  BY Basics DEF Init, TradeType
<1>2. \A p \in Players : ~Trading(p) /\ ~trade[p].accepted
  BY Basics DEF Init, Trading
<1>3. MoneyType
  BY TradeAssumption DEF Init, MoneyType
<1> QED
  BY <1>1, <1>2, <1>3 DEF IInv, TradeInv, Mutual, AcceptedTermsStand

\* The invariant holds in every reachable state.
LEMMA Invariance == Spec => []IInv
<1>1. IInv /\ [Next]_vars => IInv'
  BY TradeStep, MoneyTyped DEF IInv
<1> QED
  BY <1>1, InitHolds, PTL DEF Spec

(***************************************************************************)
(* With any number of players, the two m_trade of a trade are created and  *)
(* deleted together and lead to each other: GetTraderData is never NULL.   *)
(***************************************************************************)
THEOREM MutualCorrect == Spec => []Mutual
<1>1. IInv => Mutual
  BY DEF IInv, TradeInv
<1> QED
  BY <1>1, Invariance, PTL

(***************************************************************************)
(* No acceptance outlives the terms it was given for, whoever changes his  *)
(* offer: TradeData::SetItem, SetSpell and SetMoney.                       *)
(***************************************************************************)
THEOREM TermsCorrect == Spec => []AcceptedTermsStand
<1>1. IInv => AcceptedTermsStand
  BY DEF IInv, TradeInv
<1> QED
  BY <1>1, Invariance, PTL

(***************************************************************************)
(* HandleAcceptTradeOpcode creates no money and loses some only at the     *)
(* gold limit, for every limit and all sums: ModifyMoney is called four    *)
(* times, and each deduction is covered.                                   *)
(***************************************************************************)
THEOREM MoneyCorrect == Spec => MoneyKept
<1>1. IInv => [MoneyStep]_vars
  BY CompletionPays
<1> QED
  BY <1>1, Invariance, PTL DEF MoneyKept

=============================================================================
