------------------------------- MODULE Trade --------------------------------
(***************************************************************************)
(* The trade window (TradeData in Player.cpp and Player.h, the handlers of *)
(* TradeHandler.cpp): what two players offer, their acceptances, and the   *)
(* exchange.                                                               *)
(*                                                                         *)
(* The trade opcodes are PROCESS_THREADUNSAFE: World::UpdateSessions runs  *)
(* one handler at a time, and no map is updated meanwhile, so a handler is *)
(* one step.  Between two of them the players loot, spend, destroy, equip  *)
(* and cast: the steps under "Between the handlers".                       *)
(*                                                                         *)
(* An item is a whole stack and fills one place of an inventory; one that  *)
(* CloneItem may make is there from the beginning, at Unmade.  Packets to  *)
(* the clients are left out.                                               *)
(***************************************************************************)
EXTENDS Integers, FiniteSets

CONSTANTS
    Players,
    Items,
    NoItem,             \* m_items[slot] is 0
    Nowhere,            \* the place of an item no player has
    Unmade,             \* the place of an item that has yet to be cloned
    Spells,             \* spells that are cast on an item of the trade window
    NoSpell,
    TradedCount,        \* TRADE_SLOT_TRADED_COUNT
    MAX_MONEY_AMOUNT,
    Room,               \* places in a player's inventory
    KindOf,             \* the item template of an item
    Limit,              \* the MaxCount of a template
    AllowedGUIDs,       \* who an item bound on pick-up may still be given to
    AccountBound,       \* the templates with ITEM_PROTO_FLAG_BIND_TO_ACCOUNT
    InitialPlace,       \* where an item is at first
    InitialState,       \* "free", "shared" (ITEM_FLAG_BOP_TRADEABLE) or "bound"
    Amounts,            \* bound: the sums of money that are earned and offered
    MaxTrades,          \* bound: the trades that are completed
    MaxEvents           \* bound: how often something happens to the players' items and money

TradedSlots == 1..TradedCount
NonTraded   == TradedCount + 1      \* TRADE_SLOT_NONTRADED
Slots       == 1..NonTraded

ASSUME TradeAssumption ==
    /\ NoItem \notin Items
    /\ {Nowhere, Unmade} \cap Players = {}
    /\ Nowhere # Unmade
    /\ NoSpell \notin Spells
    /\ TradedCount \in Nat \ {0}
    /\ MAX_MONEY_AMOUNT \in Nat
    /\ Amounts \subseteq 0..MAX_MONEY_AMOUNT
    /\ MaxTrades \in Nat
    /\ MaxEvents \in Nat
    /\ AllowedGUIDs \in [Items -> SUBSET Players]
    /\ InitialPlace \in [Items -> Players \cup {Nowhere, Unmade}]
    /\ InitialState \in [Items -> {"free", "shared", "bound"}]

VARIABLES
    trade,      \* the TradeData of a player's m_trade, or NoTrade
    where,      \* the player who has an item
    state,      \* the item is "free", "bound", or "shared" (ITEM_FLAG_BOP_TRADEABLE)
    gold,       \* the money of a player
    online,     \* the players in the world
    trades,     \* how many trades have been completed
    events,     \* how often something has happened to items and money
    agreed      \* the two offers a player saw when it last accepted

vars   == <<trade, where, state, gold, online, trades, events, agreed>>
world  == <<where, state, gold, online, trades, events>>

Offers == [money : Nat, spell : Spells \cup {NoSpell}, items : [Slots -> Items \cup {NoItem}]]

NoOffer == [money |-> 0, spell |-> NoSpell, items |-> [s \in Slots |-> NoItem]]

TradeData == [trader : Players, accepted : BOOLEAN, offer : Offers]

NewTradeData(q) == [trader |-> q, accepted |-> FALSE, offer |-> NoOffer]

\* m_trade is NULL.
NoTrade == [trader |-> Nowhere, accepted |-> FALSE, offer |-> NoOffer]

NoTerms == <<NoOffer, NoOffer>>

Trading(p) == trade[p] # NoTrade

Trader(p) == trade[p].trader

Init ==
    /\ trade = [p \in Players |-> NoTrade]
    /\ where = InitialPlace
    /\ state = InitialState
    /\ gold \in [Players -> Amounts]
    /\ online = Players
    /\ trades = 0
    /\ events = 0
    /\ agreed = [p \in Players |-> NoTerms]

-----------------------------------------------------------------------------
\* The properties' memory: the terms are forgotten with the acceptance.
Remember == agreed' = [p \in Players |-> IF trade'[p].accepted THEN agreed[p] ELSE NoTerms]

\* Mutant: only the own m_trade is deleted.
Ended_OneSide(p) == [trade EXCEPT ![p] = NoTrade]

\* delete m_trade on both sides.
Ended(p) == [trade EXCEPT ![p] = NoTrade, ![Trader(p)] = NoTrade]

\* Mutant: the partner's acceptance stays.
Changed_OneSide(p, offer) == [trade EXCEPT ![p] = [@ EXCEPT !.offer = offer, !.accepted = FALSE]]

\* TradeData::SetItem, SetSpell and SetMoney: a changed offer takes both acceptances back.
Changed(p, offer) == [trade EXCEPT ![p] = [@ EXCEPT !.offer = offer, !.accepted = FALSE],
                                   ![Trader(p)] = [@ EXCEPT !.accepted = FALSE]]

\* HandleInitiateTradeOpcode; what the players may be doing (dead, stunned, flying, too far away...) lets it return.
InitiateTrade(p, q) ==
    /\ trades < MaxTrades
    /\ {p, q} \subseteq online
    /\ p # q
    /\ ~Trading(p)
    /\ ~Trading(q)
    /\ trade' = [trade EXCEPT ![p] = NewTradeData(q), ![q] = NewTradeData(p)]
    /\ Remember
    /\ UNCHANGED world

\* Player::TradeCancel, from HandleCancelTradeOpcode and the start of a flight.
TradeCancel(p) ==
    /\ Trading(p)
    /\ trade' = Ended(p)
    /\ Remember
    /\ UNCHANGED world

\* HandleUnacceptTradeOpcode
UnacceptTrade(p) ==
    /\ Trading(p)
    /\ trade' = [trade EXCEPT ![p] = [@ EXCEPT !.accepted = FALSE]]
    /\ Remember
    /\ UNCHANGED world

\* HandleSetTradeGoldOpcode: any sum, it is checked when the trade is accepted.
SetTradeGold(p, sum) ==
    /\ Trading(p)
    /\ trade[p].offer.money # sum
    /\ trade' = Changed(p, [trade[p].offer EXCEPT !.money = sum])
    /\ Remember
    /\ UNCHANGED world

\* Item::CanBeTraded
CanBeTraded(i) == state[i] # "bound"

(***************************************************************************)
(* TradeData::SetItem: the spell on a changed item of the last slot is     *)
(* taken from the partner's offer, the player's own spell always.          *)
(***************************************************************************)
SetItem(p, s, i) ==
    LET offer   == [trade[p].offer EXCEPT !.items[s] = i, !.spell = NoSpell]
        partner == Trader(p)
    IN  IF s = NonTraded THEN [Changed(p, offer) EXCEPT ![partner].offer.spell = NoSpell]
                         ELSE Changed(p, offer)

\* HandleSetTradeItemOpcode: an item the player has, that is in no slot yet.
SetTradeItem(p, s, i) ==
    /\ Trading(p)
    /\ where[i] = p
    /\ s # NonTraded => CanBeTraded(i)
    /\ \A t \in Slots : trade[p].offer.items[t] # i
    /\ trade' = SetItem(p, s, i)
    /\ Remember
    /\ UNCHANGED world

\* HandleClearTradeItemOpcode
ClearTradeItem(p, s) ==
    /\ Trading(p)
    /\ trade[p].offer.items[s] # NoItem
    /\ trade' = SetItem(p, s, NoItem)
    /\ Remember
    /\ UNCHANGED world

\* TradeData::GetItem looks an item up in the inventory of the player who offers it.
GetItem(p, s) ==
    LET i == trade[p].offer.items[s]
    IN  IF i # NoItem /\ where[i] = p THEN i ELSE NoItem

\* Spell::cast on the last slot of the partner: the spell is kept for the completion.
CastOnTradeItem(p, spell) ==
    /\ Trading(p)
    /\ trade[p].offer.spell = NoSpell
    /\ GetItem(Trader(p), NonTraded) # NoItem
    /\ trade' = Changed(p, [trade[p].offer EXCEPT !.spell = spell])
    /\ Remember
    /\ UNCHANGED world

-----------------------------------------------------------------------------
\* Item::IsBindedNotWith
IsBindedNotWith(i, p) ==
    /\ state[i] # "free"
    /\ where[i] # p
    /\ ~(state[i] = "shared" /\ p \in AllowedGUIDs[i])
    /\ KindOf[i] \notin AccountBound

\* The items of the traded slots, as setAcceptTradeMode collects and flags them.
TradedItems(p) == {GetItem(p, s) : s \in TradedSlots} \ {NoItem}

Stored(p, places) == {i \in Items : places[i] = p}

\* Player::CanTakeMoreSimilarItems: the items in trade are counted too.
CanTakeMoreSimilarItems(p, i, places) ==
    Cardinality({j \in Stored(p, places) \ {i} : KindOf[j] = KindOf[i]}) < Limit[KindOf[i]]

(***************************************************************************)
(* Player::CanStoreItems: there is room for all of them together, where an *)
(* item in trade no longer takes any, but each is held against the limit   *)
(* of its kind alone.                                                      *)
(***************************************************************************)
CanStoreItems(p, from) ==
    LET items == TradedItems(from)
    IN  /\ \A i \in items : ~IsBindedNotWith(i, p) /\ CanTakeMoreSimilarItems(p, i, where)
        /\ Cardinality(Stored(p, where) \ TradedItems(p)) + Cardinality(items) <= Room[p]

\* Player::CanStoreItem for an item that is in nobody's inventory at the moment; the places that are in the
\* destination list already are not taken again.
CanStoreItem(p, i, places, reserved) ==
    /\ ~IsBindedNotWith(i, p)
    /\ CanTakeMoreSimilarItems(p, i, places)
    /\ Cardinality(Stored(p, places)) + reserved < Room[p]

\* Item::CloneItem: a new item of the same kind, that may not be given on if the first was bound.
Clone(p, i, goods) ==
    LET j == CHOOSE c \in Items : goods.where[c] = Unmade /\ KindOf[c] = KindOf[i]
    IN  [goods EXCEPT !.where[j] = p, !.state[j] = IF state[i] = "free" THEN "free" ELSE "bound"]

\* MoveItemToInventory, StoreItem: the item goes to the last place of the destination list, a clone of it to
\* every place before.
MoveItemTo(p, i, goods, reserved) ==
    LET stored == [goods EXCEPT !.where[i] = p]
    IN  IF reserved = 0 THEN stored ELSE Clone(p, i, stored)

\* The return of an item that was removed for the trade; without room it is lost.
GiveBack(p, i, goods, reserved) ==
    IF i # NoItem /\ CanStoreItem(p, i, goods.where, reserved) THEN MoveItemTo(p, i, goods, reserved) ELSE goods

Give(p, i, goods) == IF i = NoItem THEN goods ELSE MoveItemTo(p, i, goods, 0)

CanTake(p, i, goods) == i = NoItem \/ CanStoreItem(p, i, goods.where, 0)

\* The places CanTake has put into the destination list, traderDst or playerDst.
Reserved(p, i, goods) == IF i # NoItem /\ CanTake(p, i, goods) THEN 1 ELSE 0

\* Mutant: each item of a slot goes where it can.
MoveSlot_Alone(p, q, mine, his, goods) ==
    LET given == IF CanTake(q, mine, goods) THEN Give(q, mine, goods) ELSE GiveBack(p, mine, goods, 0)
    IN  IF CanTake(p, his, given) THEN Give(p, his, given) ELSE GiveBack(q, his, given, 0)

(***************************************************************************)
(* One turn of the loop of moveItems: both items of a slot change hands,   *)
(* or both go back.  What goes back is stored with the destination list    *)
(* that the other item has left there.                                     *)
(***************************************************************************)
MoveSlot(p, q, mine, his, goods) ==
    IF CanTake(q, mine, goods) /\ CanTake(p, his, goods)
    THEN Give(p, his, Give(q, mine, goods))
    ELSE GiveBack(q, his, GiveBack(p, mine, goods, Reserved(p, his, goods)), Reserved(q, mine, goods))

\* Execute trade: the items are removed on both sides, then stored slot by slot.
MovedItems(p, q) ==
    LET removed == [i \in Items |-> IF i \in TradedItems(p) \cup TradedItems(q) THEN Nowhere ELSE where[i]]
        moved[s \in 0..TradedCount] ==
            IF s = 0 THEN [where |-> removed, state |-> state]
            ELSE MoveSlot(p, q, GetItem(p, s), GetItem(q, s), moved[s - 1])
    IN  moved[TradedCount]

\* Player::ModifyMoney
ModifyMoney(money, d) ==
    IF d < 0 THEN IF money > -d THEN money + d ELSE 0
    ELSE IF money < MAX_MONEY_AMOUNT - d THEN money + d ELSE MAX_MONEY_AMOUNT

Paid(p, q) == ModifyMoney(ModifyMoney(gold[p], -trade[p].offer.money), trade[q].offer.money)

\* Mutant: the gold is not checked at the end of the trade either.
HasEnoughMoney_Unchecked(p) == TRUE

\* Player::HasEnoughMoney
HasEnoughMoney(p) == gold[p] >= trade[p].offer.money

-----------------------------------------------------------------------------
(***************************************************************************)
(* HandleAcceptTradeOpcode, one action for each way out of it.  The flag   *)
(* is set before the checks.                                               *)
(***************************************************************************)
Accepted(p) == [trade EXCEPT ![p].accepted = TRUE]

\* The offers p has before it when it accepts.
Accepts(p) ==
    agreed' = [r \in Players |-> CASE ~trade'[r].accepted -> NoTerms
                                   [] r = p               -> <<trade[p].offer, trade[Trader(p)].offer>>
                                   [] OTHER               -> agreed[r]]

AcceptWithoutMoney(p) ==
    /\ Trading(p)
    /\ ~HasEnoughMoney(p)
    /\ trade' = [trade EXCEPT ![p].accepted = FALSE]
    /\ Remember
    /\ UNCHANGED world

AcceptPartnerWithoutMoney(p) ==
    /\ Trading(p)
    /\ HasEnoughMoney(p)
    /\ ~HasEnoughMoney(Trader(p))
    /\ trade' = [Accepted(p) EXCEPT ![Trader(p)].accepted = FALSE]
    /\ Accepts(p)
    /\ UNCHANGED world

\* The partner's items are not asked for their binding here, only those of the one who accepts.
Eligible(p) ==
    /\ \A i \in TradedItems(p) : CanBeTraded(i) /\ ~IsBindedNotWith(i, Trader(p))
    /\ \A i \in TradedItems(Trader(p)) : CanBeTraded(i)

Sound(p) == Trading(p) /\ HasEnoughMoney(p) /\ HasEnoughMoney(Trader(p))

\* The client is told that the trade is over; the flag stays set.
AcceptIneligible(p) ==
    /\ Sound(p)
    /\ ~Eligible(p)
    /\ trade' = Accepted(p)
    /\ Accepts(p)
    /\ UNCHANGED world

AcceptFirst(p) ==
    /\ Sound(p)
    /\ Eligible(p)
    /\ ~trade[Trader(p)].accepted
    /\ trade' = Accepted(p)
    /\ Accepts(p)
    /\ UNCHANGED world

Second(p) == Sound(p) /\ Eligible(p) /\ trade[Trader(p)].accepted

HasSpell(p) == trade[p].offer.spell # NoSpell

\* The item in the partner's last slot is still there.
CanCast(p) == HasSpell(p) => GetItem(Trader(p), NonTraded) # NoItem

\* A spell cannot be cast now: Spell::CheckCast says so, or its item is gone; SetSpell(0).
AcceptSpellFails(p) ==
    /\ Second(p)
    /\ \E r \in {p, Trader(p)} :
        /\ HasSpell(r)
        /\ r # p => CanCast(p)
        /\ trade' = Changed(r, [trade[r].offer EXCEPT !.spell = NoSpell])
    /\ Remember
    /\ UNCHANGED world

BothCanStore(p) == CanStoreItems(p, Trader(p)) /\ CanStoreItems(Trader(p), p)

AcceptNoRoom(p) ==
    /\ Second(p)
    /\ CanCast(p)
    /\ CanCast(Trader(p))
    /\ ~BothCanStore(p)
    /\ trade' = [trade EXCEPT ![p].accepted = FALSE, ![Trader(p)].accepted = FALSE]
    /\ Remember
    /\ UNCHANGED world

\* The items the two spells are cast on after the exchange; what a spell does to its item is not modelled.
Targets(p) == {GetItem(Trader(r), NonTraded) : r \in {r \in {p, Trader(p)} : HasSpell(r)}}

AcceptCompletes(p) ==
    LET q == Trader(p)
    IN  /\ Second(p)
        /\ CanCast(p)
        /\ CanCast(q)
        /\ BothCanStore(p)
        /\ LET moved == MovedItems(p, q)
           IN  where' = moved.where /\ state' = moved.state
        /\ gold' = [gold EXCEPT ![p] = Paid(p, q), ![q] = Paid(q, p)]
        /\ trade' = Ended(p)
        /\ Remember
        /\ trades' = trades + 1
        /\ UNCHANGED <<online, events>>

AcceptTrade(p) ==
    \/ AcceptWithoutMoney(p)
    \/ AcceptPartnerWithoutMoney(p)
    \/ AcceptIneligible(p)
    \/ AcceptFirst(p)
    \/ AcceptSpellFails(p)
    \/ AcceptNoRoom(p)
    \/ AcceptCompletes(p)

-----------------------------------------------------------------------------
(***************************************************************************)
(* Between the handlers.                                                   *)
(***************************************************************************)
\* Player::CleanupsBeforeDelete
Logout(p) ==
    /\ p \in online
    /\ online' = online \ {p}
    /\ trade' = IF Trading(p) THEN Ended(p) ELSE trade
    /\ Remember
    /\ UNCHANGED <<where, state, gold, trades, events>>

Login(p) ==
    /\ p \notin online
    /\ online' = online \cup {p}
    /\ UNCHANGED <<trade, where, state, gold, trades, events, agreed>>

Event ==
    /\ events < MaxEvents
    /\ events' = events + 1

\* An item is looted or bought.
Gain(p, i) ==
    /\ Event
    /\ p \in online
    /\ where[i] = Nowhere
    /\ state[i] = "free"
    /\ CanStoreItem(p, i, where, 0)
    /\ where' = [where EXCEPT ![i] = p]
    /\ UNCHANGED <<trade, state, gold, online, trades, agreed>>

\* An item is destroyed, sold, mailed or used up; nobody looks whether it is offered in a trade.
Lose(p, i) ==
    /\ Event
    /\ p \in online
    /\ where[i] = p
    /\ where' = [where EXCEPT ![i] = Nowhere]
    /\ UNCHANGED <<trade, state, gold, online, trades, agreed>>

\* An item is equipped, or the time in which it may be given on is over.
Bind(i) ==
    /\ Event
    /\ where[i] \in online
    /\ state[i] # "bound"
    /\ state' = [state EXCEPT ![i] = "bound"]
    /\ UNCHANGED <<trade, where, gold, online, trades, agreed>>

\* Money is earned or spent.
MoneyChanges(p, sum) ==
    /\ Event
    /\ p \in online
    /\ gold' = [gold EXCEPT ![p] = sum]
    /\ UNCHANGED <<trade, where, state, online, trades, agreed>>

-----------------------------------------------------------------------------
Next ==
    \E p \in Players :
        \/ \E q \in Players : InitiateTrade(p, q)
        \/ TradeCancel(p)
        \/ UnacceptTrade(p)
        \/ \E sum \in Amounts : SetTradeGold(p, sum)
        \/ \E s \in Slots, i \in Items : SetTradeItem(p, s, i)
        \/ \E s \in Slots : ClearTradeItem(p, s)
        \/ \E spell \in Spells : CastOnTradeItem(p, spell)
        \/ AcceptTrade(p)
        \/ Logout(p)
        \/ Login(p)
        \/ \E i \in Items : Gain(p, i) \/ Lose(p, i)
        \/ \E i \in Items : Bind(i)
        \/ \E sum \in Amounts : MoneyChanges(p, sum)

Spec == Init /\ [][Next]_vars

-----------------------------------------------------------------------------
(***************************************************************************)
(* m_trade and the partner's m_trade are created and deleted together, and *)
(* lead to each other: GetTraderData never meets NULL, or the TradeData of *)
(* a third player.                                                         *)
(***************************************************************************)
Mutual ==
    \A p \in Players : Trading(p) =>
        /\ p \in online
        /\ Trader(p) \in Players \ {p}
        /\ Trading(Trader(p))
        /\ Trader(Trader(p)) = p

(***************************************************************************)
(* A player's acceptance stands only as long as both offers are what they  *)
(* were when it accepted: SetItem, SetSpell and SetMoney take it back, on  *)
(* both sides, whoever changes what.                                       *)
(***************************************************************************)
AcceptedTermsStand ==
    \A p \in Players : trade[p].accepted => agreed[p] = <<trade[p].offer, trade[Trader(p)].offer>>

OfKind(i, items) == {j \in items : KindOf[j] = KindOf[i]}

\* With what it gets and without what it gives p has no more of any kind than it may have.
WithinLimits(p, q) ==
    \A i \in TradedItems(q) :
        Cardinality(OfKind(i, (Stored(p, where) \ TradedItems(p)) \cup TradedItems(q))) <= Limit[KindOf[i]]

Changes(i, p) == i # NoItem /\ where'[i] = p

\* Neither of the two gives an item of a slot and does not get the other one.
SlotsWhole(p, q) ==
    \A s \in TradedSlots :
        GetItem(p, s) # NoItem /\ GetItem(q, s) # NoItem =>
            (Changes(GetItem(p, s), q) <=> Changes(GetItem(q, s), p))

\* What p does not get rid of it has again, unless it has no place left besides the one that was kept for the
\* item it was to get, or too many of the kind by then.
ComesBack(p, q) ==
    \A i \in TradedItems(p) : where'[i] # q =>
        \/ where'[i] = p
        \/ /\ where'[i] = Nowhere
           /\ \/ Cardinality(Stored(p, where')) + 1 >= Room[p]
              \/ Cardinality(OfKind(i, Stored(p, where'))) >= Limit[KindOf[i]]

Clones == {i \in Items : where[i] = Unmade /\ where'[i] # Unmade}

\* An item is cloned only when it comes back although the other item of its slot could have come instead.
ClonesOf(p, q) ==
    \A i \in Clones : where'[i] = p =>
        \E s \in TradedSlots : /\ GetItem(p, s) # NoItem /\ GetItem(q, s) # NoItem
                              /\ where'[GetItem(p, s)] = p
                              /\ KindOf[GetItem(p, s)] = KindOf[i]

(***************************************************************************)
(* A trade that completes is complete: when nobody would have too many of  *)
(* a kind, every item still there changes hands.  If somebody would, which *)
(* CanStoreItems does not see, then "if we trade in both directions we had *)
(* to check, if the trade will work before we actually do it": the items   *)
(* of a slot change hands together or not at all.  "Return the already     *)
(* removed items to the original owner" holds for the others but in two    *)
(* cases: with one place left or none the item is lost, and when the other *)
(* item of the slot would have fitted it comes back twice.  In any case no *)
(* other item moves, an item a spell is cast on stays, and what is bound   *)
(* comes only to those it may be given to, although the handler does not   *)
(* ask for the binding of the partner's items.                             *)
(***************************************************************************)
ExchangeComplete ==
    [][\A p \in Players : AcceptCompletes(p) =>
        LET q == Trader(p)
            traded == (TradedItems(p) \X {q}) \cup (TradedItems(q) \X {p})
        IN  /\ WithinLimits(p, q) /\ WithinLimits(q, p) =>
                /\ \A t \in traded : where'[t[1]] = t[2]
                /\ Clones = {}
            /\ SlotsWhole(p, q)
            /\ ComesBack(p, q) /\ ComesBack(q, p)
            /\ ClonesOf(p, q) /\ ClonesOf(q, p)
            /\ \A i \in Items \ Clones : where'[i] \in Players \ {where[i]} =>
                /\ <<i, where'[i]>> \in traded
                /\ i \notin Targets(p)
                /\ \/ state[i] = "free"
                   \/ /\ state[i] = "shared"
                      /\ where'[i] \in AllowedGUIDs[i] \/ KindOf[i] \in AccountBound]_vars

\* What the completion of a trade does to the money of the two players.
MoneyStep ==
    \A p \in Players : AcceptCompletes(p) =>
        LET q      == Trader(p)
            before == gold[p] + gold[q]
            after  == gold'[p] + gold'[q]
        IN  /\ after = before \/ (after < before /\ MAX_MONEY_AMOUNT \in {gold'[p], gold'[q]})
            /\ {gold'[p], gold'[q]} \subseteq 0..MAX_MONEY_AMOUNT

(***************************************************************************)
(* A trade creates no money, destroys some only at the gold limit of one   *)
(* of the two, and leaves nobody with more than that limit.                *)
(***************************************************************************)
MoneyKept == [][MoneyStep]_vars

=============================================================================
