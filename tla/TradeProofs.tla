----------------------------- MODULE TradeProofs -----------------------------
(***************************************************************************)
(* Proofs about Trade, for every number of characters and items and every  *)
(* configured limit.                                                       *)
(***************************************************************************)
EXTENDS Trade, FiniteSetTheorems, WellFoundedInduction, TLAPS

-----------------------------------------------------------------------------
(***************************************************************************)
(* What the helpers on amounts return.                                     *)
(***************************************************************************)

\* An inventory never holds a negative amount, and loses nothing by an addition
\* unless it held more than MaxItem.
LEMMA AddItemBounds ==
    ASSUME NEW held \in Nat, NEW amount \in Int
    PROVE  /\ AddItem(held, amount) \in Nat
           /\ held <= MaxItem => held <= AddItem(held, amount)
           /\ held <= MaxItem /\ amount <= MaxItem => AddItem(held, amount) <= MaxItem
BY AmountsAreNumbers DEF AddItem, Lesser

\* DelItem takes the amount or what there is.
LEMMA DelItemBounds ==
    ASSUME NEW held \in Nat, NEW amount \in Int
    PROVE  /\ DelItem(held, amount) \in Nat
           /\ DelItem(held, amount) <= held
           /\ amount >= 0 => DelItem(held, amount) >= held - amount
BY DEF DelItem

\* What may be spent, together with what is offered, is what there is.
LEMMA HasItemBounds ==
    ASSUME TypeOK, NEW c \in Char, NEW i \in Item
    PROVE  /\ HasItem(c, i) \in Nat
           /\ HasItem(c, i) <= inventory[c][i]
           /\ trading[c] /\ i \in Offered(c) /\ offer[c][i] <= inventory[c][i]
                 => HasItem(c, i) + offer[c][i] = inventory[c][i]
<1>1. inventory[c][i] \in Nat /\ offer[c][i] \in Nat \cup {NotOffered}
    BY DEF TypeOK
<1> QED BY <1>1 DEF HasItem, Offered, NotOffered

\* A new offer is an amount.
LEMMA NewOfferBounds ==
    ASSUME TypeOK, NEW c \in Char, NEW i \in Item, NEW amount \in Amounts, trading[c],
           offer[c][i] <= inventory[c][i]
    PROVE  /\ NewOffer(c, i, amount) \in Nat
           /\ NewOffer(c, i, amount) <= inventory[c][i]
<1>1. inventory[c][i] \in Nat /\ offer[c][i] \in Nat \cup {NotOffered} /\ amount \in Nat
    BY AmountsAreNumbers DEF TypeOK
<1>2. HasItem(c, i) \in Nat /\ HasItem(c, i) <= inventory[c][i]
    BY HasItemBounds
<1>3. i \in Offered(c) => HasItem(c, i) + offer[c][i] = inventory[c][i]
    BY HasItemBounds
<1>4. i \in Offered(c) => offer[c][i] \in Nat
    BY <1>1 DEF Offered
<1> QED BY <1>1, <1>2, <1>3, <1>4 DEF NewOffer, Lesser

-----------------------------------------------------------------------------
(***************************************************************************)
(* Type correctness.                                                       *)
(***************************************************************************)

\* Ending a trade keeps the types of its fields.
LEMMA EndTradeTypes ==
    ASSUME TypeOK, NEW c \in Char, EndTrade(c)
    PROVE  /\ trading' \in [Char -> BOOLEAN]
           /\ partner' \in [Char -> Char \cup {Nobody, Dangling}]
           /\ agree' \in [Char -> BOOLEAN]
           /\ offer' \in [Char -> [Item -> Nat \cup {NotOffered}]]
<1>1. NoOffer \in [Item -> Nat \cup {NotOffered}]
    BY DEF NoOffer
<1> QED BY <1>1 DEF TypeOK, EndTrade

\* Changing an offer keeps the types.
LEMMA OfferTypes ==
    ASSUME TypeOK, NEW c \in Char, NEW i \in Item, NEW amount \in Nat \cup {NotOffered},
           Offer(c, i, amount)
    PROVE  TypeOK'
BY DEF TypeOK, Offer

\* A change of one amount keeps the types.
LEMMA InventoryTypes ==
    ASSUME TypeOK, NEW c \in Char, NEW i \in Item, NEW amount \in Nat,
           inventory' = [inventory EXCEPT ![c][i] = amount],
           UNCHANGED <<online, mapid, trade_vars>>
    PROVE  TypeOK'
BY DEF TypeOK, trade_vars

\* Every amount on offer is one of the packet, of the inventory, or their sum.
LEMMA NewOfferType ==
    ASSUME TypeOK, NEW c \in Char, NEW i \in Item, NEW amount \in Amounts
    PROVE  NewOffer(c, i, amount) \in Nat
<1>1. inventory[c][i] \in Nat /\ offer[c][i] \in Nat \cup {NotOffered} /\ amount \in Nat
    BY AmountsAreNumbers DEF TypeOK
<1>2. HasItem(c, i) \in Nat
    BY HasItemBounds
<1>3. i \in Offered(c) => offer[c][i] \in Nat
    BY <1>1 DEF Offered
<1> QED BY <1>1, <1>2, <1>3 DEF NewOffer, Lesser

\* What the exchange does to the two inventories.
LEMMA ExchangeInventories ==
    ASSUME TypeOK, NEW c \in Char, Trade_Use(c), partner[c] \in Char \ {c}
    PROVE  /\ inventory' \in [Char -> [Item -> Nat]]
           /\ \A i \in Item : inventory'[c][i] =
                 DelItem(AddItem(inventory[c][i], offer[partner[c]][i]), offer[c][i])
           /\ \A i \in Item : inventory'[partner[c]][i] =
                 AddItem(DelItem(inventory[partner[c]][i], offer[partner[c]][i]), offer[c][i])
           /\ \A d \in Char \ {c, partner[c]} : inventory'[d] = inventory[d]
<1> DEFINE p == partner[c]
           give == [i \in Item |-> DelItem(AddItem(inventory[c][i], offer[p][i]), offer[c][i])]
           take == [i \in Item |-> AddItem(DelItem(inventory[p][i], offer[p][i]), offer[c][i])]
<1>1. \A i \in Item : /\ inventory[c][i] \in Nat /\ inventory[p][i] \in Nat
                      /\ offer[c][i] \in Int /\ offer[p][i] \in Int
    BY DEF TypeOK, NotOffered
<1>2. give \in [Item -> Nat] /\ take \in [Item -> Nat]
    BY <1>1, AddItemBounds, DelItemBounds
<1>3. inventory' = [inventory EXCEPT ![c] = give, ![p] = take]
    BY DEF Trade_Use, TypeOK
<1>4. inventory' \in [Char -> [Item -> Nat]] /\ inventory'[c] = give /\ inventory'[p] = take
      /\ \A d \in Char \ {c, p} : inventory'[d] = inventory[d]
    <2> HIDE DEF give, take
    <2> QED BY <1>2, <1>3 DEF TypeOK
<1> QED BY <1>4

-----------------------------------------------------------------------------
(***************************************************************************)
(* The pairing of trades, and the types, which need it: the handlers       *)
(* follow trade_partner of whoever is trading.                             *)
(***************************************************************************)

Paired == TypeOK /\ TradesArePaired /\ NoOfferOutsideTrade

\* The partner in a trade is another character.
LEMMA PartnerIsOther ==
    ASSUME Paired, NEW c \in Char, trading[c]
    PROVE  partner[c] \in Char \ {c} /\ trading[partner[c]] /\ partner[partner[c]] = c
BY DEF Paired, TypeOK, TradesArePaired

\* What the end of a trade does: the two are out of it, all others as before.
LEMMA EndTradeEnds ==
    ASSUME Paired, NEW c \in Char, trading[c], EndTrade(c)
    PROVE  LET p == partner[c] IN
           /\ trading' \in [Char -> BOOLEAN]
           /\ partner' \in [Char -> Char \cup {Nobody, Dangling}]
           /\ agree' \in [Char -> BOOLEAN]
           /\ offer' \in [Char -> [Item -> Nat \cup {NotOffered}]]
           /\ \A d \in {c, p} : ~trading'[d] /\ offer'[d] = NoOffer /\ partner'[d] = Nobody
           /\ \A d \in Char \ {c, p} : /\ trading'[d] = trading[d] /\ offer'[d] = offer[d]
                                       /\ partner'[d] = partner[d] /\ agree'[d] = agree[d]
<1>1. partner[c] \in Char \ {c}
    BY PartnerIsOther
<1>2. TypeOK
    BY DEF Paired
<1>3. /\ \A d \in {c, partner[c]} : ~trading'[d] /\ offer'[d] = NoOffer /\ partner'[d] = Nobody
      /\ \A d \in Char \ {c, partner[c]} : /\ trading'[d] = trading[d] /\ offer'[d] = offer[d]
                                           /\ partner'[d] = partner[d] /\ agree'[d] = agree[d]
    <2> HIDE DEF NoOffer
    <2> QED BY <1>1, <1>2 DEF TypeOK, EndTrade
<1> QED BY <1>2, <1>3, EndTradeTypes

\* So the end of a trade leaves the other trades paired, whatever map it happens on.
LEMMA EndTradePaired ==
    ASSUME Paired, NEW c \in Char, trading[c], EndTrade(c), UNCHANGED online,
           mapid' \in [Char -> Map], \A d \in Char \ {c} : mapid'[d] = mapid[d]
    PROVE  TradesArePaired' /\ NoOfferOutsideTrade'
<1> DEFINE p == partner[c]
<1>1. p \in Char \ {c} /\ trading[p] /\ partner[p] = c
    BY PartnerIsOther
<1>2. /\ \A d \in {c, p} : ~trading'[d] /\ offer'[d] = NoOffer /\ partner'[d] = Nobody
      /\ \A d \in Char \ {c, p} : /\ trading'[d] = trading[d] /\ offer'[d] = offer[d]
                                  /\ partner'[d] = partner[d] /\ agree'[d] = agree[d]
    BY EndTradeEnds
<1>3. NoOfferOutsideTrade'
    BY <1>2 DEF Paired, NoOfferOutsideTrade
<1>4. TradesArePaired'
    <2> SUFFICES ASSUME NEW d \in Char, trading'[d]
                 PROVE  /\ partner'[d] \in online \ {d} /\ d \in online
                        /\ trading'[partner'[d]] /\ partner'[partner'[d]] = d
                        /\ mapid'[partner'[d]] = mapid'[d]
        BY DEF TradesArePaired
    <2>1. d \in Char \ {c, p} /\ trading[d] /\ partner'[d] = partner[d]
        BY <1>2
    <2>2. partner[d] \in online \ {d} /\ d \in online /\ trading[partner[d]] /\ partner[partner[d]] = d
          /\ mapid[partner[d]] = mapid[d]
        BY <2>1 DEF Paired, TradesArePaired
    <2>3. partner[d] \in Char \ {c, p}
        BY <1>1, <2>1, <2>2 DEF Paired, TypeOK
    <2> QED BY <1>2, <2>1, <2>2, <2>3
<1> QED BY <1>3, <1>4

\* Changing an offer in a trade leaves the trades as they are.
LEMMA OfferPaired ==
    ASSUME Paired, NEW c \in Char, trading[c], NEW i \in Item,
           NEW amount \in Nat \cup {NotOffered}, Offer(c, i, amount)
    PROVE  Paired'
<1>1. TypeOK'
    BY OfferTypes DEF Paired
<1>2. TradesArePaired'
    BY DEF Paired, TradesArePaired, Offer
<1>3. NoOfferOutsideTrade'
    BY DEF Paired, NoOfferOutsideTrade, Offer, TypeOK
<1> QED BY <1>1, <1>2, <1>3 DEF Paired

\* A step that touches no trade leaves the trades as they are.
LEMMA OtherPaired ==
    ASSUME Paired, TypeOK', UNCHANGED <<online, mapid, trading, partner, offer>>
    PROVE  Paired'
BY DEF Paired, TradesArePaired, NoOfferOutsideTrade

\* A request changes the partner of somebody in no trade, who is in nobody's trade.
LEMMA RequestPaired ==
    ASSUME Paired, NEW c \in Char, NEW v \in Char, Trade_Request(c, v)
    PROVE  Paired'
BY DEF Paired, TypeOK, TradesArePaired, NoOfferOutsideTrade, Trade_Request

\* Accepting an invitation pairs two characters who were in no trade.
LEMMA AcceptPaired ==
    ASSUME Paired, NEW c \in Char, NEW v \in Char, Trade_Accept(c, v)
    PROVE  Paired'
<1>1. TypeOK'
    BY DEF Paired, TypeOK, Trade_Accept
<1>2. /\ trading'[c] /\ trading'[v] /\ partner'[c] = v /\ partner'[v] = c
      /\ \A d \in Char \ {c, v} : trading'[d] = trading[d] /\ partner'[d] = partner[d]
    BY DEF Paired, TypeOK, Trade_Accept
<1>3. \A d \in Char \ {c, v} : trading[d] => partner[d] \in Char \ {c, v}
    BY DEF Paired, TypeOK, TradesArePaired, Trade_Accept
<1>4. TradesArePaired'
    BY <1>2, <1>3 DEF Paired, TypeOK, TradesArePaired, Trade_Accept
<1>5. NoOfferOutsideTrade'
    BY <1>2 DEF Paired, NoOfferOutsideTrade, Trade_Accept
<1> QED BY <1>1, <1>4, <1>5 DEF Paired

\* A login changes no partner of a trade: those are in the world already.
LEMMA LoginPaired ==
    ASSUME Paired, NEW c \in Char, Login(c)
    PROVE  Paired'
<1>1. PICK reused \in SUBSET {d \in online : partner[d] = Dangling} :
          partner' = [d \in Char |-> IF d = c THEN Nobody
                                     ELSE IF d \in reused THEN c ELSE partner[d]]
    BY DEF Login
<1>2. \A d \in Char : trading[d] => /\ d \in online /\ partner[d] \in online
                                    /\ partner'[d] = partner[d]
    BY <1>1, PointersAreDistinct DEF Paired, TypeOK, TradesArePaired, Login
<1>3. TypeOK'
    BY <1>1 DEF Paired, TypeOK, Login
<1>4. TradesArePaired'
    BY <1>2 DEF Paired, TypeOK, TradesArePaired, Login
<1>5. NoOfferOutsideTrade'
    BY DEF Paired, NoOfferOutsideTrade, Login
<1> QED BY <1>3, <1>4, <1>5 DEF Paired

\* A logout ends the trade of who leaves, and no other.
LEMMA LogoutPaired ==
    ASSUME Paired, NEW c \in Char, Logout(c)
    PROVE  Paired'
<1>1. TypeOK'
    <2>1. NoOffer \in [Item -> Nat \cup {NotOffered}]
        BY DEF NoOffer
    <2> QED BY <2>1 DEF Paired, TypeOK, Logout
<1>2. \A d \in Char : trading'[d] = (trading[d] /\ d # c /\ partner[d] # c)
    BY DEF Logout
<1>3. \A d \in Char : trading[d] /\ d # c /\ partner[d] # c
                         => partner'[d] = partner[d] /\ offer'[d] = offer[d]
    BY DEF Logout
<1>4. \A d \in Char : d = c \/ ~trading[d] \/ partner[d] = c => offer'[d] = NoOffer
    <2> SUFFICES ASSUME NEW d \in Char, d = c \/ ~trading[d] \/ partner[d] = c PROVE offer'[d] = NoOffer
        OBVIOUS
    <2>1. ~trading[d] => offer[d] = NoOffer
        BY DEF Paired, NoOfferOutsideTrade
    <2>2. offer'[d] = IF trading[d] /\ (d = c \/ partner[d] = c) THEN NoOffer ELSE offer[d]
        BY DEF Logout
    <2> QED BY <2>1, <2>2
<1>5. TradesArePaired'
    <2> SUFFICES ASSUME NEW d \in Char, trading'[d]
                 PROVE  /\ partner'[d] \in online' \ {d} /\ d \in online'
                        /\ trading'[partner'[d]] /\ partner'[partner'[d]] = d
                        /\ mapid'[partner'[d]] = mapid'[d]
        BY DEF TradesArePaired
    <2>1. trading[d] /\ d # c /\ partner[d] # c /\ partner'[d] = partner[d]
        BY <1>2, <1>3
    <2>2. partner[d] \in online \ {d} /\ d \in online /\ trading[partner[d]] /\ partner[partner[d]] = d
          /\ mapid[partner[d]] = mapid[d] /\ partner[d] \in Char
        BY <2>1 DEF Paired, TypeOK, TradesArePaired
    <2>3. trading'[partner[d]] /\ partner'[partner[d]] = d
        BY <1>2, <1>3, <2>1, <2>2
    <2> QED BY <2>1, <2>2, <2>3 DEF Logout
<1>6. NoOfferOutsideTrade'
    BY <1>2, <1>4 DEF NoOfferOutsideTrade
<1> QED BY <1>1, <1>5, <1>6 DEF Paired

\* There are no trades at the start.
LEMMA InitPaired == Init => Paired
<1> SUFFICES ASSUME Init PROVE Paired
    OBVIOUS
<1>1. NoOffer \in [Item -> Nat \cup {NotOffered}]
    BY DEF NoOffer
<1>2. {0} \cup Amounts \subseteq Nat
    BY AmountsAreNumbers
<1>3. inventory \in [Char -> [Item -> Nat]]
    BY <1>2 DEF Init
<1> QED BY <1>1, <1>3 DEF Init, Paired, TypeOK, TradesArePaired, NoOfferOutsideTrade

\* Every step keeps trades paired.
LEMMA NextPaired == Paired /\ [Next]_vars => Paired'
<1> SUFFICES ASSUME Paired, [Next]_vars PROVE Paired'
    OBVIOUS
<1> USE DEF Paired
<1>1. ASSUME NEW c \in Char, NEW v \in Char, Trade_Request(c, v) PROVE Paired'
    BY <1>1, RequestPaired
<1>2. ASSUME NEW c \in Char, NEW v \in Char, Trade_Accept(c, v) PROVE Paired'
    BY <1>2, AcceptPaired
<1>3. ASSUME NEW c \in Char, NEW i \in Item, NEW amount \in Amounts, Trade_Add(c, i, amount)
      PROVE  Paired'
    BY <1>3, NewOfferType, OfferPaired DEF Trade_Add
<1>4. ASSUME NEW c \in Char, NEW i \in Item, Trade_Remove(c, i) PROVE Paired'
    BY <1>4, OfferPaired DEF Trade_Remove
<1>5. ASSUME NEW c \in Char, NEW agrees \in BOOLEAN, Trade_Agree(c, agrees) PROVE Paired'
    <2>1. TypeOK'
        BY <1>5 DEF TypeOK, Trade_Agree
    <2> QED BY <1>5, <2>1, OtherPaired DEF Trade_Agree
<1>6. ASSUME NEW c \in Char, Trade_Use(c) PROVE Paired'
    <2>1. trading[c] /\ EndTrade(c) /\ UNCHANGED <<online, mapid>>
        BY <1>6 DEF Trade_Use
    <2>2. partner[c] \in Char \ {c}
        BY <2>1, PartnerIsOther
    <2>3. inventory' \in [Char -> [Item -> Nat]]
        BY <1>6, <2>2, ExchangeInventories
    <2>4. TypeOK'
        BY <2>1, <2>3, EndTradeTypes DEF TypeOK
    <2> QED BY <2>1, <2>4, EndTradePaired DEF TypeOK
<1>7. ASSUME NEW c \in Char, Trade_Close(c) PROVE Paired'
    <2>1. trading[c] /\ EndTrade(c) /\ UNCHANGED <<online, mapid, inventory>>
        BY <1>7 DEF Trade_Close
    <2>2. TypeOK'
        BY <2>1, EndTradeTypes DEF TypeOK
    <2> QED BY <2>1, <2>2, EndTradePaired DEF TypeOK
<1>8. ASSUME NEW c \in Char, NEW m \in Map, Warp(c, m) PROVE Paired'
    <2>1. /\ c \in online /\ UNCHANGED <<online, inventory>>
          /\ mapid' \in [Char -> Map] /\ \A d \in Char \ {c} : mapid'[d] = mapid[d]
        BY <1>8 DEF TypeOK, Warp
    <2>2. CASE trading[c]
        <3>1. EndTrade(c)
            BY <1>8, <2>2 DEF Warp
        <3>2. TypeOK'
            BY <2>1, <3>1, EndTradeTypes DEF TypeOK
        <3> QED BY <2>1, <2>2, <3>1, <3>2, EndTradePaired
    <2>3. CASE ~trading[c]
        <3>1. UNCHANGED trade_vars
            BY <1>8, <2>3 DEF Warp
        <3>2. TypeOK'
            BY <2>1, <3>1 DEF TypeOK, trade_vars
        <3>3. \A d \in Char : trading[d] => d # c /\ partner[d] # c /\ partner[d] \in Char
            BY <2>3, PartnerIsOther
        <3> QED BY <2>1, <3>1, <3>2, <3>3 DEF TradesArePaired, NoOfferOutsideTrade, trade_vars
    <2> QED BY <2>2, <2>3
<1>9. ASSUME NEW c \in Char, Login(c) PROVE Paired'
    BY <1>9, LoginPaired
<1>10. ASSUME NEW c \in Char, Logout(c) PROVE Paired'
    BY <1>10, LogoutPaired
<1>11. ASSUME NEW c \in Char, NEW i \in Item, NEW amount \in Amounts,
              Spend(c, i, amount) \/ Gain(c, i, amount)
       PROVE  Paired'
    <2>1. inventory[c][i] \in Nat /\ amount \in Int
        BY AmountsAreNumbers DEF TypeOK
    <2>2. \E n \in Nat : inventory' = [inventory EXCEPT ![c][i] = n]
        BY <1>11, <2>1, AddItemBounds, DelItemBounds DEF Spend, Gain
    <2>3. UNCHANGED <<online, mapid, trade_vars>>
        BY <1>11 DEF Spend, Gain
    <2>4. TypeOK'
        BY <2>2, <2>3, InventoryTypes
    <2> QED BY <2>3, <2>4, OtherPaired DEF trade_vars
<1>12. CASE UNCHANGED vars
    BY <1>12 DEF vars, trade_vars, TypeOK, TradesArePaired, NoOfferOutsideTrade
<1> QED BY <1>1, <1>2, <1>3, <1>4, <1>5, <1>6, <1>7, <1>8, <1>9, <1>10, <1>11, <1>12
        DEF Next, Handler, Game

\* The types are right.
THEOREM TradeTypes == Spec => []TypeOK
<1>1. Paired => TypeOK
    BY DEF Paired
<1> QED BY <1>1, InitPaired, NextPaired, PTL DEF Spec

\* Trades are between pairs of characters who are in the world and on one map, and
\* leave nothing on offer when they end, whatever quests and fishing take meanwhile.
THEOREM TradeSafety == Spec => [](TradesArePaired /\ NoOfferOutsideTrade)
<1>1. Paired => TradesArePaired /\ NoOfferOutsideTrade
    BY DEF Paired
<1> QED BY <1>1, InitPaired, NextPaired, PTL DEF Spec

-----------------------------------------------------------------------------
(***************************************************************************)
(* Offers are backed, where nothing takes what is on offer.                *)
(***************************************************************************)

HeldWithinMaxItem == \A c \in Char, i \in Item : inventory[c][i] <= MaxItem

Backed == Paired /\ OffersBacked /\ HeldWithinMaxItem

\* An offer that is none is backed by anything.
LEMMA BackedByAmounts ==
    ASSUME Paired,
           \A c \in Char, i \in Item : trading[c] => offer[c][i] <= inventory[c][i]
    PROVE  OffersBacked
BY DEF Paired, NoOfferOutsideTrade, OffersBacked, Offered, NoOffer

\* Offers that are backed stay so in a step that changes no offer of somebody still
\* trading, and takes no more from it than it has left.
LEMMA StaysBacked ==
    ASSUME Backed, Paired',
           \A c \in Char, i \in Item : trading'[c] =>
              trading[c] /\ offer'[c] = offer[c] /\ (i \in Offered(c) => offer[c][i] <= inventory'[c][i])
    PROVE  OffersBacked'
<1> SUFFICES ASSUME NEW c \in Char, NEW i \in Item, offer'[c][i] # NotOffered
             PROVE  offer'[c][i] <= inventory'[c][i]
    BY DEF OffersBacked, Offered
<1>1. trading'[c]
    BY DEF Paired, NoOfferOutsideTrade, NoOffer
<1> QED BY <1>1 DEF Offered

\* A change of one amount keeps all of them within MaxItem.
LEMMA StaysWithinMaxItem ==
    ASSUME Backed, NEW c \in Char, NEW i \in Item, NEW amount \in Nat, amount <= MaxItem,
           inventory' = [inventory EXCEPT ![c][i] = amount]
    PROVE  HeldWithinMaxItem'
BY DEF Backed, Paired, TypeOK, HeldWithinMaxItem

\* The exchange of one item between who has h and offers o and who has g and offers q.
LEMMA ExchangeOfOne ==
    ASSUME NEW h \in Nat, NEW g \in Nat, NEW o \in Int, NEW q \in Int,
           h <= MaxItem, g <= MaxItem, o <= h, q <= g, o >= -1, q >= -1
    PROVE  LET h1 == DelItem(AddItem(h, q), o)
               g1 == AddItem(DelItem(g, q), o)
           IN  h1 + g1 <= h + g /\ h1 <= MaxItem /\ g1 <= MaxItem
<1>1. MaxItem \in Nat /\ MaxInt \in Nat
    BY AmountsAreNumbers
<1>2. /\ AddItem(h, q) \in Nat /\ h <= AddItem(h, q) /\ AddItem(h, q) <= MaxItem
      /\ q > 0 => AddItem(h, q) <= h + q
      /\ q <= 0 => AddItem(h, q) = h
    BY <1>1, AddItemBounds DEF AddItem, Lesser
<1>3. /\ DelItem(g, q) \in Nat /\ DelItem(g, q) <= g
      /\ q > 0 => DelItem(g, q) = g - q
      /\ q <= 0 => DelItem(g, q) = g
    BY DEF DelItem
<1>4. \A x \in Nat : x >= h => /\ DelItem(x, o) \in Nat /\ DelItem(x, o) <= x
                               /\ o > 0 => DelItem(x, o) = x - o
                               /\ o <= 0 => DelItem(x, o) = x
    BY DEF DelItem
<1>5. \A x \in Nat : x <= MaxItem => /\ AddItem(x, o) \in Nat /\ AddItem(x, o) <= MaxItem
                                     /\ o > 0 => AddItem(x, o) <= x + o
                                     /\ o <= 0 => AddItem(x, o) = x
    BY <1>1, AddItemBounds DEF AddItem, Lesser
<1> DEFINE a == AddItem(h, q)
           b == DelItem(g, q)
<1>6. /\ a \in Nat /\ b \in Nat /\ b <= MaxItem /\ a <= MaxItem /\ a + b <= h + g
      /\ DelItem(a, o) \in Nat /\ DelItem(a, o) <= a /\ (o > 0 => DelItem(a, o) = a - o)
      /\ AddItem(b, o) \in Nat /\ AddItem(b, o) <= MaxItem
      /\ (o > 0 => AddItem(b, o) <= b + o) /\ (o <= 0 => AddItem(b, o) = b)
    BY <1>1, <1>2, <1>3, <1>4, <1>5
<1> HIDE DEF a, b
<1> QED BY <1>1, <1>6 DEF a, b

\* An exchange of offers that are backed creates nothing, and keeps within MaxItem.
THEOREM ExchangeConserves ==
    ASSUME Backed, NEW c \in Char, Trade_Use(c), NEW i \in Item
    PROVE  LET p == partner[c] IN
           /\ inventory'[c][i] + inventory'[p][i] <= inventory[c][i] + inventory[p][i]
           /\ inventory'[c][i] <= MaxItem /\ inventory'[p][i] <= MaxItem
<1> DEFINE p == partner[c]
<1>1. p \in Char \ {c}
    BY PartnerIsOther DEF Backed, Trade_Use
<1>2. /\ inventory[c][i] \in Nat /\ inventory[p][i] \in Nat
      /\ inventory[c][i] <= MaxItem /\ inventory[p][i] <= MaxItem /\ MaxItem \in Nat
    BY <1>1, AmountsAreNumbers DEF Backed, Paired, TypeOK, HeldWithinMaxItem
<1>3. \A d \in {c, p} : /\ offer[d][i] \in Int
                        /\ offer[d][i] = NotOffered \/ (offer[d][i] >= 0 /\ offer[d][i] <= inventory[d][i])
    BY <1>1 DEF Backed, Paired, TypeOK, OffersBacked, Offered, NotOffered
<1>4. /\ inventory'[c][i] = DelItem(AddItem(inventory[c][i], offer[p][i]), offer[c][i])
      /\ inventory'[p][i] = AddItem(DelItem(inventory[p][i], offer[p][i]), offer[c][i])
    BY <1>1, ExchangeInventories DEF Backed, Paired
<1>5. /\ offer[c][i] >= -1 /\ offer[p][i] >= -1
      /\ offer[c][i] <= inventory[c][i] /\ offer[p][i] <= inventory[p][i]
    BY <1>2, <1>3 DEF NotOffered
<1> QED BY <1>2, <1>3, <1>4, <1>5, ExchangeOfOne

\* The amounts of the game fit in an inventory, and nothing takes what is on offer.
NothingTakesOffers == ~TakesOffers /\ \A n \in Amounts : n <= MaxItem

\* Nothing is on offer at the start.
LEMMA InitBacked == NothingTakesOffers /\ Init => Backed
<1> SUFFICES ASSUME NothingTakesOffers, Init PROVE Backed
    OBVIOUS
<1>1. \A n \in {0} \cup Amounts : n \in Nat /\ n <= MaxItem
    <2> SUFFICES ASSUME NEW n \in {0} \cup Amounts PROVE n \in Nat /\ n <= MaxItem
        OBVIOUS
    <2>1. MaxItem \in Nat /\ Amounts \subseteq Nat
        BY AmountsAreNumbers
    <2>2. CASE n = 0
        BY <2>1, <2>2
    <2>3. CASE n \in Amounts
        BY <2>1, <2>3 DEF NothingTakesOffers
    <2> QED BY <2>2, <2>3
<1>2. OffersBacked
    BY DEF Init, OffersBacked, Offered, NoOffer
<1>3. HeldWithinMaxItem
    BY <1>1 DEF Init, HeldWithinMaxItem
<1> QED BY <1>2, <1>3, InitPaired DEF Backed

\* Every step keeps offers backed.
LEMMA NextBacked == NothingTakesOffers /\ Backed /\ [Next]_vars => Backed'
<1> SUFFICES ASSUME NothingTakesOffers, Backed, [Next]_vars PROVE Backed'
    OBVIOUS
<1> USE DEF Backed
<1>0. Paired' /\ Paired /\ TypeOK
    BY NextPaired DEF Paired
<1>1. ASSUME NEW c \in Char, NEW v \in Char, Trade_Request(c, v) \/ Trade_Accept(c, v) PROVE Backed'
    <2>1. UNCHANGED <<offer, inventory>>
        BY <1>1 DEF Trade_Request, Trade_Accept
    <2> QED BY <1>0, <2>1 DEF OffersBacked, Offered, HeldWithinMaxItem
<1>2. ASSUME NEW c \in Char, NEW i \in Item, NEW amount \in Amounts, Trade_Add(c, i, amount)
      PROVE  Backed'
    <2> DEFINE n == NewOffer(c, i, amount)
    <2>1. trading[c] /\ offer' = [offer EXCEPT ![c][i] = n] /\ UNCHANGED inventory
        BY <1>2 DEF Trade_Add, Offer
    <2>2. offer[c][i] <= inventory[c][i]
        <3>1. i \notin Offered(c) => offer[c][i] = -1
            BY DEF Offered, NotOffered
        <3> QED BY <1>0, <3>1 DEF OffersBacked, TypeOK
    <2>3. n <= inventory[c][i]
        BY <1>0, <2>1, <2>2, NewOfferBounds
    <2> HIDE DEF n
    <2>4. OffersBacked'
        BY <1>0, <2>1, <2>3 DEF OffersBacked, Offered, TypeOK
    <2> QED BY <1>0, <2>1, <2>4 DEF HeldWithinMaxItem
<1>3. ASSUME NEW c \in Char, NEW i \in Item, Trade_Remove(c, i) PROVE Backed'
    <2>1. offer' = [offer EXCEPT ![c][i] = NotOffered] /\ UNCHANGED inventory
        BY <1>3 DEF Trade_Remove, Offer
    <2> QED BY <1>0, <2>1 DEF OffersBacked, Offered, TypeOK, HeldWithinMaxItem
<1>4. ASSUME NEW c \in Char, NEW agrees \in BOOLEAN, Trade_Agree(c, agrees) PROVE Backed'
    BY <1>0, <1>4 DEF Trade_Agree, OffersBacked, Offered, HeldWithinMaxItem
<1>5. ASSUME NEW c \in Char, Trade_Use(c) PROVE Backed'
    <2>1. trading[c] /\ EndTrade(c)
        BY <1>5 DEF Trade_Use
    <2>2. partner[c] \in Char \ {c}
        BY <1>0, <2>1, PartnerIsOther
    <2>3. \A d \in Char \ {c, partner[c]} : inventory'[d] = inventory[d]
        BY <1>0, <1>5, <2>2, ExchangeInventories
    <2>4. HeldWithinMaxItem'
        BY <1>5, <2>2, <2>3, ExchangeConserves DEF HeldWithinMaxItem
    <2>5. \A d \in Char, j \in Item : trading'[d] =>
             trading[d] /\ offer'[d] = offer[d] /\ (j \in Offered(d) => offer[d][j] <= inventory'[d][j])
        BY <1>0, <2>1, <2>3, EndTradeEnds DEF OffersBacked
    <2> QED BY <1>0, <2>4, <2>5, StaysBacked
<1>6. ASSUME NEW c \in Char, trading[c], EndTrade(c), UNCHANGED inventory PROVE Backed'
    <2>1. \A d \in Char, j \in Item : trading'[d] =>
             trading[d] /\ offer'[d] = offer[d] /\ (j \in Offered(d) => offer[d][j] <= inventory'[d][j])
        BY <1>0, <1>6, EndTradeEnds DEF OffersBacked
    <2>2. HeldWithinMaxItem'
        BY <1>6 DEF HeldWithinMaxItem
    <2> QED BY <1>0, <2>1, <2>2, StaysBacked
<1>7. ASSUME NEW c \in Char, NEW m \in Map, Warp(c, m) PROVE Backed'
    <2>1. CASE trading[c]
        BY <1>6, <1>7, <2>1 DEF Warp
    <2>2. CASE ~trading[c]
        BY <1>0, <1>7, <2>2 DEF Warp, trade_vars, OffersBacked, Offered, HeldWithinMaxItem
    <2> QED BY <2>1, <2>2
<1>8. ASSUME NEW c \in Char, Login(c) PROVE Backed'
    BY <1>0, <1>8 DEF Login, OffersBacked, Offered, HeldWithinMaxItem
<1>9. ASSUME NEW c \in Char, Logout(c) PROVE Backed'
    <2>1. UNCHANGED inventory /\ \A d \in Char : trading'[d] => trading[d] /\ offer'[d] = offer[d]
        BY <1>9 DEF Logout
    <2>2. HeldWithinMaxItem'
        BY <2>1 DEF HeldWithinMaxItem
    <2> QED BY <1>0, <2>1, <2>2, StaysBacked DEF OffersBacked
<1>10. ASSUME NEW c \in Char, NEW i \in Item, NEW amount \in Amounts,
              Spend(c, i, amount) \/ Gain(c, i, amount)
       PROVE  Backed'
    <2>1. inventory[c][i] \in Nat /\ amount \in Nat /\ amount <= MaxItem /\ inventory[c][i] <= MaxItem
          /\ MaxItem \in Nat /\ offer[c][i] \in Nat \cup {NotOffered}
        BY <1>0, AmountsAreNumbers DEF TypeOK, HeldWithinMaxItem, NothingTakesOffers
    <2>2. PICK n \in Nat : /\ inventory' = [inventory EXCEPT ![c][i] = n]
                           /\ n <= MaxItem
                           /\ trading[c] /\ i \in Offered(c) => offer[c][i] <= n
        <3>1. ~TakesOffers
            BY DEF NothingTakesOffers
        <3>2. CASE Spend(c, i, amount)
            <4> DEFINE k == DelItem(inventory[c][i], amount)
            <4>1. inventory' = [inventory EXCEPT ![c][i] = k] /\ HasItem(c, i) >= amount
                BY <3>1, <3>2 DEF Spend
            <4>2. k \in Nat /\ k <= inventory[c][i] /\ k >= inventory[c][i] - amount
                BY <2>1, DelItemBounds, amount \in Int, amount >= 0
            <4>3. trading[c] /\ i \in Offered(c) => HasItem(c, i) + offer[c][i] = inventory[c][i]
                BY <1>0, HasItemBounds DEF OffersBacked
            <4>4. HasItem(c, i) \in Nat
                BY <1>0, HasItemBounds
            <4>5. i \in Offered(c) => offer[c][i] \in Nat
                BY <2>1 DEF Offered
            <4>6. trading[c] /\ i \in Offered(c) => offer[c][i] <= k
                <5> HIDE DEF k
                <5> QED BY <2>1, <4>1, <4>2, <4>3, <4>4, <4>5
            <4>7. k <= MaxItem
                <5> HIDE DEF k
                <5> QED BY <2>1, <4>2
            <4> QED BY <4>1, <4>2, <4>6, <4>7
        <3>3. CASE Gain(c, i, amount)
            <4> DEFINE k == AddItem(inventory[c][i], amount)
            <4>1. inventory' = [inventory EXCEPT ![c][i] = k]
                BY <3>3 DEF Gain
            <4>2. k \in Nat /\ inventory[c][i] <= k /\ k <= MaxItem
                BY <2>1, AddItemBounds, amount \in Int
            <4>3. i \in Offered(c) => offer[c][i] <= inventory[c][i] /\ offer[c][i] \in Nat
                BY <2>1 DEF OffersBacked, Offered
            <4>4. i \in Offered(c) => offer[c][i] <= k
                <5> HIDE DEF k
                <5> QED BY <2>1, <4>2, <4>3
            <4> QED BY <4>1, <4>2, <4>4
        <3> QED BY <1>10, <3>2, <3>3
    <2>3. UNCHANGED trade_vars
        BY <1>10 DEF Spend, Gain
    <2>4. HeldWithinMaxItem'
        BY <2>2, StaysWithinMaxItem
    <2>5. \A d \in Char, j \in Item : trading'[d] =>
             trading[d] /\ offer'[d] = offer[d] /\ (j \in Offered(d) => offer[d][j] <= inventory'[d][j])
        BY <1>0, <2>2, <2>3 DEF trade_vars, TypeOK, OffersBacked
    <2> QED BY <1>0, <2>4, <2>5, StaysBacked
<1>11. CASE UNCHANGED vars
    BY <1>0, <1>11 DEF vars, trade_vars, OffersBacked, Offered, HeldWithinMaxItem
<1> QED BY <1>1, <1>2, <1>3, <1>4, <1>5, <1>6, <1>7, <1>8, <1>9, <1>10, <1>11
        DEF Next, Handler, Game, Trade_Close

\* Where nothing takes what is on offer, every offer is backed by the inventory.
THEOREM OffersAreBacked ==
    ASSUME NothingTakesOffers
    PROVE  Spec => []OffersBacked
<1>1. Init => Backed
    BY InitBacked
<1>2. Backed /\ [Next]_vars => Backed'
    BY NextBacked
<1>3. Backed => OffersBacked
    BY DEF Backed
<1> QED BY <1>1, <1>2, <1>3, PTL DEF Spec

-----------------------------------------------------------------------------
(***************************************************************************)
(* Agreements.                                                             *)
(***************************************************************************)

\* The action of AgreementIsCurrent.
AgreementKept ==
    \A c \in Char : trading'[c] /\ agree'[c] =>
        /\ trading[c]
        /\ offer'[c] = offer[c] /\ offer'[partner[c]] = offer[partner[c]]

\* The end of a trade changes no offer of another trade.
LEMMA EndTradeAgreement ==
    ASSUME Paired, NEW c \in Char, trading[c], EndTrade(c)
    PROVE  AgreementKept
<1>1. partner[c] \in Char \ {c} /\ partner[partner[c]] = c /\ trading[partner[c]]
    BY PartnerIsOther
<1> SUFFICES ASSUME NEW d \in Char, trading'[d]
             PROVE  trading[d] /\ offer'[d] = offer[d] /\ offer'[partner[d]] = offer[partner[d]]
    BY DEF AgreementKept
<1>2. d \in Char \ {c, partner[c]} /\ trading[d] /\ offer'[d] = offer[d]
    BY EndTradeEnds
<1>3. partner[d] \in Char \ {c, partner[c]}
    BY <1>1, <1>2, PartnerIsOther
<1> QED BY <1>2, <1>3, EndTradeEnds

\* A new offer undoes the agreement of both who trade, and of nobody else.
LEMMA OfferAgreement ==
    ASSUME Paired, NEW c \in Char, trading[c], NEW i \in Item, NEW n, Offer(c, i, n)
    PROVE  AgreementKept
<1>1. partner[c] \in Char \ {c}
    BY PartnerIsOther
<1> SUFFICES ASSUME NEW d \in Char, trading'[d], agree'[d]
             PROVE  trading[d] /\ offer'[d] = offer[d] /\ offer'[partner[d]] = offer[partner[d]]
    BY DEF AgreementKept
<1>2. d \in Char \ {c, partner[c]} /\ trading[d]
    BY <1>1 DEF Offer, Paired, TypeOK
<1>3. partner[d] \in Char \ {c} 
    BY <1>1, <1>2, PartnerIsOther
<1> QED BY <1>2, <1>3 DEF Offer, Paired, TypeOK

\* Nobody is held to an agreement to something else than it agreed to: every step
\* that changes an offer of a trade undoes the agreement of both.
THEOREM AgreementsAreCurrent == Spec => AgreementIsCurrent
<1>1. Paired /\ [Next]_vars => [AgreementKept]_vars
    <2> SUFFICES ASSUME Paired, Next PROVE AgreementKept
        OBVIOUS
    <2>1. ASSUME NEW c \in Char, Handler(c) PROVE AgreementKept
        <3>1. CASE UNCHANGED <<trading, offer>>
            BY <3>1 DEF AgreementKept
        <3>2. ASSUME NEW v \in Char, Trade_Accept(c, v) PROVE AgreementKept
            BY <3>2 DEF Paired, TypeOK, Trade_Accept, AgreementKept
        <3>3. ASSUME NEW i \in Item, NEW amount \in Amounts, Trade_Add(c, i, amount) PROVE AgreementKept
            BY <3>3, OfferAgreement DEF Trade_Add
        <3>4. ASSUME NEW i \in Item, Trade_Remove(c, i) PROVE AgreementKept
            BY <3>4, OfferAgreement DEF Trade_Remove
        <3>5. CASE Trade_Use(c) \/ Trade_Close(c)
            BY <3>5, EndTradeAgreement DEF Trade_Use, Trade_Close
        <3> QED BY <2>1, <3>1, <3>2, <3>3, <3>4, <3>5 DEF Handler, Trade_Request, Trade_Agree
    <2>2. ASSUME NEW c \in Char, Game(c) PROVE AgreementKept
        <3>1. CASE UNCHANGED <<trading, offer>>
            BY <3>1 DEF AgreementKept
        <3>2. ASSUME NEW m \in Map, Warp(c, m) PROVE AgreementKept
            BY <3>1, <3>2, EndTradeAgreement DEF Warp, trade_vars
        <3>3. CASE Logout(c)
            <4> SUFFICES ASSUME NEW d \in Char, trading'[d]
                         PROVE  trading[d] /\ offer'[d] = offer[d] /\ offer'[partner[d]] = offer[partner[d]]
                BY DEF AgreementKept
            <4>1. trading[d] /\ d # c /\ partner[d] # c
                BY <3>3 DEF Logout
            <4>2. partner[d] \in Char /\ partner[partner[d]] = d
                BY <4>1, PartnerIsOther
            <4> QED BY <3>3, <4>1, <4>2 DEF Logout
        <3> QED BY <2>2, <3>1, <3>2, <3>3 DEF Game, Login, Spend, Gain, trade_vars
    <2> QED BY <2>1, <2>2 DEF Next
<1> QED BY <1>1, InitPaired, NextPaired, PTL DEF Spec, AgreementIsCurrent, AgreementKept
-----------------------------------------------------------------------------
(***************************************************************************)
(* Sums of what all characters have.  SumOver is a recursive function of   *)
(* sets; that there is one is proved by an induction over numbers, for     *)
(* which they are well-founded.                                            *)
(***************************************************************************)

\* Induction over numbers, for a set of them.
LEMMA NumbersFollow ==
    ASSUME NEW T, 0 \in T, \A n \in Nat : n \in T => n + 1 \in T
    PROVE  Nat \subseteq T
<1> SUFFICES ASSUME Nat \ T # {} PROVE FALSE
    OBVIOUS
<1>1. PICK n \in Nat \ T : \A k \in Nat \ T : ~ (<<k, n>> \in OpToRel(<, Nat))
    BY Zenon, NatLessThanWellFounded, WFMin
<1>2. n # 0 /\ n - 1 \in Nat /\ (n - 1) + 1 = n
    OBVIOUS
<1>3. n - 1 \notin T
    BY <1>2
<1>4. <<n - 1, n>> \in {ss \in Nat \X Nat : ss[1] < ss[2]}
    BY <1>2
<1> QED BY <1>1, <1>2, <1>3, <1>4 DEF OpToRel

\* The order in which SumOver adds, and what it adds up.
First(S) == CHOOSE c \in S : TRUE
Added(f, sum, S) == IF S = {} THEN 0 ELSE f[First(S)] + sum[S \ {First(S)}]
Sums(f) == {sum \in [SUBSET Char -> Int] : \A S \in SUBSET Char : sum[S] = Added(f, sum, S)}

UpTo(n) == {S \in SUBSET Char : Cardinality(S) <= n}

\* The character that is added first.
LEMMA FirstIsTaken ==
    ASSUME NEW S \in SUBSET Char, S # {}
    PROVE  /\ First(S) \in S
           /\ Cardinality(S) \in Nat /\ Cardinality(S \ {First(S)}) = Cardinality(S) - 1
<1>1. First(S) \in S
    BY DEF First
<1>2. IsFiniteSet(S)
    BY CharIsFinite, FS_Subset
<1> QED BY <1>1, <1>2, FS_CardinalityType, FS_RemoveElement

\* Induction over sets of characters, in that order.
LEMMA SetsFollow ==
    ASSUME NEW T, {} \in T, \A S \in SUBSET Char : S # {} /\ S \ {First(S)} \in T => S \in T
    PROVE  SUBSET Char \subseteq T
<1> DEFINE N == {n \in Nat : UpTo(n) \subseteq T}
<1>1. 0 \in N
    <2> SUFFICES ASSUME NEW S \in UpTo(0) PROVE S \in T
        OBVIOUS
    <2>1. S \in SUBSET Char /\ Cardinality(S) <= 0
        BY DEF UpTo
    <2>2. S # {} => Cardinality(S) # 0
        BY <2>1, CharIsFinite, FS_Subset, FS_EmptySet
    <2>3. Cardinality(S) \in Nat
        BY <2>1, CharIsFinite, FS_Subset, FS_CardinalityType
    <2>4. S = {}
        BY <2>1, <2>2, <2>3
    <2> QED BY Zenon, <2>4
<1>2. ASSUME NEW n \in Nat, n \in N PROVE n + 1 \in N
    <2> SUFFICES ASSUME NEW S \in UpTo(n + 1), S # {} PROVE S \in T
        OBVIOUS
    <2>1. S \in SUBSET Char /\ Cardinality(S) <= n + 1
        BY DEF UpTo
    <2>2. S \ {First(S)} \in UpTo(n)
        BY <2>1, FirstIsTaken DEF UpTo
    <2> QED BY <1>2, <2>1, <2>2
<1>3. Nat \subseteq N
    <2> HIDE DEF N
    <2> QED BY <1>1, <1>2, NumbersFollow
<1>4. ASSUME NEW S \in SUBSET Char PROVE S \in T
    <2>1. Cardinality(S) \in Nat
        BY CharIsFinite, FS_Subset, FS_CardinalityType
    <2> QED BY <1>3, <2>1 DEF UpTo
<1> QED BY <1>4

\* There is a function that adds up as SumOver does, ...
LEMMA SumExists ==
    ASSUME NEW f \in [Char -> Int]
    PROVE  Sums(f) # {}
<1> DEFINE On(g, n) == \A S \in UpTo(n) : g[S] = Added(f, g, S)
           N == {n \in Nat : \E g \in [UpTo(n) -> Int] : On(g, n)}
<1>1. 0 \in N
    <2>1. \A S \in UpTo(0) : S = {}
        <3> SUFFICES ASSUME NEW S \in UpTo(0), S # {} PROVE FALSE
            OBVIOUS
        <3> QED BY FirstIsTaken, FS_EmptySet, CharIsFinite, FS_Subset, FS_CardinalityType DEF UpTo
    <2>2. [S \in UpTo(0) |-> 0] \in [UpTo(0) -> Int]
        OBVIOUS
    <2>3. On([S \in UpTo(0) |-> 0], 0)
        BY <2>1 DEF Added
    <2> QED BY <2>2, <2>3
<1>2. ASSUME NEW n \in Nat, n \in N PROVE n + 1 \in N
    <2>1. PICK g \in [UpTo(n) -> Int] : On(g, n)
        BY <1>2
    <2> DEFINE h == [S \in UpTo(n + 1) |-> Added(f, g, S)]
    <2>2. ASSUME NEW S \in UpTo(n + 1), S # {}
          PROVE  S \ {First(S)} \in UpTo(n) /\ f[First(S)] \in Int
        <3>1. S \in SUBSET Char /\ Cardinality(S) <= n + 1
            BY DEF UpTo
        <3> QED BY <2>2, <3>1, FirstIsTaken DEF UpTo
    <2>3. \A S \in UpTo(n) : S \in UpTo(n + 1) /\ h[S] = g[S]
        <3> SUFFICES ASSUME NEW S \in UpTo(n) PROVE S \in UpTo(n + 1) /\ h[S] = g[S]
            OBVIOUS
        <3>1. S \in UpTo(n + 1)
            BY CharIsFinite, FS_Subset, FS_CardinalityType DEF UpTo
        <3> QED BY <2>1, <3>1
    <2>4. h \in [UpTo(n + 1) -> Int]
        BY <2>2 DEF Added
    <2>5. On(h, n + 1)
        BY <2>2, <2>3 DEF Added
    <2> HIDE DEF h, On
    <2> QED BY <2>4, <2>5
<1>3. Cardinality(Char) \in N
    <2>1. Nat \subseteq N
        <3> HIDE DEF N
        <3> QED BY <1>1, <1>2, NumbersFollow
    <2> HIDE DEF N
    <2> QED BY <2>1, CharIsFinite, FS_CardinalityType
<1>4. UpTo(Cardinality(Char)) = SUBSET Char
    BY CharIsFinite, FS_Subset DEF UpTo
<1> QED BY <1>3, <1>4 DEF Sums

\* ... and it is the one that SumOver looks for.
LEMMA SumIsOne ==
    ASSUME NEW f \in [Char -> Int]
    PROVE  \E sum \in Sums(f) : SumOver(f) = sum[Char]
<1> DEFINE Solves(sum) == sum = [S \in SUBSET Char |-> Added(f, sum, S)]
           sum == CHOOSE h : Solves(h)
<1>1. Solves(sum)
    <2>1. PICK g : g \in Sums(f)
        BY SumExists
    <2>2. Solves(g)
        BY <2>1 DEF Sums
    <2> QED BY Zenon, <2>2
<1>2. SumOver(f) = sum[Char]
    BY DEF SumOver, Added, First
<1> HIDE DEF sum
<1>3. \A S \in SUBSET Char : sum[S] = Added(f, sum, S)
    BY <1>1
<1>4. \A S \in SUBSET Char : sum[S] \in Int
    <2> DEFINE T == {S \in SUBSET Char : sum[S] \in Int}
    <2>1. {} \in T
        <3>1. {} \in SUBSET Char /\ Added(f, sum, {}) = 0
            BY DEF Added
        <3>2. sum[{}] = 0
            BY Zenon, <1>3, <3>1
        <3> QED BY <3>1, <3>2
    <2>2. ASSUME NEW S \in SUBSET Char, S # {}, S \ {First(S)} \in T PROVE S \in T
        <3>1. f[First(S)] \in Int
            BY <2>2, FirstIsTaken
        <3>2. sum[S] = f[First(S)] + sum[S \ {First(S)}]
            BY <1>3, <2>2 DEF Added
        <3>3. sum[S \ {First(S)}] \in Int
            BY <2>2
        <3> QED BY <3>1, <3>2, <3>3
    <2> HIDE DEF T
    <2>3. SUBSET Char \subseteq T
        BY <2>1, <2>2, SetsFollow
    <2> QED BY <2>3 DEF T
<1>5. sum \in Sums(f)
    BY <1>1, <1>3, <1>4 DEF Sums
<1> QED BY <1>2, <1>5

\* Nobody has nothing.
LEMMA SumOfNobody ==
    ASSUME NEW f, NEW sum \in Sums(f)
    PROVE  {} \in SUBSET Char /\ sum[{}] = 0
<1>1. {} \in SUBSET Char /\ Added(f, sum, {}) = 0
    BY DEF Added
<1> QED BY Zenon, <1>1 DEF Sums

\* A sum is a number.
LEMMA SumType ==
    ASSUME NEW f \in [Char -> Int]
    PROVE  SumOver(f) \in Int
BY SumIsOne DEF Sums

\* A sum of less is less.
LEMMA SumShrinks ==
    ASSUME NEW f \in [Char -> Int], NEW g \in [Char -> Int], \A c \in Char : g[c] <= f[c]
    PROVE  SumOver(g) <= SumOver(f)
<1>1. PICK s \in Sums(f) : SumOver(f) = s[Char]
    BY SumIsOne
<1>2. PICK t \in Sums(g) : SumOver(g) = t[Char]
    BY SumIsOne
<1> DEFINE T == {S \in SUBSET Char : t[S] <= s[S]}
<1>3. {} \in T
    <2>1. {} \in SUBSET Char /\ s[{}] = 0 /\ t[{}] = 0
        BY SumOfNobody
    <2> QED BY <2>1
<1>4. ASSUME NEW S \in SUBSET Char, S # {}, S \ {First(S)} \in T PROVE S \in T
    <2>1. First(S) \in Char
        BY <1>4, FirstIsTaken
    <2>2. s[S] = f[First(S)] + s[S \ {First(S)}] /\ t[S] = g[First(S)] + t[S \ {First(S)}]
        BY <1>4 DEF Sums, Added
    <2>3. s[S \ {First(S)}] \in Int /\ t[S \ {First(S)}] \in Int
        BY DEF Sums
    <2> QED BY <1>4, <2>1, <2>2, <2>3
<1> HIDE DEF T
<1>5. SUBSET Char \subseteq T
    BY <1>3, <1>4, SetsFollow
<1> QED BY <1>1, <1>2, <1>5 DEF T

\* What two pass between them changes the sum by as much as it changes theirs.
LEMMA SumExchanges ==
    ASSUME NEW f \in [Char -> Int], NEW g \in [Char -> Int], NEW c \in Char, NEW p \in Char \ {c},
           \A d \in Char \ {c, p} : g[d] = f[d]
    PROVE  SumOver(g) - SumOver(f) = (g[c] + g[p]) - (f[c] + f[p])
<1>1. PICK s \in Sums(f) : SumOver(f) = s[Char]
    BY SumIsOne
<1>2. PICK t \in Sums(g) : SumOver(g) = t[Char]
    BY SumIsOne
<1> DEFINE Change(S) == (IF c \in S THEN g[c] - f[c] ELSE 0) + (IF p \in S THEN g[p] - f[p] ELSE 0)
           T == {S \in SUBSET Char : t[S] - s[S] = Change(S)}
<1>3. {} \in T
    <2>1. {} \in SUBSET Char /\ s[{}] = 0 /\ t[{}] = 0
        BY SumOfNobody
    <2> QED BY <2>1
<1>4. ASSUME NEW S \in SUBSET Char, S # {}, S \ {First(S)} \in T PROVE S \in T
    <2> DEFINE a == First(S)
    <2>1. a \in S
        BY <1>4, FirstIsTaken
    <2>2. s[S] = f[a] + s[S \ {a}] /\ t[S] = g[a] + t[S \ {a}]
        BY <1>4 DEF Sums, Added
    <2>3. s[S \ {a}] \in Int /\ t[S \ {a}] \in Int /\ t[S \ {a}] - s[S \ {a}] = Change(S \ {a})
        BY <1>4 DEF Sums
    <2>4. g[a] - f[a] + Change(S \ {a}) = Change(S)
        <3> HIDE DEF a
        <3>1. CASE a = c
            BY <2>1, <3>1
        <3>2. CASE a = p
            BY <2>1, <3>2
        <3>3. CASE a \notin {c, p}
            BY <2>1, <3>3
        <3> QED BY <3>1, <3>2, <3>3
    <2>5. Change(S \ {a}) \in Int /\ Change(S) \in Int /\ f[a] \in Int /\ g[a] \in Int
        BY <2>1
    <2> HIDE DEF a, Change
    <2> QED BY <2>2, <2>3, <2>4, <2>5
<1>5. SUBSET Char \subseteq T
    <2> HIDE DEF T
    <2> QED BY <1>3, <1>4, SetsFollow
<1>6. t[Char] - s[Char] = Change(Char)
    BY <1>5
<1>7. t[Char] \in Int /\ s[Char] \in Int
    BY DEF Sums
<1> QED BY <1>1, <1>2, <1>6, <1>7
-----------------------------------------------------------------------------
(***************************************************************************)
(* Exchanges.                                                              *)
(***************************************************************************)

\* The action of ExchangeIsFair, in its two parts.
NothingIsMade ==
    \A i \in Item : Total(i)' <= Total(i) \/ \E c \in Char, n \in Amounts : Gain(c, i, n)

BothAgreed ==
    \A c \in Char : inventory'[c] # inventory[c] /\ trading[c] /\ ~trading'[c] =>
        /\ ~trading'[partner[c]]
        /\ agree[c] \/ agree[partner[c]]
        /\ \A i \in Item : inventory'[c][i] < inventory[c][i] => i \in Offered(c)

\* What all characters have of an item, before and after a step.
LEMMA TotalSums ==
    ASSUME TypeOK, TypeOK', NEW i \in Item
    PROVE  /\ [c \in Char |-> inventory[c][i]] \in [Char -> Int]
           /\ [c \in Char |-> inventory'[c][i]] \in [Char -> Int]
           /\ Total(i) = SumOver([c \in Char |-> inventory[c][i]])
           /\ Total(i)' = SumOver([c \in Char |-> inventory'[c][i]])
<1>1. \A c \in Char : inventory[c][i] \in Int /\ inventory'[c][i] \in Int
    BY DEF TypeOK
<1>2. Total(i) = SumOver([c \in Char |-> inventory[c][i]])
    BY DEF Total
<1>3. Total(i)' = SumOver([c \in Char |-> inventory'[c][i]])
    BY DEF Total, SumOver
<1> QED BY <1>1, <1>2, <1>3

\* Where everybody has at most what it had, nothing is made.
LEMMA TotalShrinks ==
    ASSUME TypeOK, TypeOK', NEW i \in Item, \A c \in Char : inventory'[c][i] <= inventory[c][i]
    PROVE  Total(i)' <= Total(i)
<1>1. SumOver([c \in Char |-> inventory'[c][i]]) <= SumOver([c \in Char |-> inventory[c][i]])
    BY TotalSums, SumShrinks
<1> QED BY <1>1, TotalSums

\* The exchange makes nothing, and both agreed to it.
LEMMA UseIsFair ==
    ASSUME Backed, TypeOK', NEW c \in Char, Trade_Use(c)
    PROVE  NothingIsMade /\ BothAgreed
<1> DEFINE p == partner[c]
<1>1. p \in Char \ {c} /\ partner[p] = c /\ agree[p]
    BY PartnerIsOther DEF Backed, Trade_Use, Settles
<1>2. \A d \in Char \ {c, p} : inventory'[d] = inventory[d]
    BY <1>1, ExchangeInventories DEF Backed, Paired
<1> HIDE DEF p
<1>3. ASSUME NEW i \in Item PROVE Total(i)' <= Total(i)
    <2> DEFINE f == [d \in Char |-> inventory[d][i]]
               g == [d \in Char |-> inventory'[d][i]]
    <2>1. f \in [Char -> Int] /\ g \in [Char -> Int] /\ Total(i) = SumOver(f) /\ Total(i)' = SumOver(g)
        BY TotalSums DEF Backed, Paired
    <2>2. \A d \in Char \ {c, p} : g[d] = f[d]
        BY <1>2
    <2>3. g[c] + g[p] <= f[c] + f[p]
        BY <1>1, ExchangeConserves DEF p
    <2> HIDE DEF f, g
    <2>4. SumOver(g) - SumOver(f) = (g[c] + g[p]) - (f[c] + f[p])
        BY <1>1, <2>1, <2>2, SumExchanges
    <2>5. SumOver(f) \in Int /\ SumOver(g) \in Int
        BY <2>1, SumType
    <2>6. f[c] \in Int /\ f[p] \in Int /\ g[c] \in Int /\ g[p] \in Int
        BY <1>1, <2>1
    <2> QED BY <2>1, <2>3, <2>4, <2>5, <2>6
<1>4. BothAgreed
    <2> SUFFICES ASSUME NEW d \in Char, inventory'[d] # inventory[d]
                 PROVE  /\ ~trading'[partner[d]]
                        /\ agree[d] \/ agree[partner[d]]
                        /\ \A i \in Item : inventory'[d][i] < inventory[d][i] => i \in Offered(d)
        BY DEF BothAgreed
    <2>1. d \in {c, p} /\ partner[d] \in {c, p}
        BY <1>1, <1>2 DEF p
    <2>2. ~trading'[c] /\ ~trading'[p]
        BY <1>1 DEF Trade_Use, EndTrade, Backed, Paired, TypeOK, p
    <2>3. ASSUME NEW i \in Item, offer[d][i] = NotOffered
          PROVE  inventory[d][i] <= inventory'[d][i]
        <3>1. /\ inventory[d][i] \in Nat /\ inventory[d][i] <= MaxItem /\ MaxItem \in Nat
              /\ \A e \in {c, p} : offer[e][i] \in Int
            BY <1>1, AmountsAreNumbers DEF Backed, Paired, TypeOK, HeldWithinMaxItem, NotOffered
        <3>2. \A held \in Nat : DelItem(held, NotOffered) = held
            BY DEF DelItem, NotOffered
        <3>3. CASE d = c
            <4>1. inventory'[c][i] = DelItem(AddItem(inventory[c][i], offer[p][i]), offer[c][i])
                BY <1>1, ExchangeInventories DEF Backed, Paired, p
            <4>2. AddItem(inventory[c][i], offer[p][i]) \in Nat
                  /\ inventory[c][i] <= AddItem(inventory[c][i], offer[p][i])
                BY <3>1, <3>3, AddItemBounds
            <4> QED BY <2>3, <3>2, <3>3, <4>1, <4>2
        <3>4. CASE d = p
            <4>1. inventory'[p][i] = AddItem(DelItem(inventory[p][i], offer[p][i]), offer[c][i])
                BY <1>1, ExchangeInventories DEF Backed, Paired, p
            <4>2. DelItem(inventory[p][i], offer[p][i]) = inventory[p][i]
                BY <2>3, <3>1, <3>2, <3>4
            <4>3. inventory[p][i] <= AddItem(inventory[p][i], offer[c][i])
                BY <3>1, <3>4, AddItemBounds
            <4> QED BY <3>4, <4>1, <4>2, <4>3
        <3> QED BY <2>1, <3>3, <3>4
    <2>4. ASSUME NEW i \in Item, inventory'[d][i] < inventory[d][i] PROVE i \in Offered(d)
        <3>1. inventory[d][i] \in Int /\ inventory'[d][i] \in Int
            BY DEF Backed, Paired, TypeOK
        <3> QED BY <2>3, <2>4, <3>1 DEF Offered
    <2>5. agree[d] \/ agree[partner[d]]
        BY <1>1, <2>1 DEF p
    <2> QED BY <2>1, <2>2, <2>4, <2>5
<1> QED BY <1>3, <1>4 DEF NothingIsMade

\* One amount of one character changes: who ends no trade loses what it likes.
LEMMA OtherIsFair ==
    ASSUME Backed, TypeOK', NEW c \in Char, NEW i \in Item, NEW n \in Amounts,
           Spend(c, i, n) \/ Gain(c, i, n)
    PROVE  NothingIsMade /\ BothAgreed
<1>1. UNCHANGED trading
    BY DEF Spend, Gain, trade_vars
<1>2. BothAgreed
    BY <1>1 DEF BothAgreed
<1>3. \A d \in Char, j \in Item : d # c \/ j # i => inventory'[d][j] = inventory[d][j]
    BY DEF Backed, Paired, TypeOK, Spend, Gain
<1>4. \A d \in Char, j \in Item : inventory[d][j] \in Nat
    BY DEF Backed, Paired, TypeOK
<1>5. ASSUME NEW j \in Item, j # i PROVE Total(j)' <= Total(j)
    <2>1. \A d \in Char : inventory'[d][j] <= inventory[d][j]
        BY <1>3, <1>4, <1>5
    <2> QED BY <2>1, TotalShrinks DEF Backed, Paired
<1>6. CASE Gain(c, i, n)
    BY <1>2, <1>5, <1>6 DEF NothingIsMade
<1>7. CASE Spend(c, i, n)
    <2>1. inventory'[c][i] = DelItem(inventory[c][i], n)
        BY <1>7 DEF Spend, Backed, Paired, TypeOK
    <2>2. n \in Int
        BY AmountsAreNumbers
    <2>3. inventory'[c][i] <= inventory[c][i]
        BY <1>4, <2>1, <2>2, DelItemBounds
    <2>4. \A d \in Char : inventory'[d][i] <= inventory[d][i]
        BY <1>3, <1>4, <2>3
    <2>5. Total(i)' <= Total(i)
        BY <2>4, TotalShrinks DEF Backed, Paired
    <2> QED BY <1>2, <1>5, <2>5 DEF NothingIsMade
<1> QED BY <1>6, <1>7

\* Where nothing takes what is on offer, no step but a gain makes items, summed over all
\* characters, and an exchange takes from nobody what it has not offered, and needs both.
THEOREM ExchangesAreFair ==
    ASSUME NothingTakesOffers
    PROVE  Spec => ExchangeIsFair
<1>1. Init => Backed
    BY InitBacked
<1>2. Backed /\ [Next]_vars => Backed'
    BY NextBacked
<1>3. Backed /\ Backed' /\ [Next]_vars => [NothingIsMade /\ BothAgreed]_vars
    <2> SUFFICES ASSUME Backed, Backed', Next PROVE NothingIsMade /\ BothAgreed
        OBVIOUS
    <2> USE DEF Backed, Paired
    <2>1. TypeOK /\ TypeOK'
        OBVIOUS
    <2>2. CASE UNCHANGED inventory
        <3>1. BothAgreed
            BY <2>2 DEF BothAgreed
        <3>2. \A c \in Char, i \in Item : inventory'[c][i] <= inventory[c][i]
            BY <2>1, <2>2 DEF TypeOK
        <3>3. NothingIsMade
            BY <2>1, <3>2, TotalShrinks DEF NothingIsMade
        <3> QED BY <3>1, <3>3
    <2>3. ASSUME NEW c \in Char, Trade_Use(c) PROVE NothingIsMade /\ BothAgreed
        BY <2>1, <2>3, UseIsFair
    <2>4. ASSUME NEW c \in Char, NEW i \in Item, NEW n \in Amounts, Spend(c, i, n) \/ Gain(c, i, n)
          PROVE  NothingIsMade /\ BothAgreed
        BY <2>1, <2>4, OtherIsFair
    <2> QED BY <2>2, <2>3, <2>4 DEF Next, Handler, Game, Trade_Request, Trade_Accept, Trade_Add, Offer,
                    Trade_Remove, Trade_Agree, Trade_Close, Warp, Login, Logout
<1> QED BY <1>1, <1>2, <1>3, PTL DEF Spec, ExchangeIsFair, NothingIsMade, BothAgreed
=============================================================================
