-------------------------------- MODULE Trade --------------------------------
(***************************************************************************)
(* Trading between two characters: the request, the window both put their  *)
(* items in, the agreement of both, the exchange, and the many ways a      *)
(* trade ends early because one of them walks off, warps or logs out.      *)
(*                                                                         *)
(* A trade is kept as fields of both characters that every handler has to  *)
(* update together; there is no trade object.  One handler is one step.    *)
(***************************************************************************)
EXTENDS Integers, FiniteSets

CONSTANTS
    Char,          \* characters
    Item,          \* item ids
    Map,           \* maps
    Nobody,        \* the null pointer
    Dangling,      \* a pointer to a character that was deleted
    Amounts,       \* item amounts a packet may ask for
    MaxItem,       \* config MaxItem
    MaxTrade,      \* config MaxTrade
    MaxInt,        \* the largest int
    OfferLimit,    \* items one may offer, 10 in the code
    RemoveLimit,   \* offers beyond this many can not be removed, 5 in the code
    AddQuantity,   \* config TradeAddQuantity
    TakesOffers    \* whether a quest or a fishing bait takes items that are offered

ASSUME PointersAreDistinct == Nobody \notin Char /\ Dangling \notin Char /\ Nobody # Dangling
ASSUME CharIsFinite == IsFiniteSet(Char)
ASSUME AmountsAreNumbers ==
    /\ Amounts \subseteq Nat \ {0}
    /\ MaxItem \in Nat /\ MaxTrade \in Nat /\ MaxInt \in Nat
    /\ OfferLimit \in Nat /\ RemoveLimit \in Nat
    /\ AddQuantity \in BOOLEAN /\ TakesOffers \in BOOLEAN

VARIABLES
    online,     \* characters in the world
    mapid,      \* Character::mapid
    trading,    \* Character::trading
    partner,    \* Character::trade_partner
    agree,      \* Character::trade_agree
    offer,      \* Character::trade_inventory
    inventory   \* Character::inventory, 0 for an item that is not in it

trade_vars == <<trading, partner, agree, offer>>
vars == <<online, mapid, trade_vars, inventory>>

NotOffered == -1
NoOffer == [i \in Item |-> NotOffered]

Offered(c) == {i \in Item : offer[c][i] # NotOffered}

Lesser(m, n) == IF m <= n THEN m ELSE n

-----------------------------------------------------------------------------
(***************************************************************************)
(* Inventories.                                                            *)
(***************************************************************************)

\* Character::AddItem.  An item not held yet is added whole; otherwise an amount
\* that overflows is refused, and one above MaxItem is cut.
AddItem(held, amount) ==
    IF amount <= 0 \/ held + amount > MaxInt THEN held
    ELSE IF held = 0 THEN amount
    ELSE Lesser(held + amount, MaxItem)

\* Character::DelItem
DelItem(held, amount) ==
    IF amount <= 0 THEN held
    ELSE IF held - amount <= 0 THEN 0
    ELSE held - amount

\* Mutant: what is offered may be spent.
HasItem_All(c, i) == inventory[c][i]

\* Character::HasItem: what is offered does not count.
HasItem(c, i) ==
    IF trading[c] /\ i \in Offered(c) /\ inventory[c][i] > 0
    THEN IF inventory[c][i] >= offer[c][i] THEN inventory[c][i] - offer[c][i] ELSE 0
    ELSE inventory[c][i]

-----------------------------------------------------------------------------
(***************************************************************************)
(* Handlers.                                                               *)
(***************************************************************************)

\* Mutant: an invitation may be sent out of a trade.
Trade_Request_Busy(c, v) ==
    /\ v # c /\ {c, v} \subseteq online /\ mapid[v] = mapid[c]
    /\ ~trading[v]
    /\ partner' = [partner EXCEPT ![c] = v]
    /\ UNCHANGED <<online, mapid, trading, agree, offer, inventory>>

Trade_Request(c, v) ==
    /\ ~trading[c] /\ ~trading[v]
    /\ v # c /\ {c, v} \subseteq online /\ mapid[v] = mapid[c]
    /\ partner' = [partner EXCEPT ![c] = v]
    /\ UNCHANGED <<online, mapid, trading, agree, offer, inventory>>

Trade_Accept(c, v) ==
    /\ ~trading[c] /\ ~trading[v]
    /\ v # c /\ {c, v} \subseteq online /\ mapid[v] = mapid[c]
    /\ partner[v] = c
    /\ partner' = [partner EXCEPT ![c] = v]
    /\ trading' = [trading EXCEPT ![c] = TRUE, ![v] = TRUE]
    /\ agree' = [agree EXCEPT ![c] = FALSE, ![v] = FALSE]
    /\ UNCHANGED <<online, mapid, offer, inventory>>

\* Mutant: a new offer undoes only the agreement of who makes it.
Offer_OwnAgreement(c, i, amount) ==
    /\ offer' = [offer EXCEPT ![c][i] = amount]
    /\ agree' = [agree EXCEPT ![c] = FALSE]
    /\ UNCHANGED <<online, mapid, trading, partner, inventory>>

\* A new offer undoes the agreement of both.
Offer(c, i, amount) ==
    /\ offer' = [offer EXCEPT ![c][i] = amount]
    /\ agree' = [agree EXCEPT ![c] = FALSE, ![partner[c]] = FALSE]
    /\ UNCHANGED <<online, mapid, trading, partner, inventory>>

\* Mutant: what is offered already is not deducted from what is left.
NewOffer_Uncut(c, i, amount) ==
    IF AddQuantity
    THEN (IF i \in Offered(c) THEN offer[c][i] ELSE 0) + Lesser(amount, inventory[c][i])
    ELSE amount

\* The amount is cut to what is left, maybe to nothing.
NewOffer(c, i, amount) ==
    IF AddQuantity
    THEN (IF i \in Offered(c) THEN offer[c][i] ELSE 0) + Lesser(amount, HasItem(c, i))
    ELSE Lesser(amount, inventory[c][i])

\* Trade_Add with Character::AddTradeItem.
Trade_Add(c, i, amount) ==
    /\ trading[c]
    /\ amount <= MaxTrade
    /\ i \in Offered(c) \/ Cardinality(Offered(c)) < OfferLimit
    /\ AddQuantity => NewOffer(c, i, amount) <= MaxTrade
    /\ Offer(c, i, NewOffer(c, i, amount))

Trade_Remove(c, i) ==
    /\ trading[c]
    /\ Cardinality(Offered(c)) <= RemoveLimit
    /\ i \in Offered(c)
    /\ Offer(c, i, NotOffered)

\* Every way out of a trade clears the fields of both, except that it forgets
\* the agreement of the partner.
EndTrade(c) ==
    /\ trading' = [trading EXCEPT ![c] = FALSE, ![partner[c]] = FALSE]
    /\ offer' = [offer EXCEPT ![c] = NoOffer, ![partner[c]] = NoOffer]
    /\ agree' = [agree EXCEPT ![c] = FALSE]
    /\ partner' = [partner EXCEPT ![c] = Nobody, ![partner[c]] = Nobody]

\* Mutant: one agreement is enough.
Settles_Alone(c) == Offered(c) # {}

\* The second to agree settles the trade, unless it has nothing to offer.
Settles(c) == Offered(c) # {} /\ agree[partner[c]]

\* The agreement of one, or its withdrawal, which the other is told of.
Trade_Agree(c, agrees) ==
    /\ trading[c]
    /\ ~(agrees /\ Settles(c))
    /\ agree' = [agree EXCEPT ![c] = agrees]
    /\ UNCHANGED <<online, mapid, trading, partner, offer, inventory>>

\* The offers change hands, the partner's first.
Trade_Use(c) ==
    /\ trading[c]
    /\ Settles(c)
    /\ inventory' = [inventory EXCEPT
          ![c] = [i \in Item |-> DelItem(AddItem(@[i], offer[partner[c]][i]), offer[c][i])],
          ![partner[c]] = [i \in Item |-> AddItem(DelItem(@[i], offer[partner[c]][i]), offer[c][i])]]
    /\ EndTrade(c)
    /\ UNCHANGED <<online, mapid>>

\* Trade_Close, and a step or a turn (Walk.cpp), end the trade.
Trade_Close(c) ==
    /\ trading[c]
    /\ EndTrade(c)
    /\ UNCHANGED <<online, mapid, inventory>>

-----------------------------------------------------------------------------
(***************************************************************************)
(* The rest of the game, as far as it touches a trade.                     *)
(***************************************************************************)

\* Character::Warp, to the same map too.
Warp(c, m) ==
    /\ c \in online
    /\ mapid' = [mapid EXCEPT ![c] = m]
    /\ IF trading[c] THEN EndTrade(c) ELSE UNCHANGED trade_vars
    /\ UNCHANGED <<online, inventory>>

\* A character is created anew with every login.  An invitation to one that was
\* deleted is never withdrawn, and may be taken for one to a character that is
\* allocated in its place.
Login(c) ==
    /\ c \notin online
    /\ online' = online \cup {c}
    /\ \E reused \in SUBSET {d \in online : partner[d] = Dangling} :
          partner' = [d \in Char |-> IF d = c THEN Nobody
                                     ELSE IF d \in reused THEN c ELSE partner[d]]
    /\ agree' = [agree EXCEPT ![c] = FALSE]
    /\ UNCHANGED <<mapid, trading, offer, inventory>>

\* Character::Logout
Logout(c) ==
    /\ c \in online
    /\ online' = online \ {c}
    /\ trading' = [d \in Char |-> trading[d] /\ d # c /\ partner[d] # c]
    /\ offer' = [d \in Char |-> IF trading[d] /\ (d = c \/ partner[d] = c) THEN NoOffer
                                ELSE offer[d]]
    /\ agree' = [agree EXCEPT ![c] = FALSE]
    /\ partner' = [d \in Char |->
          IF d = c \/ (trading[d] /\ partner[d] = c) THEN Nobody
          ELSE IF partner[d] = c THEN Dangling ELSE partner[d]]
    /\ UNCHANGED <<mapid, inventory>>

\* Handlers that work during a trade ask HasItem before they take anything; the quest
\* action "removeitem" and fishing do not ask.
Spend(c, i, amount) ==
    /\ c \in online
    /\ TakesOffers \/ HasItem(c, i) >= amount
    /\ inventory' = [inventory EXCEPT ![c][i] = DelItem(@, amount)]
    /\ UNCHANGED <<online, mapid, trade_vars>>

\* An item is picked up or given.
Gain(c, i, amount) ==
    /\ c \in online
    /\ inventory' = [inventory EXCEPT ![c][i] = AddItem(@, amount)]
    /\ UNCHANGED <<online, mapid, trade_vars>>

-----------------------------------------------------------------------------
Init ==
    /\ online = {}
    /\ mapid \in [Char -> Map]
    /\ trading = [c \in Char |-> FALSE]
    /\ partner = [c \in Char |-> Nobody]
    /\ agree = [c \in Char |-> FALSE]
    /\ offer = [c \in Char |-> NoOffer]
    /\ inventory \in [Char -> [Item -> {0} \cup Amounts]]

Handler(c) ==
    \/ \E v \in Char : Trade_Request(c, v) \/ Trade_Accept(c, v)
    \/ \E i \in Item, amount \in Amounts : Trade_Add(c, i, amount)
    \/ \E i \in Item : Trade_Remove(c, i)
    \/ \E agrees \in BOOLEAN : Trade_Agree(c, agrees)
    \/ Trade_Use(c)
    \/ Trade_Close(c)

Game(c) ==
    \/ \E m \in Map : Warp(c, m)
    \/ Login(c) \/ Logout(c)
    \/ \E i \in Item, amount \in Amounts :
          Spend(c, i, amount) \/ Gain(c, i, amount)

Next == \E c \in Char : Handler(c) \/ Game(c)

Spec == Init /\ [][Next]_vars

-----------------------------------------------------------------------------
(***************************************************************************)
(* Properties.                                                             *)
(***************************************************************************)

TypeOK ==
    /\ online \subseteq Char
    /\ mapid \in [Char -> Map]
    /\ trading \in [Char -> BOOLEAN]
    /\ partner \in [Char -> Char \cup {Nobody, Dangling}]
    /\ agree \in [Char -> BOOLEAN]
    /\ offer \in [Char -> [Item -> Nat \cup {NotOffered}]]
    /\ inventory \in [Char -> [Item -> Nat]]

\* A trade is between exactly two characters, who are both in the world, on the
\* same map, and each other's partner.  The handlers follow trade_partner of a
\* trading character, and write through it, without a test.
TradesArePaired ==
    \A c \in Char : trading[c] =>
        /\ partner[c] \in online \ {c}
        /\ c \in online
        /\ trading[partner[c]] /\ partner[partner[c]] = c
        /\ mapid[partner[c]] = mapid[c]

\* However a trade ended, nothing of it is left on offer in the next one.
NoOfferOutsideTrade == \A c \in Char : ~trading[c] => offer[c] = NoOffer

\* What is on offer is there to give: none of the handlers that run during a trade
\* spends it.  Where a quest takes items this does not hold, and Trade_Agree then
\* hands over more than it removes.
OffersBacked ==
    \A c \in Char, i \in Item : i \in Offered(c) => offer[c][i] <= inventory[c][i]

\* Nobody's agreement outlives what was agreed to: a step after which a trading
\* character agrees has not changed either offer, nor opened the trade.
AgreementIsCurrent ==
    [][\A c \in Char : trading'[c] /\ agree'[c] =>
          /\ trading[c]
          /\ offer'[c] = offer[c] /\ offer'[partner[c]] = offer[partner[c]]]_vars

SumOver(f) ==
    LET sum[S \in SUBSET Char] ==
            IF S = {} THEN 0 ELSE LET c == CHOOSE x \in S : TRUE IN f[c] + sum[S \ {c}]
    IN  sum[Char]

Total(i) == SumOver([c \in Char |-> inventory[c][i]])

\* No trade makes items out of nothing, for two offers of the same item, a full
\* inventory and an overflow too.  Nobody loses an item in a trade that it had not
\* offered, and items only move between two who were trading and both agreed: the
\* second by this very step.
ExchangeIsFair ==
    [][/\ \A i \in Item :
             Total(i)' <= Total(i) \/ \E c \in Char, n \in Amounts : Gain(c, i, n)
       /\ \A c \in Char : inventory'[c] # inventory[c] /\ trading[c] /\ ~trading'[c] =>
             /\ ~trading'[partner[c]]
             /\ agree[c] \/ agree[partner[c]]
             /\ \A i \in Item : inventory'[c][i] < inventory[c][i] => i \in Offered(c)]_vars
=============================================================================
