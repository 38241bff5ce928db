-------------------------------- MODULE Items --------------------------------
(***************************************************************************)
(* Items and gold: how they pass between what a character carries, wears,  *)
(* has in the bank, in a locker and in its pet's bag, the chest and the    *)
(* floor of a map, and shops.                                              *)
(*                                                                         *)
(* Every place has limits of its own, and handlers take from one place and *)
(* add to another without looking at what was added.  A variable that is   *)
(* not in the code, net, counts what the game has brought in less what it  *)
(* has taken away: what exists is compared with it.                        *)
(*                                                                         *)
(* Characters here do not trade (see Trade).  Weights are left out: where  *)
(* Character::CanHoldItem looks at them, any part may be taken.            *)
(***************************************************************************)
EXTENDS Characters, Integers, FiniteSets, Functions, SequencesExt

CONSTANTS
    PetOwner,         \* those with a pet; everybody is near the chest and the tile
    Item, Gold,       \* kinds of items, and the one that is money
    Wearable,         \* those that are worn, in one of two places
    Amounts,          \* amounts that are asked for
    MaxItem, MaxPetItem, MaxBank, MaxBankGold, MaxChest, MaxTile,  \* settings of
    MaxShopBuy, MaxDrop, BaseBankSize, BankSizeStep, MaxBankUpgrades,  \* the server
    BankUpgradeBase, BankUpgradeStep, PetSlots, ChestSlots,
    Price,            \* what barbers, innkeepers and others charge
    ShopTrade,        \* NPC::shop_trade: sequence of what is bought and sold
    ShopCraft,        \* NPC::shop_craft: sequence of what is made out of what
    Spawns,           \* Map_Chest::spawns: for each slot, what may appear in it
    MaxInt,           \* the largest int
    MaxNet            \* bound, for each item, on what the game has brought in

Place == {"place1", "place2"}
Box == {"vault", "pet"}
Empty == [i \in Item |-> 0]
Nothing == 0

ASSUME CharIsFinite == IsFiniteSet(Char)
ASSUME ItemIsFinite == IsFiniteSet(Item) /\ Gold \in Item /\ Nothing \notin Item
ASSUME SetsAreParts == PetOwner \subseteq Char /\ Wearable \subseteq Item \ {Gold}
ASSUME AmountsArePositive == Amounts \subseteq Nat \ {0}
ASSUME LimitsArePositive ==
    /\ MaxItem \in Nat \ {0} /\ MaxBank \in Nat \ {0} /\ MaxPetItem \in Nat \ {0}
    /\ MaxBankGold \in Nat /\ MaxInt \in Nat /\ MaxItem <= MaxInt
ASSUME SizesAreNumbers ==
    /\ BaseBankSize \in Nat /\ BankSizeStep \in Nat /\ PetSlots \in Nat
    /\ BankUpgradeBase \in Nat /\ BankUpgradeStep \in Nat /\ Price \in Nat
    /\ MaxChest \in Nat /\ ChestSlots \in Nat
ASSUME DataIsTyped ==
    /\ ShopTrade \in Seq([id : Item, buy : Nat, sell : Nat])
    /\ ShopCraft \in Seq([id : Item, needs : Seq([id : Item, amount : Nat])])
    /\ Spawns \in Seq(SUBSET [id : Item, amount : Int])

VARIABLES
    inventory,    \* Character::inventory, an amount of 0 being no entry
    paperdoll,    \* Character::paperdoll
    goldbank,     \* Character::goldbank
    bankmax,      \* Character::bankmax, upgrades of the locker
    locker,       \* Character::bank ("vault") and NPC::inventory of the pet
    petinv_open,  \* Character::petinv_open, the locker's handlers act on the pet
    chest,        \* Map_Chest::items
    floor,        \* Map::items, by uid
    net           \* of each item, what the game has brought in less what it took

places == <<inventory, paperdoll, goldbank, bankmax, locker, petinv_open, chest, floor>>
vars == <<places, net>>

Least(a, b) == IF a < b THEN a ELSE b
Most(a, b) == IF a < b THEN b ELSE a

\* The int that a product becomes.
Int32(n) == ((n + MaxInt + 1) % (2 * (MaxInt + 1))) - MaxInt - 1

-----------------------------------------------------------------------------
(***************************************************************************)
(* What characters carry.                                                  *)
(***************************************************************************)

\* Character::AddItem and NPC::AddItem.  The limit cuts what is added to an entry, and
\* not what makes a new one.
Added(has, amount, max) ==
    IF amount <= 0 \/ (has > 0 /\ has + amount > MaxInt) THEN has
    ELSE IF has = 0 THEN amount ELSE Least(has + amount, max)

\* Character::DelItem.
Removed(has, amount) == IF amount <= 0 THEN has ELSE Most(has - amount, 0)

With(inv, c, i, amount) == [inv EXCEPT ![c][i] = Added(@, amount, MaxItem)]
Without(inv, c, i, amount) == [inv EXCEPT ![c][i] = Removed(@, amount)]

BroughtIn(i, amount) ==
    /\ net[i] + amount <= MaxNet[i]
    /\ net' = [net EXCEPT ![i] = @ + amount]
TakenOut(i, amount) == net' = [net EXCEPT ![i] = @ - amount]

\* Character::GiveItem: rewards of quests, kills and events, gift boxes, commands.
GiveItem(c, i, amount) ==
    /\ inventory' = With(inventory, c, i, amount)
    /\ BroughtIn(i, amount)
    /\ UNCHANGED <<paperdoll, goldbank, bankmax, locker, petinv_open, chest, floor>>

\* Character::RemoveItem: a quest takes all there is, when that is less than it asks for.
RemoveItem(c, i, amount) ==
    /\ inventory[c][i] > 0
    /\ inventory' = Without(inventory, c, i, amount)
    /\ TakenOut(i, Least(amount, inventory[c][i]))
    /\ UNCHANGED <<paperdoll, goldbank, bankmax, locker, petinv_open, chest, floor>>

\* An item that is used up: scrolls, potions, dyes, beer, rewards of experience.
Item_Use(c, i) ==
    /\ inventory[c][i] > 0
    /\ inventory' = Without(inventory, c, i, 1)
    /\ TakenOut(i, 1)
    /\ UNCHANGED <<paperdoll, goldbank, bankmax, locker, petinv_open, chest, floor>>

Item_Junk(c, i, amount) ==
    /\ inventory[c][i] >= amount
    /\ inventory' = Without(inventory, c, i, amount)
    /\ TakenOut(i, amount)
    /\ UNCHANGED <<paperdoll, goldbank, bankmax, locker, petinv_open, chest, floor>>

\* A barber, and in the same way an innkeeper, a jukebox, a lawyer, a master of skills.
Barber_Buy(c, price) ==
    /\ inventory[c][Gold] >= price
    /\ inventory' = Without(inventory, c, Gold, price)
    /\ TakenOut(Gold, price)
    /\ UNCHANGED <<paperdoll, goldbank, bankmax, locker, petinv_open, chest, floor>>

-----------------------------------------------------------------------------
(***************************************************************************)
(* What characters wear.                                                   *)
(***************************************************************************)

\* Character::Equip
Paperdoll_Add(c, i, p) ==
    /\ inventory[c][i] > 0 /\ i \in Wearable
    /\ paperdoll[c][p] = Nothing
    /\ paperdoll' = [paperdoll EXCEPT ![c][p] = i]
    /\ inventory' = Without(inventory, c, i, 1)
    /\ UNCHANGED <<goldbank, bankmax, locker, petinv_open, chest, floor, net>>

\* Character::Unequip.  It takes the item off and then adds it to those carried, which
\* may be as many as there can be.
Paperdoll_Remove(c, p) ==
    /\ paperdoll[c][p] # Nothing
    /\ paperdoll' = [paperdoll EXCEPT ![c][p] = Nothing]
    /\ inventory' = With(inventory, c, paperdoll[c][p], 1)
    /\ UNCHANGED <<goldbank, bankmax, locker, petinv_open, chest, floor, net>>

-----------------------------------------------------------------------------
(***************************************************************************)
(* The floor.                                                              *)
(***************************************************************************)
Stack(i, amount, owner) == [id |-> i, amount |-> amount, owner |-> owner, protected |-> TRUE]

\* Map::GenerateItemID
LowestFree(f) == CHOOSE u \in 1 .. Cardinality(DOMAIN f) + 1 :
    u \notin DOMAIN f /\ \A v \in 1 .. u - 1 : v \in DOMAIN f

\* Map::AddItem, when nobody puts the item there.
Placed(f, s) == [u \in DOMAIN f \cup {LowestFree(f)} |-> IF u \in DOMAIN f THEN f[u] ELSE s]

\* Map::DelSomeItem
Lifted(f, u, amount) ==
    IF amount < f[u].amount THEN [f EXCEPT ![u].amount = @ - amount]
    ELSE [v \in DOMAIN f \ {u} |-> f[v]]

\* Mutant: a full tile keeps the item with who drops it, but it is on the tile as well.
Item_Drop_Full(c, i, amount) ==
    /\ inventory[c][i] >= amount /\ amount <= MaxDrop
    /\ floor' = Placed(floor, Stack(i, amount, c))
    /\ inventory' = IF Cardinality(DOMAIN floor) < MaxTile THEN Without(inventory, c, i, amount)
                    ELSE inventory
    /\ UNCHANGED <<paperdoll, goldbank, bankmax, locker, petinv_open, chest, net>>

\* When the tile is full Map::AddItem returns an item all the same, which is on no map,
\* and the handler takes it off the character.
Item_Drop(c, i, amount) ==
    /\ inventory[c][i] >= amount /\ amount <= MaxDrop
    /\ floor' = IF Cardinality(DOMAIN floor) >= MaxTile THEN floor
                ELSE Placed(floor, Stack(i, amount, c))
    /\ inventory' = Without(inventory, c, i, amount)
    /\ UNCHANGED <<paperdoll, goldbank, bankmax, locker, petinv_open, chest, net>>

Item_Get(c, u, taken) ==
    /\ u \in DOMAIN floor
    /\ floor[u].owner = c \/ ~floor[u].protected
    /\ taken \in 1 .. Least(floor[u].amount, MaxItem)
    /\ inventory' = With(inventory, c, floor[u].id, taken)
    /\ floor' = Lifted(floor, u, taken)
    /\ UNCHANGED <<paperdoll, goldbank, bankmax, locker, petinv_open, chest, net>>

\* An opponent dies and leaves something for c.
NPC_Drop(c, i, amount) ==
    /\ floor' = Placed(floor, Stack(i, amount, c))
    /\ BroughtIn(i, amount)
    /\ UNCHANGED <<inventory, paperdoll, goldbank, bankmax, locker, petinv_open, chest>>

\* The time for which only its owner may pick up an item passes.
Unprotect(u) ==
    /\ u \in DOMAIN floor /\ floor[u].protected
    /\ floor' = [floor EXCEPT ![u].protected = FALSE]
    /\ UNCHANGED <<inventory, paperdoll, goldbank, bankmax, locker, petinv_open, chest, net>>

OnFloor(f, i) == SumFunction([u \in DOMAIN f |-> IF f[u].id = i THEN f[u].amount ELSE 0])

\* world_despawn_items
Despawn(gone) ==
    /\ gone # {} /\ gone \subseteq DOMAIN floor
    /\ \A u \in gone : ~floor[u].protected
    /\ floor' = [u \in DOMAIN floor \ gone |-> floor[u]]
    /\ net' = [i \in Item |-> net[i] - (OnFloor(floor, i) - OnFloor(floor', i))]
    /\ UNCHANGED <<inventory, paperdoll, goldbank, bankmax, locker, petinv_open, chest>>

\* A pet brings its owner's drops.  Gold goes to the owner, other items into its bag,
\* which has a limit on what it takes at once and one on what it holds.
PickupDrops(c, u) ==
    /\ c \in PetOwner /\ u \in DOMAIN floor /\ floor[u].owner = c
    /\ Cardinality({i \in Item : locker[c]["pet"][i] > 0}) < PetSlots
    /\ IF floor[u].id = Gold
       THEN inventory' = With(inventory, c, Gold, floor[u].amount) /\ UNCHANGED locker
       ELSE /\ locker' = [locker EXCEPT ![c]["pet"][floor[u].id] =
                              Added(@, Least(floor[u].amount, MaxPetItem), MaxPetItem)]
            /\ UNCHANGED inventory
    /\ floor' = Lifted(floor, u, floor[u].amount)
    /\ UNCHANGED <<paperdoll, goldbank, bankmax, petinv_open, chest, net>>

\* Character::DropAll, on servers where death is deadly: a stack for every item that is
\* carried, and one for every place in which something is worn.
DropAll(c) ==
    LET carried == SetToSeq({i \in Item : inventory[c][i] > 0})
        worn == SetToSeq({p \in Place : paperdoll[c][p] # Nothing})
        stacks == [k \in DOMAIN carried |-> Stack(carried[k], inventory[c][carried[k]], c)]
                  \o [k \in DOMAIN worn |-> Stack(paperdoll[c][worn[k]], 1, c)]
    IN  /\ stacks # <<>>
        /\ floor' = FoldLeft(Placed, floor, stacks)
        /\ inventory' = [inventory EXCEPT ![c] = Empty]
        /\ paperdoll' = [paperdoll EXCEPT ![c] = [p \in Place |-> Nothing]]
        /\ UNCHANGED <<goldbank, bankmax, locker, petinv_open, chest, net>>

-----------------------------------------------------------------------------
(***************************************************************************)
(* Banks, lockers and the bags of pets.                                    *)
(***************************************************************************)

\* A bank keeps what does not fit: it takes nothing.
Bank_Add(c, asked) ==
    LET amount == Least(asked, inventory[c][Gold]) IN
    /\ goldbank[c] + amount <= Least(MaxBankGold, MaxInt)
    /\ inventory' = Without(inventory, c, Gold, amount)
    /\ goldbank' = [goldbank EXCEPT ![c] = @ + amount]
    /\ UNCHANGED <<paperdoll, bankmax, locker, petinv_open, chest, floor, net>>

Bank_Take(c, amount) ==
    /\ goldbank[c] - amount >= 0
    /\ goldbank' = [goldbank EXCEPT ![c] = @ - amount]
    /\ inventory' = With(inventory, c, Gold, amount)
    /\ UNCHANGED <<paperdoll, bankmax, locker, petinv_open, chest, floor, net>>

LockerMax(c) == BaseBankSize + bankmax[c] * BankSizeStep

Kinds(contents) == Cardinality({i \in Item : contents[i] > 0})

\* Mutant: the room is looked at only by the client.
Roomy_Always(contents, i, max) == TRUE

\* There is an entry for the item, or room for another.
Roomy(contents, i, max) == contents[i] > 0 \/ Kinds(contents) < max

\* The handlers of lockers act on the pet's bag while that is open.
OpenBox(c) == IF petinv_open[c] THEN "pet" ELSE "vault"

\* How much of what is asked for goes into the locker.  A pet may have brought more than
\* MaxBank; then it is a negative number, which shrinks the entry while DelItem, given
\* the same number, leaves the inventory alone.
Deposit(has, asked) == Least(asked, MaxBank - has)

Locker_Add(c, i, asked) ==
    LET box == OpenBox(c)
        amount == Deposit(locker[c][box][i], asked)
    IN  /\ i # Gold
        /\ inventory[c][i] >= asked
        /\ locker[c][box][i] + asked <= MaxInt
        /\ Roomy(locker[c][box], i, LockerMax(c))
        /\ locker' = [locker EXCEPT ![c][box][i] = @ + amount]
        /\ inventory' = Without(inventory, c, i, amount)
        /\ UNCHANGED <<paperdoll, goldbank, bankmax, petinv_open, chest, floor, net>>

Locker_Take(c, i, taken) ==
    /\ locker[c][OpenBox(c)][i] > 0
    /\ taken \in 1 .. Least(locker[c][OpenBox(c)][i], MaxItem)
    /\ inventory' = With(inventory, c, i, taken)
    /\ locker' = [locker EXCEPT ![c][OpenBox(c)][i] = @ - taken]
    /\ UNCHANGED <<paperdoll, goldbank, bankmax, petinv_open, chest, floor, net>>

Locker_Open(c) ==
    /\ petinv_open[c]
    /\ petinv_open' = [petinv_open EXCEPT ![c] = FALSE]
    /\ UNCHANGED <<inventory, paperdoll, goldbank, bankmax, locker, chest, floor, net>>

\* NPC::OpenInventory
OpenInventory(c) ==
    /\ c \in PetOwner /\ ~petinv_open[c]
    /\ petinv_open' = [petinv_open EXCEPT ![c] = TRUE]
    /\ UNCHANGED <<inventory, paperdoll, goldbank, bankmax, locker, chest, floor, net>>

Locker_Buy(c) ==
    LET cost == BankUpgradeBase + bankmax[c] * BankUpgradeStep IN
    /\ bankmax[c] < MaxBankUpgrades
    /\ inventory[c][Gold] >= cost
    /\ bankmax' = [bankmax EXCEPT ![c] = @ + 1]
    /\ inventory' = Without(inventory, c, Gold, cost)
    /\ TakenOut(Gold, cost)
    /\ UNCHANGED <<paperdoll, goldbank, locker, petinv_open, chest, floor>>

-----------------------------------------------------------------------------
(***************************************************************************)
(* Shops.  The cost of a purchase and the price of a sale are ints.        *)
(***************************************************************************)
Cost(entry, amount) == Int32(amount * entry.buy)

\* The entry that is bought: the first of the item that can be paid for, unless one
\* before it, of any item, costs nothing.
Bought(c, i, amount, k) ==
    LET Pays(j) == ShopTrade[j].id = i /\ inventory[c][Gold] >= Cost(ShopTrade[j], amount) IN
    /\ Pays(k)
    /\ \A j \in 1 .. k : Cost(ShopTrade[j], amount) > 0 /\ (j < k => ~Pays(j))

Shop_Buy(c, i, amount) ==
    /\ amount <= MaxShopBuy
    /\ \E k \in DOMAIN ShopTrade :
          LET cost == Cost(ShopTrade[k], amount) IN
          /\ Bought(c, i, amount, k)
          /\ net[i] + amount <= MaxNet[i]
          /\ inventory' = With(Without(inventory, c, Gold, cost), c, i, amount)
          /\ net' = [net EXCEPT ![Gold] = @ - cost, ![i] = @ + amount]
    /\ UNCHANGED <<paperdoll, goldbank, bankmax, locker, petinv_open, chest, floor>>

Shop_Sell(c, i, amount) ==
    \E k \in DOMAIN ShopTrade :
        LET price == amount * ShopTrade[k].sell IN
        /\ ShopTrade[k].id = i /\ ShopTrade[k].sell # 0
        /\ \A j \in 1 .. k - 1 : ~(ShopTrade[j].id = i /\ ShopTrade[j].sell # 0)
        /\ inventory[c][i] >= amount
        /\ net[Gold] + price <= MaxNet[Gold]
        /\ inventory' = With(Without(inventory, c, i, amount), c, Gold, Int32(price))
        /\ net' = [net EXCEPT ![i] = @ - amount, ![Gold] = @ + price]
        /\ UNCHANGED <<paperdoll, goldbank, bankmax, locker, petinv_open, chest, floor>>

\* What one ingredient takes: all there is, when another one took of the same item.
Used(s, need) ==
    [carried |-> [s.carried EXCEPT ![need.id] = Removed(@, need.amount)],
     net |-> [s.net EXCEPT ![need.id] = @ - Least(need.amount, s.carried[need.id])]]

\* A recipe for the item is followed, if there is enough of each thing it needs.
Crafted(i, s, recipe) ==
    IF /\ recipe.id = i
       /\ \A k \in DOMAIN recipe.needs : s.carried[recipe.needs[k].id] >= recipe.needs[k].amount
    THEN LET used == FoldLeft(Used, s, recipe.needs)
         IN  [carried |-> [used.carried EXCEPT ![i] = Added(@, 1, MaxItem)],
              net |-> [used.net EXCEPT ![i] = @ + 1]]
    ELSE s

\* Every recipe for the item is followed, one after the other.
Shop_Create(c, i) ==
    LET made == FoldLeft(LAMBDA s, recipe : Crafted(i, s, recipe),
                         [carried |-> inventory[c], net |-> net], ShopCraft)
    IN  /\ made.carried # inventory[c] /\ made.net[i] <= MaxNet[i]
        /\ inventory' = [inventory EXCEPT ![c] = made.carried]
        /\ net' = made.net
        /\ UNCHANGED <<paperdoll, goldbank, bankmax, locker, petinv_open, chest, floor>>

-----------------------------------------------------------------------------
(***************************************************************************)
(* The chest of the map: entries that appear in the slots of its spawns,   *)
(* and those that characters put there, whose slot is 0.                   *)
(***************************************************************************)
Slot == 1 .. Len(Spawns)
EntriesOf(contents, i) == {k \in DOMAIN contents : contents[k].id = i}
OfUsers(contents) == {k \in DOMAIN contents : contents[k].slot = 0}
FirstOf(contents, i) == CHOOSE k \in EntriesOf(contents, i) : \A j \in EntriesOf(contents, i) : k <= j

\* Map_Chest::HasItem
InChest(contents, i) ==
    IF EntriesOf(contents, i) = {} THEN 0 ELSE contents[FirstOf(contents, i)].amount

Entry(i, amount, slot) == [id |-> i, amount |-> amount, slot |-> slot]

\* Map_Chest::AddItem, by a character.
Put(contents, i, amount) ==
    IF EntriesOf(contents, i) # {}
    THEN IF InChest(contents, i) + amount > MaxChest THEN contents
         ELSE [contents EXCEPT ![FirstOf(contents, i)].amount = @ + amount]
    ELSE IF \/ Len(contents) >= ChestSlots \/ amount > MaxChest
            \/ Cardinality(OfUsers(contents)) + Len(Spawns) >= ChestSlots THEN contents
         ELSE Append(contents, Entry(i, amount, 0))

\* Mutant: the size of the chest is looked at only when characters put something in.
Spawned_Over(contents, i, amount, slot) == <<Entry(i, amount, slot)>> \o contents

\* Map_Chest::AddItem, by a spawn.
Spawned(contents, i, amount, slot) ==
    IF amount \notin 1 .. MaxChest \/ Len(contents) >= ChestSlots THEN contents
    ELSE <<Entry(i, amount, slot)>> \o contents

Chest_Add(c, i, asked) ==
    LET amount == Least(asked, MaxChest - InChest(chest, i)) IN
    /\ amount > 0 /\ inventory[c][i] >= amount
    /\ chest' = Put(chest, i, amount) /\ chest' # chest
    /\ inventory' = Without(inventory, c, i, amount)
    /\ UNCHANGED <<paperdoll, goldbank, bankmax, locker, petinv_open, floor, net>>

\* Map_Chest::DelSomeItem.  What is left of a spawned entry no longer holds its slot.
LeftOf(contents, i, taken) ==
    LET k == FirstOf(contents, i) IN
    IF taken < contents[k].amount
    THEN [contents EXCEPT ![k] = Entry(i, contents[k].amount - taken, 0)]
    ELSE RemoveAt(contents, k)

\* Mutant: Map_Chest::DelItem is called instead.
Chest_Take_All(c, i, taken) ==
    /\ taken \in 1 .. Least(InChest(chest, i), MaxItem)
    /\ chest' = RemoveAt(chest, FirstOf(chest, i))
    /\ inventory' = With(inventory, c, i, taken)
    /\ UNCHANGED <<paperdoll, goldbank, bankmax, locker, petinv_open, floor, net>>

Chest_Take(c, i, taken) ==
    /\ taken \in 1 .. Least(InChest(chest, i), MaxItem)
    /\ chest' = LeftOf(chest, i, taken)
    /\ inventory' = With(inventory, c, i, taken)
    /\ UNCHANGED <<paperdoll, goldbank, bankmax, locker, petinv_open, floor, net>>

Stored(contents, i) ==
    SumFunction([k \in DOMAIN contents |-> IF contents[k].id = i THEN contents[k].amount ELSE 0])

\* map_spawn_chests: one of its spawns for each slot that is due and not held.
SpawnChests(due) ==
    LET Held == {chest[k].slot : k \in DOMAIN chest} IN
    /\ due # {} /\ due \cap Held = {}
    /\ \E pick \in [due -> UNION {Spawns[s] : s \in due}] :
          /\ \A s \in due : pick[s] \in Spawns[s]
          /\ chest' = FoldLeft(LAMBDA contents, s : IF s \notin due THEN contents
                                   ELSE Spawned(contents, pick[s].id, pick[s].amount, s),
                               chest, [s \in Slot |-> s])
    /\ net' = [i \in Item |-> net[i] + Stored(chest', i) - Stored(chest, i)]
    /\ \A i \in Item : net'[i] <= MaxNet[i]
    /\ UNCHANGED <<inventory, paperdoll, goldbank, bankmax, locker, petinv_open, floor>>

\* Map::Reload empties the chests.
Reload ==
    /\ chest # <<>>
    /\ chest' = <<>>
    /\ net' = [i \in Item |-> net[i] - Stored(chest, i)]
    /\ UNCHANGED <<inventory, paperdoll, goldbank, bankmax, locker, petinv_open, floor>>

-----------------------------------------------------------------------------
Init ==
    /\ inventory = [c \in Char |-> Empty]
    /\ paperdoll = [c \in Char |-> [p \in Place |-> Nothing]]
    /\ goldbank = [c \in Char |-> 0]
    /\ bankmax = [c \in Char |-> 0]
    /\ locker = [c \in Char |-> [b \in Box |-> Empty]]
    /\ petinv_open = [c \in Char |-> FALSE]
    /\ chest = <<>>
    /\ floor = <<>>
    /\ net = Empty

Carries(c) == \E i \in Item :
    \/ \E amount \in Amounts :
          \/ GiveItem(c, i, amount) \/ RemoveItem(c, i, amount) \/ Item_Junk(c, i, amount)
          \/ Item_Drop(c, i, amount) \/ NPC_Drop(c, i, amount)
          \/ Locker_Add(c, i, amount) \/ Chest_Add(c, i, amount)
          \/ Shop_Buy(c, i, amount) \/ Shop_Sell(c, i, amount)
    \/ \E taken \in 1 .. MaxItem : Locker_Take(c, i, taken) \/ Chest_Take(c, i, taken)
    \/ Item_Use(c, i)
    \/ Shop_Create(c, i)
    \/ \E p \in Place : Paperdoll_Add(c, i, p)

Other(c) ==
    \/ \E amount \in Amounts : Bank_Add(c, amount) \/ Bank_Take(c, amount)
    \/ Barber_Buy(c, Price)
    \/ \E p \in Place : Paperdoll_Remove(c, p)
    \/ \E u \in DOMAIN floor :
          PickupDrops(c, u) \/ \E taken \in 1 .. MaxItem : Item_Get(c, u, taken)
    \/ DropAll(c)
    \/ Locker_Open(c) \/ OpenInventory(c) \/ Locker_Buy(c)

Next ==
    \/ \E c \in Char : Carries(c) \/ Other(c)
    \/ \E u \in DOMAIN floor : Unprotect(u)
    \/ \E gone \in SUBSET DOMAIN floor : Despawn(gone)
    \/ \E due \in SUBSET Slot : SpawnChests(due)
    \/ Reload

Spec == Init /\ [][Next]_vars

-----------------------------------------------------------------------------
TypeOK ==
    /\ inventory \in [Char -> [Item -> Nat]]
    /\ paperdoll \in [Char -> [Place -> Wearable \cup {Nothing}]]
    /\ goldbank \in [Char -> Nat]
    /\ bankmax \in [Char -> Nat]
    /\ locker \in [Char -> [Box -> [Item -> Nat]]]
    /\ petinv_open \in [Char -> BOOLEAN]
    /\ chest \in Seq([id : Item, amount : Nat \ {0}, slot : 0 .. Len(Spawns)])
    /\ IsFiniteSet(DOMAIN floor)
    /\ floor \in [DOMAIN floor -> [id : Item, amount : Nat \ {0}, owner : Char,
                                   protected : BOOLEAN]]
    /\ net \in [Item -> Int]

\* All there is of an item.
Total(i) ==
    SumFunction([c \in Char |->
        inventory[c][i] + locker[c]["vault"][i] + locker[c]["pet"][i]
        + (IF i = Gold THEN goldbank[c] ELSE 0)
        + Cardinality({p \in Place : paperdoll[c][p] = i})])
    + OnFloor(floor, i) + Stored(chest, i)

\* What has been lost of an item: it was brought in, not taken out, and is nowhere.
Lost(i) == net[i] - Total(i)

\* How often an item can be made at once.
Recipes(i) == Cardinality({k \in DOMAIN ShopCraft : ShopCraft[k].id = i})

\* However characters, pets and the game hand items on, through whatever limits, nothing
\* comes to be in two places, and items vanish only where a limit cuts them: a character
\* that had some before has as many as one can have, or the int that counts what it, or
\* its pet, has cannot hold the sum, or an int the product; a character makes several at
\* once and has no room for all; the tile is full and the item was dropped; the pet has
\* as many as a pet can have; or a pet had more than a locker holds and its owner added
\* to them.
ItemsConserved == [][
    \A i \in Item : LET lost == Lost(i)' - Lost(i) IN
        /\ lost >= 0
        /\ lost > 0 =>
            \/ \E c \in Char :
                  /\ inventory[c][i] > 0
                  /\ inventory'[c][i] = MaxItem \/ inventory[c][i] + lost > MaxInt
            \/ lost > MaxInt
            \/ Recipes(i) > 1 /\ \E c \in Char : inventory[c][i] + Recipes(i) > MaxItem
            \/ /\ Cardinality(DOMAIN floor) >= MaxTile
               /\ \E c \in Char : inventory[c][i] - inventory'[c][i] = lost
            \/ \E c \in Char :
                  \/ locker'[c]["pet"][i] = MaxPetItem
                  \/ locker[c]["pet"][i] > 0 /\ locker[c]["pet"][i] + lost > MaxInt
                  \/ locker'[c]["pet"][i] = MaxBank /\ locker[c]["pet"][i] > MaxBank
    ]_vars

Kept(c) ==
    /\ goldbank[c] <= MaxBankGold
    /\ Kinds(locker[c]["vault"]) <= LockerMax(c)
    /\ Kinds(locker[c]["pet"]) <= Most(LockerMax(c), PetSlots)
    /\ \A i \in Item : /\ locker[c]["vault"][i] <= MaxBank
                       /\ locker[c]["pet"][i] <= Most(MaxBank, MaxPetItem)
    /\ \A b \in Box : locker[c][b][Gold] = 0

\* Every store keeps to its size.  A locker has no more entries than its owner has paid
\* for and each is within MaxBank; no gold gets around the bank; a pet holds no more than
\* either of its two ways in allows; each entry of a chest is within MaxChest, and each of
\* its slots is held once.
LimitsKept ==
    /\ \A c \in Char : Kept(c)
    /\ Len(chest) <= ChestSlots
    /\ \A k \in DOMAIN chest : chest[k].amount \in 1 .. MaxChest
    /\ \A j, k \in DOMAIN chest : chest[j].slot # 0 /\ chest[j].slot = chest[k].slot => j = k
=============================================================================
