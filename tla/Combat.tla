-------------------------------- MODULE Combat --------------------------------
(***************************************************************************)
(* NPCs, those who fight them, and pets.                                   *)
(*                                                                         *)
(* An NPC remembers its opponents and what each has done to it             *)
(* (NPC::damagelist), and each character remembers the NPCs that remember  *)
(* it (Character::unregister_npc), so that both can be cleared when one of *)
(* the two goes.  A boss has children, which it brings along when it       *)
(* spawns and takes along when it is killed.  A pet is an NPC of its own   *)
(* that is made anew wherever its owner arrives.  Characters talk to those *)
(* that serve, and to pets, by a pointer to the NPC they have opened; and  *)
(* those who fight in an arena are counted by it as they come and go.      *)
(*                                                                         *)
(* Objects are addresses: what is deleted is Free, and may be allocated    *)
(* again.  Of maps there are one with NPCs of its own, Home, and others,   *)
(* where only pets are.  Positions are dropped (who has to be near may     *)
(* be), and parties with them: characters fight alone.                     *)
(***************************************************************************)
EXTENDS Integers, FiniteSets, SequencesExt

CONSTANTS
    Char,           \* characters
    PetOwner,       \* those with a pet in the database
    Npc,            \* NPCs of the file of the map Home ...
    Order,          \* ... and their sequence in it
    Temporary,      \* addresses for NPCs that quests, events and commands spawn
    Pet,            \* addresses for pets
    Boss, Child,    \* which NPCs are bosses and which are children
    Serving,        \* NPCs whose type is to serve: priests, shops, banks ...
    Guarded,        \* NPCs that kills cannot be stolen of (KSProtectMode, npc.ini:62)
    Home, Elsewhere,
    ArenaMap,       \* the one of the two that may have an arena
    MaxHp,          \* hp an NPC spawns with
    Exp,            \* what a kill is worth
    ShareMode,      \* who gets it (misc.ini:71)
    RespawnBossChildren,  \* npc.ini:25
    RemoteReloads,  \* administrators reload maps they are not on
    ReusesMemory,   \* a character may be loaded where another was deleted
    MaxTotal,       \* bound on the damage counted for an NPC
    Dangling,       \* the address of a character that was deleted
    None

Object == Npc \cup Temporary \cup Pet
Map == {Home, Elsewhere}

ASSUME OrderIsOfNpcs == Order \in Seq(Npc) /\ ToSet(Order) = Npc /\ IsInjective(Order)
ASSUME KindsAreApart ==
    /\ Boss \subseteq Npc
    /\ Child \subseteq (Npc \cup Temporary) \ Boss
    /\ Serving \subseteq Npc \ (Boss \cup Child)
    /\ Npc \cap Temporary = {} /\ Pet \cap (Npc \cup Temporary) = {}
    /\ PetOwner \subseteq Char /\ Home # Elsewhere /\ ArenaMap \in Map
    /\ {None, Dangling} \cap (Object \cup Char \cup Map) = {} /\ None # Dangling

Marriages == [partner : [1..2 -> Char \cup {Dangling}], accepted : [1..2 -> BOOLEAN],
              begun : BOOLEAN, state : Int]
NpcState ==
    [alive : BOOLEAN, hp : Int, killowner : Char \cup {None}, parent : Object \cup {None},
     damage : [Char -> Int \cup {None}], total : Int, owner : Char \cup {None},
     marriage : Marriages \cup {None}]

ASSUME CharsAreFinite == IsFiniteSet(Char)
ASSUME NoneIsNothing == None \notin Int \cup NpcState
ASSUME MaxHpIsPositive == MaxHp \in Nat \ {0}

VARIABLES
    where,       \* Character::map, None when not in the world
    unregister,  \* Character::unregister_npc
    pet,         \* Character::pet while HasPet
    npc,         \* Character::npc, whom the character talks to
    arena,       \* Map::arena with its occupants; Character::arena and next_arena
    npcs,        \* Map::npcs, in the order of the vector
    object       \* the NPCs in memory

vars == <<where, unregister, pet, npc, arena, npcs, object>>

Free == None
Least(a, b) == IF a < b THEN a ELSE b

\* NPC::NPC.
Fresh(owner) ==
    [alive |-> FALSE, hp |-> MaxHp, killowner |-> None, parent |-> None,
     damage |-> [c \in Char |-> None], total |-> 0, owner |-> owner,
     marriage |-> None]

\* What handlers work on.
Memory == [where |-> where, unregister |-> unregister, pet |-> pet, npc |-> npc,
           arena |-> arena, npcs |-> npcs, object |-> object]

\* Objects that somebody can still find.  What nobody can find is leaked, or was deleted:
\* its address may be used again.
Reached(S) ==
    (UNION ({ToSet(S.npcs[m]) : m \in Map} \cup Range(S.unregister)))
        \cup Range(S.pet) \cup Range(S.npc)
Unused(S, o) == S.object[o] = Free /\ o \notin Reached(S)

\* What a handler leaves behind.
Become(S) ==
    /\ where' = S.where /\ unregister' = S.unregister /\ pet' = S.pet
    /\ npc' = S.npc /\ arena' = S.arena /\ npcs' = S.npcs
    /\ LET reached == Reached(S)
       IN object' = [o \in Object |-> IF o \in reached THEN S.object[o] ELSE Free]

-----------------------------------------------------------------------------
(***************************************************************************)
(* NPCs.                                                                   *)
(***************************************************************************)

\* A vector without some, which keeps the order of the others: each moves up to the place
\* that is the number of those up to it.
Erased(list, D) ==
    LET kept == {i \in DOMAIN list : list[i] \notin D}
    IN [k \in 1..Cardinality(kept) |->
            list[CHOOSE i \in kept : Cardinality({j \in kept : j <= i}) = k]]

Alive(S, o) == S.object[o] # Free /\ S.object[o].alive
OnMap(S, m) == ToSet(S.npcs[m])
Opponents(n) == {c \in Char : n.damage[c] # None}

\* NPCs that die or are deleted forget their opponents, and are forgotten by them.
Forgotten(n) == [n EXCEPT !.damage = [c \in Char |-> None], !.total = 0]
Forget(S, D) ==
    [S EXCEPT !.unregister = [c \in Char |->
                  @[c] \ {o \in D : c \in Opponents(S.object[o])}],
              !.object = [o \in Object |-> IF o \in D THEN Forgotten(@[o]) ELSE @[o]]]

\* Mutant: an NPC goes without a word to those who talk to it.
Delete_Unheard(S, D) ==
    [S EXCEPT !.npcs = [m \in Map |-> Erased(@[m], D)],
              !.object = [o \in Object |-> IF o \in D THEN Free ELSE @[o]]]
\* delete of NPCs, which are erased from their map first: NPC::~NPC has the characters
\* of that map talk to it no longer.
Delete(S, D) ==
    [S EXCEPT !.npcs = [m \in Map |-> Erased(@[m], D)],
              !.npc = [c \in Char |-> IF @[c] \in D /\ @[c] \in OnMap(S, S.where[c])
                                      THEN None ELSE @[c]],
              !.object = [o \in Object |-> IF o \in D THEN Free ELSE @[o]]]

\* Mutant: who dies of a command or with its boss is not forgotten by its opponents.
Die_Remembered(S, D) ==
    Delete([S EXCEPT !.object = [o \in Object |->
               IF o \in D THEN [Forgotten(@[o]) EXCEPT !.alive = FALSE, !.parent = None]
                          ELSE @[o]]], D \cap Temporary)
\* NPC::Die, of living ones.
Die(S, D) ==
    LET dead == [Forget(S, D) EXCEPT !.object = [o \in Object |->
                    IF o \in D THEN [@[o] EXCEPT !.alive = FALSE, !.parent = None]
                               ELSE @[o]]]
    IN Delete(dead, D \cap Temporary)

\* The children a boss meets when it walks the list and has each of them die.  The loop
\* keeps the ends it has read at the start: where a temporary child is erased the
\* others move up, so that the next is stepped over and the last is still seen where it
\* was.
Meet(walk, i) ==
    LET o == walk.memory[i]
        rest == Erased(walk.list, {o})
    IN IF o \notin Child THEN walk
       ELSE IF o \notin Temporary THEN [walk EXCEPT !.met = @ \cup {o}]
       ELSE [met |-> walk.met \cup {o}, list |-> rest,
             memory |-> rest \o SubSeq(walk.memory, Len(rest) + 1, Len(walk.memory))]
Met(list) ==
    FoldLeft(Meet, [met |-> {}, list |-> list, memory |-> list],
             [i \in DOMAIN list |-> i]).met

\* NPC::Killed: what an opponent is given for it.
Most(n) == CHOOSE c \in Opponents(n) : \A x \in Opponents(n) : n.damage[x] <= n.damage[c]
Reward(n, from, c) ==
    CASE ShareMode = 0 -> IF c = from THEN Exp ELSE 0
      [] ShareMode = 1 -> IF c = Most(n) THEN Exp ELSE 0
      [] ShareMode = 2 -> (Exp * n.damage[c] + n.total - 1) \div n.total
      [] ShareMode = 3 -> Exp * Cardinality(Opponents(n))

\* Mutant: the children stay.
Killed_Alone(S, o) ==
    Delete([Forget(S, {o}) EXCEPT !.object[o].alive = FALSE], {o} \cap (Temporary \cup Pet))
\* NPC::Killed.  A boss takes its children along; what is temporary is deleted.
Killed(S, o) ==
    LET dead == [Forget(S, {o}) EXCEPT !.object[o].alive = FALSE]
        alone == IF o \notin Boss THEN dead
                 ELSE Die(dead, {x \in Child : x \in Met(S.npcs[Home]) /\ Alive(S, x)})
    IN Delete(alone, {o} \cap (Temporary \cup Pet))

\* NPC::Damage.  What a protected NPC is spared is counted all the same.
Protected(n, o, c) == o \in Guarded /\ n.killowner \notin {None, c}
HitBy(n, o, c, amount) ==
    LET limited == Least(n.hp, amount)
        counted == [n EXCEPT !.total = @ + limited]
    IN IF Protected(n, o, c) THEN counted
       ELSE [counted EXCEPT !.hp = @ - limited,
                            !.damage[c] = IF @ = None THEN limited ELSE @ + limited]
Struck(n, o, c, amount) ==
    LET m == HitBy(n, o, c, amount)
    IN IF m.hp > 0 /\ m.killowner = None THEN [m EXCEPT !.killowner = c] ELSE m

Damage(S, o, c, amount) ==
    LET n == Struck(S.object[o], o, c, amount)
        hit == [S EXCEPT !.object[o] = n,
                         !.unregister[c] = IF c \in Opponents(n) THEN @ \cup {o} ELSE @]
        lost == IF o \in Pet THEN [hit EXCEPT !.pet[n.owner] = None] ELSE hit
    IN IF n.hp > 0 THEN hit ELSE Killed(lost, o)

\* NPC::Spawn, of one that is dead.  What a boss brings along it is the parent of.
Spawned(n, parent) ==
    [n EXCEPT !.alive = TRUE, !.hp = MaxHp,
              !.parent = IF parent = None THEN @ ELSE parent]
Spawn(S, o) ==
    LET brought == IF o \notin Boss THEN {}
                   ELSE {x \in OnMap(S, Home) \cap Child : ~Alive(S, x)}
    IN [S EXCEPT !.object = [x \in Object |->
            IF x = o THEN Spawned(@[x], None)
            ELSE IF x \in brought THEN Spawned(@[x], o) ELSE @[x]]]

-----------------------------------------------------------------------------
(***************************************************************************)
(* Pets.                                                                   *)
(***************************************************************************)

\* Character::PetTransfer, of characters with a pet: it is taken off the map.
Dismiss(S, C) ==
    LET gone == {S.pet[c] : c \in C}
    IN [S EXCEPT !.npcs = [m \in Map |-> Erased(@[m], gone)],
                 !.pet = [c \in Char |-> IF c \in C THEN None ELSE @[c]]]

\* Character::AddPet and SummonPet, at addresses that nobody else has.
Called(S, at, m) ==
    [S EXCEPT !.object = [o \in Object |->
                  IF o \in Range(at) THEN Spawned(Fresh(CHOOSE c \in DOMAIN at : at[c] = o), None)
                                     ELSE @[o]],
              !.npcs[m] = @ \o SetToSeq(Range(at)),
              !.pet = [c \in Char |-> IF c \in DOMAIN at THEN at[c] ELSE @[c]]]

\* Any pet that is out is taken back first.
Call(S, c, o) ==
    Called(Dismiss(S, {c} \cap {x \in Char : S.pet[x] # None}), [x \in {c} |-> o], S.where[c])

\* Mutant: who leaves is still counted.
Left_Counted(a, C) == [a EXCEPT !.members = @ \ C]
\* What Character::Warp and Character::Logout do to the arena of those who leave, ...
Left(a, C) ==
    [a EXCEPT !.members = @ \ C, !.occupants = @ - Cardinality(C \cap a.members)]
\* ... and Warp to the one where they are expected.
Entered(a, C) ==
    [a EXCEPT !.members = @ \cup (C \cap a.next), !.next = @ \ C,
              !.occupants = @ + Cardinality(C \cap a.next)]

\* Mutant: the pet stays where its owner leaves.
Arrive_Alone(S, C, m) ==
    {[S EXCEPT !.where = [c \in Char |-> IF c \in C THEN m ELSE @[c]],
               !.npc = [c \in Char |-> IF c \in C THEN None ELSE @[c]]]}
\* Character::Warp of some to one map: their pets are taken off the map, and called where
\* their owners arrive if there is place for them and they are alive.
Arrive(S, C, m) ==
    LET had == {c \in C : S.pet[c] # None}
        back == [Dismiss(S, had)
                    EXCEPT !.where = [c \in Char |-> IF c \in C THEN m ELSE @[c]],
                           !.npc = [c \in Char |-> IF c \in C THEN None ELSE @[c]],
                           !.arena = Entered(Left(@, C), C)]
        unused == {x \in Pet : Unused(S, x)}
    IN {Called(back, at, m) :
           at \in {f \in UNION {[K -> unused] : K \in SUBSET had} : IsInjective(f)}}

-----------------------------------------------------------------------------
(***************************************************************************)
(* Handlers and timers.                                                    *)
(***************************************************************************)

InWorld(c) == where[c] # None
Here(o) == {c \in Char : where[c] # None /\ o \in OnMap(Memory, where[c])}
\* Damage is counted no further than this.
Countable(o, amount) == object[o].total + amount <= MaxTotal

\* Character::Character, whose place in memory a wedding may still have a pointer to.
Places == {x \in Object \X (1..2) :
              LET n == object[x[1]]
              IN n # Free /\ n.marriage # None /\ n.marriage.partner[x[2]] = Dangling}
Allocated(c) ==
    {Memory} \cup {[Memory EXCEPT !.object[x[1]].marriage.partner[x[2]] = c] :
                      x \in {y \in Places : ReusesMemory}}

\* World::Login.
Login(c) ==
    /\ ~InWorld(c)
    /\ \E m \in Map, S \in Allocated(c) :
          Become([S EXCEPT !.where[c] = m, !.unregister[c] = {}])

\* Mutant: what the character did stays in the total.
Logout_Counted(c) ==
    LET Leaves(n, o) == [n EXCEPT !.damage[c] = None,
                                  !.killowner = IF @ = c THEN None ELSE @]
        left == [Memory EXCEPT !.object = [o \in Object |->
                    IF @[o] = Free THEN Free ELSE Leaves(@[o], o)]]
        alone == IF pet[c] = None THEN left ELSE Dismiss(left, {c})
    IN /\ InWorld(c)
       /\ Become([alone EXCEPT !.where[c] = None, !.unregister[c] = {}, !.npc[c] = None,
                               !.arena = Left(@, {c})])
\* The partners of a wedding are pointers, and nobody clears them.
Parted(n, c) ==
    IF n.marriage = None THEN n
    ELSE [n EXCEPT !.marriage.partner = [i \in 1..2 |-> IF @[i] = c THEN Dangling ELSE @[i]]]

\* Character::Logout, after which the character is deleted.
Logout(c) ==
    LET Leaves(n, o) == IF o \notin unregister[c] THEN n
                        ELSE [n EXCEPT !.total = @ - n.damage[c], !.damage[c] = None]
        Frees(n, o) == IF \A m \in Map : o \notin OnMap(Memory, m) THEN n
                       ELSE [n EXCEPT !.killowner = IF @ = c THEN None ELSE @]
        left == [Memory EXCEPT !.object = [o \in Object |->
                    IF @[o] = Free THEN Free ELSE Parted(Frees(Leaves(@[o], o), o), c)]]
        alone == IF pet[c] = None THEN left ELSE Dismiss(left, {c})
    IN /\ InWorld(c)
       /\ Become([alone EXCEPT !.where[c] = None, !.unregister[c] = {}, !.npc[c] = None,
                               !.arena = Left(@, {c})])

\* Character::Warp, by walking, scrolls, spells, quests and commands.
Warp(c, m) ==
    /\ InWorld(c)
    /\ \E S \in Arrive(Memory, {c}, m) : Become(S)

\* Map::Attack and Map::SpellAttack.  Pets can be attacked where players can.
Attack(c, o, amount) ==
    /\ c \in Here(o) /\ Alive(Memory, o) /\ object[o].owner # c /\ o \notin Serving
    /\ Countable(o, amount)
    /\ Become(Damage(Memory, o, c, amount))

\* NPC::Act of a pet: it hits an NPC in the name of its owner, ...
PetAttack(c, o, amount) ==
    /\ InWorld(c) /\ pet[c] # None /\ Alive(Memory, pet[c])
    /\ c \in Here(o) /\ Alive(Memory, o) /\ o \notin Serving \cup {pet[c]}
    /\ Countable(o, amount)
    /\ Become(Damage(Memory, o, c, amount))
\* ... or is called back when too far away, or taken back where pets are not allowed.
PetStrays(c) ==
    /\ InWorld(c) /\ pet[c] # None /\ Alive(Memory, pet[c])
    /\ \/ \E o \in Pet : Unused(Memory, o) /\ Become(Call(Memory, c, o))
       \/ Become(Dismiss(Memory, {c}))

\* The handlers named Open, Quest_Use for quests and pets, and Walk, which ends it.
Open(c, o) ==
    /\ c \in Here(o) /\ o \in Serving \cup Pet
    /\ Become([Memory EXCEPT !.npc[c] = o])
Walk(c) ==
    /\ InWorld(c) /\ npc[c] # None
    /\ Become([Memory EXCEPT !.npc[c] = None])

\* Items, spells, quests and commands that call and dismiss pets.
CallPet(c) ==
    /\ InWorld(c) /\ c \in PetOwner
    /\ \E o \in Pet : Unused(Memory, o) /\ Become(Call(Memory, c, o))
DismissPet(c) ==
    /\ InWorld(c) /\ pet[c] # None
    /\ Become(Dismiss(Memory, {c}))

\* The start of NPC::Act: a child takes the first boss of the map as parent, and who is
\* away or has not hit it for long no longer owns the kill.
Minded(n, o, bored) ==
    LET list == npcs[Home]
        bosses == {i \in DOMAIN list : list[i] \in Boss}
        k == n.killowner
    IN [n EXCEPT !.parent = IF o \in Child /\ @ = None /\ bosses # {}
                            THEN list[CHOOSE i \in bosses : \A j \in bosses : i <= j] ELSE @,
                 !.killowner = IF k \in Opponents(n) /\ (bored \/ where[k] # Home)
                               THEN None ELSE @]

\* NPC::Act: it walks, kills a character, who goes to where it respawns
\* (Character::DeathRespawn), or hits the pet of one.
Act(o) ==
    /\ o \in OnMap(Memory, Home) \ (Pet \cup Serving) /\ Alive(Memory, o)
    /\ \E bored \in BOOLEAN :
          LET S == [Memory EXCEPT !.object[o] = Minded(@, o, bored)]
          IN \/ Become(S)
             \/ \E c \in Here(o), m \in Map : \E T \in Arrive(S, {c}, m) : Become(T)
             \/ \E c \in Here(o), amount \in 1..MaxHp :
                   /\ pet[c] # None /\ Alive(S, pet[c]) /\ Countable(pet[c], amount)
                   /\ Become(Damage(S, pet[c], c, amount))

\* world_npc_recover.
Recover(o) ==
    /\ Alive(Memory, o) /\ object[o].hp < MaxHp
    /\ \E hp \in (object[o].hp + 1)..MaxHp :
          Become([Memory EXCEPT !.object[o].hp = hp])

\* Mutant: it comes back as somebody's kill.
Respawn_Owned(o) ==
    /\ o \in OnMap(Memory, Home) \ Child /\ ~Alive(Memory, o)
    /\ Become(Spawn(Memory, o))
\* world_spawn_npcs, which brings back what died long enough ago.
Respawn(o) ==
    LET parent == object[o].parent
    IN /\ o \in OnMap(Memory, Home) /\ ~Alive(Memory, o)
       /\ o \in Child => parent # None /\ Alive(Memory, parent) /\ RespawnBossChildren
       /\ Become(Spawn([Memory EXCEPT !.object[o].killowner = None], o))

\* Quests, the devil gate and commands spawn NPCs, and a command has them die.
SpawnTemporary(o) ==
    /\ Unused(Memory, o)
    /\ Become(Spawn([Memory EXCEPT !.object[o] = Fresh(None),
                                   !.npcs[Home] = Append(@, o)], o))
DespawnNPC ==
    /\ OnMap(Memory, Home) \cap Temporary # {}
    /\ Become(Die(Memory, {o \in OnMap(Memory, Home) \cap Temporary : Alive(Memory, o)}))

\* Map::Unload and Map::Load, which has each NPC spawn as it is read.
Unload(S, m) == Delete(Forget(S, OnMap(S, m)), OnMap(S, m))
Load(S, m) ==
    IF m # Home THEN S
    ELSE [S EXCEPT !.npcs[m] = Order,
                   !.object = [o \in Object |->
                       IF o \in Npc THEN Spawned(Fresh(None), None) ELSE @[o]]]

\* The command that reloads a map: pets are taken back on the map of who gives it, and
\* not on the one that is reloaded.
ReloadMap(c, m) ==
    LET back == Dismiss(Memory, {x \in Char : where[x] = where[c] /\ pet[x] # None})
    IN /\ InWorld(c)
       /\ m = where[c] \/ RemoteReloads
       /\ Become(back) \/ Become(Load(Unload(back, m), m))

Init ==
    /\ where = [c \in Char |-> None] /\ pet = [c \in Char |-> None]
    /\ arena = [members |-> {}, next |-> {}, occupants |-> 0, enabled |-> TRUE]
    /\ npc = [c \in Char |-> None] /\ unregister = [c \in Char |-> {}]
    /\ npcs = [m \in Map |-> IF m = Home THEN Order ELSE <<>>]
    /\ object = [o \in Object |-> IF o \in Npc THEN Spawned(Fresh(None), None) ELSE Free]

Next ==
    \/ \E c \in Char : Login(c) \/ Logout(c) \/ CallPet(c) \/ DismissPet(c) \/ PetStrays(c)
                         \/ Walk(c)
    \/ \E c \in Char, o \in Object : Open(c, o)
    \/ \E c \in Char, m \in Map : Warp(c, m) \/ ReloadMap(c, m)
    \/ \E c \in Char, o \in Object, amount \in 0..MaxHp :
          Attack(c, o, amount) \/ PetAttack(c, o, amount)
    \/ \E o \in Object : Act(o) \/ Recover(o) \/ Respawn(o)
    \/ \E o \in Temporary : SpawnTemporary(o)
    \/ DespawnNPC

Spec == Init /\ [][Next]_vars

-----------------------------------------------------------------------------
(***************************************************************************)
(* Properties.                                                             *)
(***************************************************************************)

\* The two records of who fights whom agree: an NPC lists a character as an opponent
\* exactly if the character lists the NPC, which is still in memory, and who has
\* left the world is in neither.  Every death, logout and reload follows one of them
\* and clears the other.
OpponentsMatch ==
    \A c \in Char, o \in Object :
        /\ o \in unregister[c] <=> object[o] # Free /\ object[o].damage[c] # None
        /\ where[c] = None => unregister[c] = {}

\* Were the NPC killed now, its opponents would together get what the kill is worth, but for
\* the rounding up of each share: whoever came, went, was healed or left before
\* (misc.ini:75).  Of protected NPCs they may get less, as the hits they are spared are
\* counted in the total but for nobody.
FairShare ==
    \A o \in Object : object[o] # Free /\ object[o].total > 0 =>
        \A from \in Opponents(object[o]) :
            LET n == object[o]
                given == MapThenSumSet(LAMBDA c : Reward(n, from, c), Opponents(n))
            IN /\ given < Exp + Cardinality(Opponents(n))
               /\ o \notin Guarded => given >= Exp

\* A kill belongs to somebody in the world, and, but for children, which a boss brings
\* back without asking, to an opponent of the NPC, so that it can get bored of it.
KillOwned ==
    \A m \in Map : \A o \in OnMap(Memory, m) :
        LET n == object[o]
        IN n.killowner # None =>
              /\ where[n.killowner] # None
              /\ n.alive /\ o \notin Child => n.killowner \in Opponents(n)

\* Who talks to an NPC talks to one that is in memory, and on its map but for pets that
\* were taken back meanwhile: handlers of shops, inns and priests follow the pointer, and
\* check no more than the type they have noted with it.
ServedByLiving ==
    \A c \in Char : npc[c] # None =>
        /\ where[c] # None /\ object[npc[c]] # Free
        /\ npc[c] \notin Pet => npc[c] \in OnMap(Memory, where[c])

\* The children of a map do not outlive its bosses, nor come back without one.
ChildrenFall ==
    \A o \in Child \cap Npc :
        Alive(Memory, o) /\ Boss # {} => \E b \in Boss : Alive(Memory, b)

\* Who has a pet finds it alive on the map it is on itself, and no pet is on a map
\* without its owner: whichever way the owner or the pet went.
PetsFollow ==
    /\ \A c \in Char : pet[c] # None =>
          /\ where[c] # None /\ pet[c] \in OnMap(Memory, where[c])
          /\ Alive(Memory, pet[c]) /\ object[pet[c]].owner = c
    /\ \A m \in Map : \A o \in OnMap(Memory, m) \cap Pet :
          object[o] # Free /\ pet[object[o].owner] = o

=============================================================================
