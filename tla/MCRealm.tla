------------------------------- MODULE MCRealm --------------------------------
(* A small instance of Realm for TLC. *)
EXTENDS Realm, TLC

CONSTANTS a, b, boss, guard, priest, law, Limit

File == <<guard, boss, priest, law>>
\* So much happens at a time: fights, and NPCs that are dead, hurt or not of the map's
\* file.  Most does while everybody is there, and less while characters talk.
Fights == {<<c, o>> \in Char \X Object : object[o] # Free /\ object[o].damage[c] # None}
Changed == {o \in Object : object[o] # Free} \ {o \in Npc : object[o].alive /\ object[o].hp = MaxHp}
Talks == {c \in Char : npc[c] # None}
Busy == Cardinality(Fights) + Cardinality(Changed)
Few ==
    /\ Busy <= Limit
    /\ Busy = Limit => \A c \in Char : where[c] = Home
    /\ Talks # {} => Busy + Cardinality(Talks) < Limit

\* Weddings and games are for times of peace, and one of them at a time.
AsLoaded(o) ==
    IF o \in Npc THEN [object[o] EXCEPT !.marriage = None] = Spawned(Fresh(None), None)
    ELSE object[o] = Free
Engaged == \E c \in Char : vows[c] # Single
Playing == arena.members # {} \/ ~arena.enabled
Peace ==
    /\ Engaged => \A o \in Object : AsLoaded(o)
    /\ Playing => ~Engaged /\ Talks = {} /\ \A o \in Object \ Pet : AsLoaded(o)

Symmetric == Permutations(Pet)
=============================================================================
