--------------------------------- MODULE Arena ---------------------------------
(***************************************************************************)
(* The arena of a map, for those who come and go in Combat.                *)
(*                                                                         *)
(* A timer takes the characters that stand on its marks into the ring.     *)
(* Who is hit there is out, and who hits the last but one has won.  Both   *)
(* are decided by a counter, which warps, logouts and a new configuration  *)
(* keep.                                                                   *)
(*                                                                         *)
(* Positions are dropped: anybody on the map may stand on a mark, and next *)
(* to anybody.  Rewards are left out, and with them quests that warp who   *)
(* is given one.                                                           *)
(***************************************************************************)
EXTENDS Combat

CONSTANT Marks   \* how many spawns the arena has

ASSUME ArenaIsSized == Marks \in Nat

\* Arena::Spawn.  How many keep others out of the ring (Arena::block) has no part in it:
\* a command does not ask.
Spawns(C) ==
    /\ arena.enabled
    /\ C # {} /\ Cardinality(C) <= Marks /\ \A c \in C : where[c] = ArenaMap
    /\ \E S \in Arrive([Memory EXCEPT !.arena.next = @ \cup C], C, ArenaMap) : Become(S)

\* Arena::Attack: who was hit is out, and who has hit it too if they were the last two.
Hit(c, d) ==
    /\ {c, d} \subseteq arena.members /\ c # d
    /\ LET out == IF arena.occupants = 2 THEN {c, d} ELSE {d}
       IN \E S \in Arrive(Memory, out, ArenaMap) : Become(S)

\* Map::LoadArena, when the configuration is read again: those in the ring stay there, or
\* are sent out if there is none any more.
LoadArena(enabled) ==
    LET staying == {c \in arena.members : where[c] = ArenaMap}
        fresh == [arena EXCEPT !.enabled = enabled,
                               !.members = IF enabled THEN staying ELSE {},
                               !.occupants = Cardinality(staying)]
        out == IF enabled THEN {} ELSE staying
    IN \E S \in Arrive([Memory EXCEPT !.arena = fresh], out, ArenaMap) : Become(S)

Games ==
    \/ \E C \in SUBSET Char : Spawns(C)
    \/ \E c, d \in Char : Hit(c, d)
    \/ \E enabled \in BOOLEAN : LoadArena(enabled)

-----------------------------------------------------------------------------
(***************************************************************************)
(* Properties.                                                             *)
(***************************************************************************)

\* The arena counts exactly those who have a pointer to it, who are on its map, and nobody
\* is still expected: through warps, deaths, logouts, pets and a new configuration.  With
\* one too many nobody ever wins, and with one too few the game ends too early.
OccupantsCounted ==
    /\ \A c \in arena.members : where[c] = ArenaMap
    /\ arena.next = {}
    /\ arena.enabled => arena.occupants = Cardinality(arena.members)
    /\ ~arena.enabled => arena.members = {}

================================================================================
