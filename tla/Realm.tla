--------------------------------- MODULE Realm ---------------------------------
(***************************************************************************)
(* Those who fight, talk, marry and play: Combat with the priests and the  *)
(* arena, whose pointers and counts its characters and NPCs leave behind.  *)
(***************************************************************************)
EXTENDS Arena, Wedding

\* The rows are any that the server may have left.
RealmInit == Init /\ vows \in {v \in [Char -> Vows] : Mutual(v)}

RealmNext ==
    \/ (Next \/ Games) /\ UNCHANGED vows
    \/ Ceremonies

RealmSpec == RealmInit /\ [][RealmNext]_<<vars, vows>>

=============================================================================
