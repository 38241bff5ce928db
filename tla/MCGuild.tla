------------------------------- MODULE MCGuild -------------------------------
(* Small instances of Guild for TLC. *)
EXTENDS Guild, TLC

Symmetry == Permutations(Object) \cup Permutations(Tag \ Founding)

\* One guild is drafted at a time, while nobody waits to be recruited, and those that
\* were founded have no gold and recruit nobody.
Small ==
    /\ \A c, d \in Character : guild_create[c].tag # None /\ guild_create[d].tag # None => c = d
    /\ \A c, d \in Character : guild_create[c].tag # None => guild_join[d] = None
    /\ \A t \in Founding : database.bank[t] = 0 /\ Bank(t) = 0
    /\ \A c \in Character : guild_join[c] \notin Founding
=============================================================================
