----------------------------- MODULE GuildProofs -----------------------------
(***************************************************************************)
(* Whatever is founded, expelled, disbanded and looked up, the caches of   *)
(* GuildManager hold only what is alive, and a Guild lives as long as a    *)
(* character refers to it.                                                 *)
(*                                                                         *)
(* Where members are only expelled and ranked while their characters say   *)
(* what the list says: of each guild of the database there is one object,  *)
(* which lists its members, rows that are committed agree with each other, *)
(* and the bank loses nothing on its way between the object and the row.   *)
(***************************************************************************)
EXTENDS Guild, FunctionTheorems, FiniteSetTheorems, WellFoundedInduction, TLAPS

IsGuild(g) == g = [tag |-> g.tag, members |-> g.members, bank |-> g.bank,
                   needs_save |-> g.needs_save]

IsDatabase(db) ==
    /\ db = [guilds |-> db.guilds, bank |-> db.bank, guild |-> db.guild, rank |-> db.rank]
    /\ db.guilds \subseteq Tag
    /\ db.guild \in [Character -> Tag \union {None}]

\* As much of the type as the proof needs.
IsMemory(m) ==
    /\ m = [guild |-> m.guild, rank |-> m.rank, object |-> m.object, cache |-> m.cache,
            db |-> m.db]
    /\ m.guild \in [Character -> Object \union {None}]
    /\ m.cache \in [Tag -> Object \union {None}]
    /\ m.object = [o \in Object |-> m.object[o]]
    /\ \A o \in Object : IsGuild(m.object[o]) /\ m.object[o].tag \in Tag \union {None}
    /\ IsDatabase(m.db)

Alive(m) == \A t \in Tag : m.cache[t] # None => m.object[m.cache[t]].tag = t
Used(m) == \A c \in Character : m.guild[c] # None => m.object[m.guild[c]].tag # None

\* What handlers keep before objects are released.
Sound(m) == IsMemory(m) /\ Alive(m) /\ Used(m)

Referred(m) == \A o \in Object : m.object[o].tag # None => \E c \in Character : m.guild[c] = o

Drafts ==
    /\ place \in [Character -> {"Away", "Menu", "World"}]
    /\ guild_invite \in [Character -> Tag \union {None}]
    /\ guild_create = [c \in Character |-> guild_create[c]]
    /\ \A c \in Character :
          /\ guild_create[c] = [tag |-> guild_create[c].tag, members |-> guild_create[c].members]
          /\ guild_create[c].tag \in Tag \union {None}
    /\ create_cache \in [Tag -> Character \union {None}]
    /\ \A t \in Tag : create_cache[t] # None =>
          InWorld(create_cache[t]) /\ guild_create[create_cache[t]].tag = t

\* A character who is not loaded refers to nothing.
Apart == \A c \in Character : place[c] = "Away" => guild[c] = None

IInv == Sound(Memory) /\ Referred(Memory) /\ Drafts /\ Apart

-----------------------------------------------------------------------------
\* Deleting guilds keeps the shape of the database.
LEMMA DeletedIsDatabase ==
    ASSUME NEW db, NEW T, IsDatabase(db)
    PROVE  IsDatabase(Deleted(db, T))
<1> DEFINE n == Deleted(db, T)
<1>1. n.guilds = db.guilds \ T
    BY DEF Deleted
<1>2. n.guild = [c \in Character |-> IF db.guild[c] \in T THEN None ELSE db.guild[c]]
    BY DEF Deleted
<1>3. n = [guilds |-> n.guilds, bank |-> n.bank, guild |-> n.guild, rank |-> n.rank]
    BY DEF Deleted
<1> HIDE DEF n
<1> QED BY <1>1, <1>2, <1>3 DEF IsDatabase, n

\* Releasing objects keeps the caches alive and leaves only what is referred to.
LEMMA ReleaseSound ==
    ASSUME NEW m, Sound(m)
    PROVE  Sound(Release(m)) /\ Referred(Release(m)) /\ Release(m).guild = m.guild
<1> USE GuildAssumption
<1> DEFINE dead == Dying(m)
           n == Release(m)
<1>1. /\ n.guild = m.guild /\ n.rank = m.rank
      /\ n.object = [o \in Object |-> IF o \in dead THEN Unloaded ELSE m.object[o]]
      /\ n.cache = [t \in Tag |-> IF \E o \in dead : m.object[o].tag = t THEN None ELSE m.cache[t]]
      /\ n = [guild |-> n.guild, rank |-> n.rank, object |-> n.object, cache |-> n.cache,
              db |-> n.db]
    <2> DEFINE obj == [o \in Object |-> IF o \in dead THEN Unloaded ELSE m.object[o]]
               found == [t \in Tag |-> IF t \in Tags(m, Dying(m)) THEN None ELSE m.cache[t]]
               rows == Deleted(DyingSaved(m), Tags(m, Deserted(m)))
    <2>1. n = [m EXCEPT !.object = obj, !.cache = found, !.db = rows]
        BY DEF Release
    <2>2. found = [t \in Tag |-> IF \E o \in dead : m.object[o].tag = t THEN None ELSE m.cache[t]]
        BY DEF Tags
    <2> HIDE DEF n, obj, found, rows
    <2>3. n = [guild |-> m.guild, rank |-> m.rank, object |-> obj, cache |-> found, db |-> rows]
        BY <2>1 DEF Sound, IsMemory
    <2> QED BY <2>2, <2>3 DEF obj
<1>2. IsDatabase(n.db)
    <2>1. n.db = Deleted(DyingSaved(m), Tags(m, Deserted(m)))
        BY DEF Sound, IsMemory, Release
    <2>2. IsDatabase(DyingSaved(m))
        <3> DEFINE db == m.db
                   last(t) == {o \in Dying(m) \ Deserted(m) : m.object[o].tag = t
                                                              /\ m.object[o].needs_save}
                   bank == [t \in Tag |-> IF t \in db.guilds /\ last(t) # {}
                                          THEN m.object[CHOOSE o \in last(t) : TRUE].bank
                                          ELSE db.bank[t]]
        <3>1. DyingSaved(m) = [db EXCEPT !.bank = bank]
            BY DEF DyingSaved
        <3>2. IsDatabase(db)
            BY DEF Sound, IsMemory
        <3> HIDE DEF bank, db
        <3> QED BY <3>1, <3>2 DEF IsDatabase
    <2> QED BY <2>1, <2>2, DeletedIsDatabase
<1> HIDE DEF n
<1>3. IsMemory(n)
    <2>1. n.guild \in [Character -> Object \union {None}]
        BY <1>1 DEF Sound, IsMemory
    <2>2. n.cache \in [Tag -> Object \union {None}]
        BY <1>1 DEF Sound, IsMemory
    <2>3. n.object = [o \in Object |-> n.object[o]]
        BY <1>1
    <2>4. \A o \in Object : IsGuild(n.object[o]) /\ n.object[o].tag \in Tag \union {None}
        <3>1. IsGuild(Unloaded) /\ Unloaded.tag = None
            BY DEF IsGuild, Unloaded
        <3> QED BY <3>1, <1>1 DEF Sound, IsMemory
    <2> QED BY <1>1, <1>2, <2>1, <2>2, <2>3, <2>4 DEF IsMemory
<1>4. Alive(n)
    <2> SUFFICES ASSUME NEW t \in Tag, n.cache[t] # None PROVE n.object[n.cache[t]].tag = t
        BY Zenon DEF Alive
    <2>1. n.cache[t] = m.cache[t] /\ \A o \in dead : m.object[o].tag # t
        BY <1>1
    <2>2. m.cache[t] \in Object /\ m.object[m.cache[t]].tag = t
        BY <2>1 DEF Sound, IsMemory, Alive
    <2>3. m.cache[t] \notin dead
        BY <2>1, <2>2
    <2> HIDE DEF dead
    <2> QED BY <1>1, <2>1, <2>2, <2>3
<1>5. Used(n)
    <2> SUFFICES ASSUME NEW c \in Character, n.guild[c] # None
                 PROVE  n.object[n.guild[c]].tag # None
        BY Zenon DEF Used
    <2>1. m.guild[c] \in Object /\ m.object[m.guild[c]].tag # None
        BY <1>1 DEF Sound, IsMemory, Used
    <2>2. m.guild[c] \notin dead
        BY DEF Dying
    <2> HIDE DEF dead
    <2> QED BY <1>1, <2>1, <2>2
<1>6. Referred(n)
    BY <1>1 DEF Sound, IsMemory, Referred, Unloaded, Dying
<1> QED BY <1>1, <1>3, <1>4, <1>5, <1>6 DEF n, Sound

\* Looking at a guild that is not loaded changes the database at most.
LEMMA GlanceSound ==
    ASSUME NEW m, NEW t \in Tag, Sound(m)
    PROVE  /\ Sound(Glance(m, t)) /\ (Referred(m) => Referred(Glance(m, t)))
           /\ Glance(m, t).guild = m.guild
<1> DEFINE n == Glance(m, t)
<1>1. /\ n.guild = m.guild /\ n.object = m.object /\ n.cache = m.cache
      /\ n = [guild |-> n.guild, rank |-> n.rank, object |-> n.object, cache |-> n.cache,
              db |-> n.db]
    BY DEF Sound, IsMemory, Glance
<1>2. IsDatabase(n.db)
    BY DEF Sound, IsMemory, Glance, Deleted, IsDatabase
<1> HIDE DEF n
<1> QED BY <1>1, <1>2 DEF n, Sound, IsMemory, Alive, Used, Referred

\* Loading a guild whose tag the cache does not have.
LEMMA LoadSound ==
    ASSUME NEW m, NEW t \in Tag, NEW o \in Object, Sound(m), m.object[o].tag = None
    PROVE  /\ Sound(Load(m, t, o)) /\ Load(m, t, o).object[o].tag = t
           /\ Load(m, t, o).guild = m.guild
           /\ \A p \in Object \ {o} : Load(m, t, o).object[p] = m.object[p]
<1> USE GuildAssumption
<1> DEFINE g == [tag |-> t, members |-> Listed(m.db, t), bank |-> m.db.bank[t],
                 needs_save |-> FALSE]
           n == Load(m, t, o)
<1>1. IsGuild(g) /\ g.tag = t
    BY DEF IsGuild
<1>2. /\ n.guild = m.guild /\ n.rank = m.rank /\ n.db = m.db
      /\ n.object = [m.object EXCEPT ![o] = g] /\ n.cache = [m.cache EXCEPT ![t] = o]
      /\ n = [guild |-> n.guild, rank |-> n.rank, object |-> n.object, cache |-> n.cache,
              db |-> n.db]
    <2> HIDE DEF g
    <2>1. n = [m EXCEPT !.object[o] = g, !.cache[t] = o]
        BY DEF Load, g
    <2> HIDE DEF n
    <2>2. n = [guild |-> m.guild, rank |-> m.rank, object |-> [m.object EXCEPT ![o] = g],
               cache |-> [m.cache EXCEPT ![t] = o], db |-> m.db]
        BY <2>1 DEF Sound, IsMemory
    <2> QED BY <2>2
<1> HIDE DEF g, n
<1>3. n.object[o] = g /\ \A p \in Object \ {o} : n.object[p] = m.object[p]
    BY <1>2 DEF Sound, IsMemory
<1>4. IsMemory(n)
    BY <1>1, <1>2, <1>3 DEF Sound, IsMemory
<1>5. Alive(n)
    BY <1>1, <1>2, <1>3 DEF Sound, IsMemory, Alive
<1>6. Used(n)
    BY <1>1, <1>2, <1>3 DEF Sound, IsMemory, Used
<1> QED BY <1>1, <1>2, <1>3, <1>4, <1>5, <1>6 DEF n, Sound

\* A change to an object that keeps its tag.
LEMMA ObjectSound ==
    ASSUME NEW m, NEW o \in Object, NEW g, IsGuild(g), g.tag = m.object[o].tag, Sound(m)
    PROVE  LET n == [m EXCEPT !.object[o] = g]
           IN  /\ Sound(n) /\ n.guild = m.guild
               /\ \A p \in Object : n.object[p].tag = m.object[p].tag
<1> DEFINE n == [m EXCEPT !.object[o] = g]
<1>1. n = [m EXCEPT !.object = [m.object EXCEPT ![o] = g]]
    OBVIOUS
<1> HIDE DEF n
<1>3. n = [guild |-> m.guild, rank |-> m.rank, object |-> [m.object EXCEPT ![o] = g],
           cache |-> m.cache, db |-> m.db]
    BY <1>1 DEF Sound, IsMemory
<1>4. n.object[o] = g /\ \A p \in Object \ {o} : n.object[p] = m.object[p]
    BY <1>3 DEF Sound, IsMemory
<1>5. \A p \in Object : n.object[p].tag = m.object[p].tag
    BY <1>4
<1>6. IsMemory(n)
    BY <1>3, <1>4 DEF Sound, IsMemory
<1>7. Alive(n) /\ Used(n)
    BY <1>3, <1>5 DEF Sound, IsMemory, Alive, Used
<1>8. Sound(n) /\ n.guild = m.guild
    BY <1>3, <1>6, <1>7 DEF Sound
<1> QED BY <1>5, <1>8 DEF n

\* A guild whose fields, but not its tag, change.
LEMMA ListKeepsGuild ==
    ASSUME NEW h, IsGuild(h), NEW members
    PROVE  LET g == [h EXCEPT !.members = members]
           IN  IsGuild(g) /\ g.tag = h.tag /\ g.members = members
               /\ g.bank = h.bank /\ g.needs_save = h.needs_save
<1> DEFINE g == [h EXCEPT !.members = members]
<1>1. g = [tag |-> h.tag, members |-> members, bank |-> h.bank, needs_save |-> h.needs_save]
    BY SMTT(30) DEF IsGuild
<1> HIDE DEF g
<1>2. IsGuild(g) /\ g.tag = h.tag /\ g.members = members
      /\ g.bank = h.bank /\ g.needs_save = h.needs_save
    BY SMTT(30), <1>1 DEF IsGuild
<1> QED BY ZenonT(30), <1>2 DEF g

LEMMA MarkKeepsGuild ==
    ASSUME NEW h, IsGuild(h), NEW needs_save
    PROVE  LET g == [h EXCEPT !.needs_save = needs_save]
           IN  IsGuild(g) /\ g.tag = h.tag /\ g.members = h.members
               /\ g.bank = h.bank /\ g.needs_save = needs_save
<1> DEFINE g == [h EXCEPT !.needs_save = needs_save]
<1>1. g = [tag |-> h.tag, members |-> h.members, bank |-> h.bank, needs_save |-> needs_save]
    BY SMTT(30) DEF IsGuild
<1> HIDE DEF g
<1>2. IsGuild(g) /\ g.tag = h.tag /\ g.members = h.members
      /\ g.bank = h.bank /\ g.needs_save = needs_save
    BY SMTT(30), <1>1 DEF IsGuild
<1> QED BY ZenonT(30), <1>2 DEF g

\* The fields of a guild whose bank changes.
LEMMA PaidFields ==
    ASSUME NEW h, IsGuild(h), NEW bank
    PROVE  LET g == [h EXCEPT !.bank = bank, !.needs_save = TRUE]
           IN  IsGuild(g) /\ g.tag = h.tag /\ g.members = h.members /\ g.needs_save = TRUE
<1> DEFINE g == [h EXCEPT !.bank = bank, !.needs_save = TRUE]
           mid == [h EXCEPT !.bank = bank]
<1>1. mid = [tag |-> h.tag, members |-> h.members, bank |-> bank, needs_save |-> h.needs_save]
    BY SMTT(30) DEF IsGuild
<1>2. g = [mid EXCEPT !.needs_save = TRUE]
    OBVIOUS
<1> HIDE DEF mid, g
<1>3. IsGuild(mid) /\ mid.tag = h.tag /\ mid.members = h.members
    BY SMTT(30), <1>1 DEF IsGuild
<1>4. IsGuild(g) /\ g.tag = h.tag /\ g.members = h.members /\ g.needs_save = TRUE
    BY <1>2, <1>3, MarkKeepsGuild
<1> QED BY <1>4 DEF g

\* A change to the list of members of a guild.
LEMMA ListSound ==
    ASSUME NEW m, NEW o \in Object, NEW members, Sound(m)
    PROVE  LET n == [m EXCEPT !.object[o].members = members]
           IN  /\ Sound(n) /\ n.guild = m.guild
               /\ \A p \in Object : n.object[p].tag = m.object[p].tag
<1> DEFINE h == m.object[o]
           g == [h EXCEPT !.members = members]
<1>1. IsGuild(h)
    BY DEF Sound, IsMemory
<1> HIDE DEF h
<1>2. IsGuild(g) /\ g.tag = h.tag
    BY <1>1, ListKeepsGuild
<1>3. [m EXCEPT !.object[o].members = members] = [m EXCEPT !.object[o] = g]
    BY DEF h
<1> HIDE DEF g
<1> QED BY <1>2, <1>3, ObjectSound DEF h

\* Characters who lose their guild.
LEMMA DelMembersSound ==
    ASSUME NEW m, NEW S, Sound(m)
    PROVE  /\ Sound(DelMembers(m, S))
           /\ \A c \in Character : DelMembers(m, S).guild[c] \in {None, m.guild[c]}
<1> DEFINE pointers == [c \in Character |-> IF c \in S /\ InWorld(c) THEN None ELSE m.guild[c]]
           ranks == [c \in Character |-> IF c \in S /\ InWorld(c) THEN 0 ELSE m.rank[c]]
           rows == [c \in Character |-> IF c \in S /\ ~InWorld(c) THEN None ELSE m.db.guild[c]]
           given == [c \in Character |-> IF c \in S /\ ~InWorld(c) THEN 0 ELSE m.db.rank[c]]
           db == [m.db EXCEPT !.guild = rows, !.rank = given]
           n == DelMembers(m, S)
<1>1. n = [m EXCEPT !.guild = pointers, !.rank = ranks, !.db = db]
    BY DEF DelMembers, Sound, IsMemory, IsDatabase
<1>2. rows \in [Character -> Tag \union {None}]
    BY DEF Sound, IsMemory, IsDatabase
<1>3. pointers \in [Character -> Object \union {None}] /\ \A c \in Character : pointers[c] \in {None, m.guild[c]}
    BY DEF Sound, IsMemory
<1> HIDE DEF pointers, ranks, rows, given, n
<1>4. IsDatabase(db)
    <2> DEFINE old == m.db
    <2>1. IsDatabase(old)
        BY DEF Sound, IsMemory
    <2> HIDE DEF old
    <2>2. [old EXCEPT !.guild = rows, !.rank = given] =
              [guilds |-> old.guilds, bank |-> old.bank, guild |-> rows, rank |-> given]
        <3>1. old = [guilds |-> old.guilds, bank |-> old.bank, guild |-> old.guild,
                     rank |-> old.rank]
            BY <2>1 DEF IsDatabase
        <3> DEFINE mid == [old EXCEPT !.guild = rows]
        <3>2. mid = [guilds |-> old.guilds, bank |-> old.bank, guild |-> rows, rank |-> old.rank]
            BY <3>1
        <3>3. [old EXCEPT !.guild = rows, !.rank = given] = [mid EXCEPT !.rank = given]
            OBVIOUS
        <3> HIDE DEF mid
        <3> QED BY <3>2, <3>3
    <2> QED BY <1>2, <2>1, <2>2 DEF IsDatabase, old
<1> HIDE DEF db
<1>5. n = [guild |-> pointers, rank |-> ranks, object |-> m.object, cache |-> m.cache, db |-> db]
    BY <1>1 DEF Sound, IsMemory
<1>6. IsMemory(n) /\ Alive(n)
    BY <1>3, <1>4, <1>5 DEF Sound, IsMemory, Alive
<1>7. Used(n)
    BY <1>3, <1>5 DEF Sound, Used
<1> QED BY <1>3, <1>5, <1>6, <1>7 DEF n, Sound

\* Characters who join a loaded guild.
LEMMA AddMembersSound ==
    ASSUME NEW m, NEW o \in Object, NEW names, NEW given, Sound(m), m.object[o].tag # None
    PROVE  /\ Sound(AddMembers(m, o, names, given))
           /\ AddMembers(m, o, names, given).guild =
                 [c \in Character |-> IF c \in ToSet(names) /\ InWorld(c) THEN o ELSE m.guild[c]]
           /\ \A p \in Object : AddMembers(m, o, names, given).object[p].tag = m.object[p].tag
<1> DEFINE pointers == [c \in Character |-> IF c \in ToSet(names) /\ InWorld(c) THEN o ELSE m.guild[c]]
           ranks == [c \in Character |-> IF c \in ToSet(names) /\ InWorld(c) THEN given[c] ELSE m.rank[c]]
           here == SelectSeq(names, InWorld)
           list == m.object[o].members
                   \o [i \in DOMAIN here |-> [name |-> here[i], rank |-> given[here[i]]]]
           l == [m EXCEPT !.object[o].members = list]
           n == AddMembers(m, o, names, given)
<1>1. n = [l EXCEPT !.guild = pointers, !.rank = ranks]
    BY DEF AddMembers, Sound, IsMemory
<1>2. pointers \in [Character -> Object \union {None}] /\ \A c \in Character : pointers[c] \in {o, m.guild[c]}
    BY DEF Sound, IsMemory
<1> HIDE DEF pointers, ranks, list, here, n
<1>3. Sound(l) /\ l.guild = m.guild /\ \A p \in Object : l.object[p].tag = m.object[p].tag
    BY ListSound
<1> HIDE DEF l
<1>4. n = [guild |-> pointers, rank |-> ranks, object |-> l.object, cache |-> l.cache, db |-> l.db]
    BY <1>1, <1>3 DEF Sound, IsMemory
<1>5. IsMemory(n) /\ Alive(n)
    BY <1>2, <1>3, <1>4 DEF Sound, IsMemory, Alive
<1>6. Used(n)
    BY <1>2, <1>3, <1>4 DEF Sound, IsMemory, Used
<1> QED BY <1>3, <1>4, <1>5, <1>6 DEF n, Sound, pointers

\* A character who joins a loaded guild.
LEMMA AddMemberSound ==
    ASSUME NEW m, NEW o \in Object, NEW c \in Character, NEW r, Sound(m), m.object[o].tag # None
    PROVE  LET n == AddMember(m, o, c, r)
           IN  /\ Sound(n) /\ n.guild = [m.guild EXCEPT ![c] = o]
               /\ \A p \in Object : n.object[p].tag = m.object[p].tag
<1> DEFINE pointers == [m.guild EXCEPT ![c] = o]
           ranks == [m.rank EXCEPT ![c] = r]
           list == Append(m.object[o].members, [name |-> c, rank |-> r])
           l == [m EXCEPT !.object[o].members = list]
           n == AddMember(m, o, c, r)
<1>1. n = [l EXCEPT !.guild = pointers, !.rank = ranks]
    BY DEF AddMember, Sound, IsMemory
<1>2. pointers \in [Character -> Object \union {None}] /\ \A d \in Character : pointers[d] \in {o, m.guild[d]}
    BY DEF Sound, IsMemory
<1> HIDE DEF pointers, ranks, list, n
<1>3. Sound(l) /\ l.guild = m.guild /\ \A p \in Object : l.object[p].tag = m.object[p].tag
    BY ListSound
<1> HIDE DEF l
<1>4. n = [guild |-> pointers, rank |-> ranks, object |-> l.object, cache |-> l.cache, db |-> l.db]
    BY <1>1, <1>3 DEF Sound, IsMemory
<1>5. IsMemory(n) /\ Alive(n)
    BY <1>2, <1>3, <1>4 DEF Sound, IsMemory, Alive
<1>6. Used(n)
    BY <1>2, <1>3, <1>4 DEF Sound, IsMemory, Used
<1> QED BY <1>3, <1>4, <1>5, <1>6 DEF n, Sound, pointers

\* A guild that is disbanded.
LEMMA DisbandSound ==
    ASSUME NEW m, NEW o \in Object, NEW n \in Disband(m, o), Sound(m)
    PROVE  Sound(n) /\ \A c \in Character : n.guild[c] \in {None, m.guild[c]}
<1>1. PICK S, list : n = [DelMembers(m, S) EXCEPT !.object[o].members = list]
    BY DEF Disband
<1>2. /\ Sound(DelMembers(m, S))
      /\ \A c \in Character : DelMembers(m, S).guild[c] \in {None, m.guild[c]}
    BY DelMembersSound
<1> QED BY <1>1, <1>2, ListSound

\* A member who is removed.
LEMMA DelMemberSound ==
    ASSUME NEW m, NEW o \in Object, NEW c, Sound(m)
    PROVE  /\ Sound(DelMember(m, o, c))
           /\ \A d \in Character : DelMember(m, o, c).guild[d] \in {None, m.guild[d]}
<1> DEFINE list == RemoveFirstMatch(m.object[o].members, LAMBDA e : e.name = c)
<1>1. Unlisted(m, o, c) = [m EXCEPT !.object[o].members = list]
    BY DEF Unlisted
<1> HIDE DEF list
<1>2. Sound(Unlisted(m, o, c)) /\ Unlisted(m, o, c).guild = m.guild
    BY <1>1, ListSound
<1> QED BY <1>2, DelMembersSound DEF DelMember

\* What is written of characters keeps the shape of the database.
LEMMA WrittenIsDatabase ==
    ASSUME NEW db, NEW S, IsDatabase(db), Sound(Memory)
    PROVE  IsDatabase(Written(db, S))
<1> DEFINE tags == [c \in Character |-> IF c \notin S THEN db.guild[c]
                       ELSE IF guild[c] = None THEN None ELSE object[guild[c]].tag]
           ranks == [c \in Character |-> IF c \in S THEN guild_rank[c] ELSE db.rank[c]]
           mid == [db EXCEPT !.guild = tags]
<1>1. tags \in [Character -> Tag \union {None}]
    BY DEF IsDatabase, Sound, IsMemory, Memory
<1>2. Written(db, S) = [mid EXCEPT !.rank = ranks]
    BY DEF Written
<1> HIDE DEF tags, ranks
<1>3. mid = [guilds |-> db.guilds, bank |-> db.bank, guild |-> tags, rank |-> db.rank]
    BY DEF IsDatabase
<1> HIDE DEF mid
<1>4. Written(db, S) = [guilds |-> db.guilds, bank |-> db.bank, guild |-> tags, rank |-> ranks]
    BY <1>2, <1>3
<1> QED BY <1>1, <1>4 DEF IsDatabase

\* A handler that only changes what guilds and characters say of each other.
LEMMA MemoryStep ==
    ASSUME IInv, NEW n, Sound(n), Referred(n), Becomes(n),
           \A c \in Character : n.guild[c] \in {None, guild[c]} \/ InWorld(c),
           guild_invite' \in [Character -> Tag \union {None}],
           UNCHANGED <<place, guild_create, create_cache>>
    PROVE  IInv'
<1>1. Memory' = n
    BY DEF Memory, Becomes, Sound, IsMemory
<1>2. Sound(Memory)' /\ Referred(Memory)'
    BY <1>1
<1>3. Drafts'
    BY DEF IInv, Drafts, InWorld
<1>4. Apart'
    BY DEF IInv, Apart, Becomes, InWorld
<1> QED BY <1>2, <1>3, <1>4 DEF IInv

\* A handler that changes the fields of objects, and rows, but neither tags nor pointers.
LEMMA FieldsStep ==
    ASSUME IInv, UNCHANGED <<guild, cache, place, guild_create, create_cache, guild_invite>>,
           object' = [o \in Object |-> object'[o]],
           \A o \in Object : IsGuild(object'[o]) /\ object'[o].tag = object[o].tag,
           IsDatabase(database')
    PROVE  IInv'
<1> DEFINE n == [guild |-> guild, rank |-> guild_rank', object |-> object', cache |-> cache,
                 db |-> database']
<1>1. n.guild = guild /\ n.object = object' /\ n.cache = cache /\ n.db = database' /\ Becomes(n)
    BY DEF Becomes
<1>2. IsMemory(n)
    BY DEF IInv, Sound, IsMemory, Memory
<1> HIDE DEF n
<1>3. Alive(n) /\ Used(n) /\ Referred(n)
    BY <1>1 DEF IInv, Sound, IsMemory, Alive, Used, Referred, Memory
<1>4. Sound(n)
    BY <1>2, <1>3 DEF Sound
<1>5. guild_invite' \in [Character -> Tag \union {None}]
    BY DEF IInv, Drafts
<1> QED BY <1>1, <1>3, <1>4, <1>5, MemoryStep

\* Nobody else's draft is forgotten with one's own.
LEMMA AbandonStep ==
    ASSUME IInv, NEW c \in Character, NEW n, Sound(n), Referred(n), Abandon(c, n),
           place' \in [Character -> {"Away", "Menu", "World"}],
           \A d \in Character \ {c} : place'[d] = place[d],
           \A d \in Character : place'[d] = "Away" => n.guild[d] = None,
           guild_invite' \in [Character -> Tag \union {None}]
    PROVE  IInv'
<1> USE GuildAssumption
<1> DEFINE g == guild_create[c]
<1>1. Sound(Memory)' /\ Referred(Memory)' /\ guild' = n.guild
    <2>1. CASE g.tag = None
        <3>1. Memory' = n
            BY <2>1 DEF Memory, Abandon, Becomes, Sound, IsMemory
        <3> QED BY <3>1 DEF Memory
    <2>2. CASE g.tag # None
        <3> DEFINE found == [n.cache EXCEPT ![g.tag] = None]
                   k == [n EXCEPT !.cache = found]
        <3>1. Becomes(k)
            BY <2>2 DEF Abandon
        <3>2. found \in [Tag -> Object \union {None}] /\ \A t \in Tag : found[t] \in {None, n.cache[t]}
            BY DEF Sound, IsMemory
        <3> HIDE DEF found
        <3>3. k = [guild |-> n.guild, rank |-> n.rank, object |-> n.object, cache |-> found,
                   db |-> n.db]
            BY DEF Sound, IsMemory
        <3> HIDE DEF k
        <3>4. Sound(k) /\ Referred(k)
            BY <3>2, <3>3 DEF Sound, IsMemory, Alive, Used, Referred
        <3>5. Memory' = k
            BY <3>1, <3>3 DEF Memory, Becomes
        <3> QED BY <3>3, <3>4, <3>5 DEF Memory
    <2> QED BY <2>1, <2>2
<1>2. /\ guild_create' = [guild_create EXCEPT ![c] = NoDraft]
      /\ create_cache' \in [Tag -> Character \union {None}]
      /\ \A t \in Tag : create_cache'[t] # None => create_cache'[t] = create_cache[t] /\ create_cache[t] # c
    <2>1. \A t \in Tag : create_cache[t] # None =>
              create_cache[t] \in Character /\ guild_create[create_cache[t]].tag = t
        <3> SUFFICES ASSUME NEW t \in Tag, create_cache[t] # None
                     PROVE  create_cache[t] \in Character /\ guild_create[create_cache[t]].tag = t
            OBVIOUS
        <3>1. create_cache \in [Tag -> Character \union {None}]
            BY DEF IInv, Drafts
        <3>2. guild_create[create_cache[t]].tag = t
            BY Zenon DEF IInv, Drafts
        <3> QED BY <3>1, <3>2
    <2>2. create_cache' = [t \in Tag |-> IF t = g.tag THEN None ELSE create_cache[t]]
        BY DEF Abandon, IInv, Drafts
    <2>3. create_cache' \in [Tag -> Character \union {None}]
        BY <2>1, <2>2
    <2>4. guild_create' = [guild_create EXCEPT ![c] = NoDraft]
        BY DEF Abandon
    <2> QED BY <2>1, <2>2, <2>3, <2>4
<1>3. Drafts'
    <2>1. \A d \in Character : /\ d # c => guild_create'[d] = guild_create[d]
                               /\ d = c => guild_create'[d] = NoDraft
        BY <1>2 DEF IInv, Drafts
    <2>2. guild_create' = [d \in Character |-> guild_create'[d]]
        BY <1>2 DEF IInv, Drafts
    <2>3. \A d \in Character :
              /\ guild_create'[d] = [tag |-> guild_create'[d].tag, members |-> guild_create'[d].members]
              /\ guild_create'[d].tag \in Tag \union {None}
        BY <2>1 DEF IInv, Drafts, NoDraft
    <2>4. \A t \in Tag : create_cache'[t] # None =>
              place'[create_cache'[t]] = "World" /\ guild_create'[create_cache'[t]].tag = t
        <3> SUFFICES ASSUME NEW t \in Tag, create_cache'[t] # None
                     PROVE  place'[create_cache'[t]] = "World" /\ guild_create'[create_cache'[t]].tag = t
            OBVIOUS
        <3> DEFINE d == create_cache[t]
        <3>1. create_cache'[t] = d /\ d # c /\ d \in Character
            BY <1>2 DEF IInv, Drafts
        <3>2. place[d] = "World" /\ guild_create[d].tag = t
            BY <3>1 DEF IInv, Drafts, InWorld
        <3> QED BY <2>1, <3>1, <3>2
    <2> QED BY <1>2, <2>2, <2>3, <2>4 DEF Drafts, InWorld
<1>4. Apart'
    BY <1>1 DEF Apart
<1> QED BY <1>1, <1>3, <1>4 DEF IInv

\* The two ways a character is loaded.
LEMMA ArriveStep ==
    ASSUME IInv, NEW c \in Character, Arrive(c)
    PROVE  IInv'
<1> USE GuildAssumption
<1> DEFINE t == database.guild[c]
           found == IF t = None THEN None ELSE cache[t]
           m == Memory
<1>1. /\ Sound(m) /\ Referred(m) /\ Drafts /\ Apart
      /\ m.guild = guild /\ m.object = object /\ m.cache = cache /\ m.db = database
      /\ t \in Tag \union {None} /\ guild[c] = None /\ guild \in [Character -> Object \union {None}]
    BY DEF IInv, Memory, Sound, IsMemory, IsDatabase, Apart, Arrive
<1>2. /\ place' = [place EXCEPT ![c] = "Menu"] /\ place[c] = "Away"
      /\ guild_rank' = [guild_rank EXCEPT ![c] = IF t = None THEN 0 ELSE database.rank[c]]
      /\ UNCHANGED <<guild_join, guild_invite, guild_create, create_cache, database>>
    BY DEF Arrive
<1>3. Drafts'
    <2>1. place' \in [Character -> {"Away", "Menu", "World"}]
        BY <1>1, <1>2 DEF Drafts
    <2>2. \A d \in Character : place[d] = "World" => place'[d] = "World"
        BY <1>1, <1>2 DEF Drafts
    <2>3. \A u \in Tag : create_cache[u] # None =>
              create_cache[u] \in Character /\ place[create_cache[u]] = "World"
        <3> HIDE DEF m, found, t
        <3>1. create_cache \in [Tag -> Character \union {None}]
            BY <1>1 DEF Drafts
        <3>2. \A u \in Tag : create_cache[u] # None => InWorld(create_cache[u])
            BY <1>1 DEF Drafts
        <3> QED BY <3>1, <3>2 DEF InWorld
    <2> HIDE DEF m, found, t
    <2> QED BY <1>1, <1>2, <2>1, <2>2, <2>3 DEF Drafts, InWorld
<1> HIDE DEF m
<1>4. ASSUME found = None, t \in database.guilds, NEW o \in Object, ~Loaded(o),
             object' = Load(Memory, t, o).object, cache' = Load(Memory, t, o).cache,
             guild' = [guild EXCEPT ![c] = o]
      PROVE  Sound(Memory)' /\ Referred(Memory)' /\ Apart'
    <2> DEFINE n == Load(m, t, o)
    <2>1. t \in Tag /\ m.object[o].tag = None
        BY <1>1, <1>4 DEF Sound, IsMemory, IsDatabase, Loaded
    <2>2. /\ Sound(n) /\ n.object[o].tag = t /\ n.guild = guild
          /\ \A p \in Object \ {o} : n.object[p] = m.object[p]
        BY <1>1, <2>1, LoadSound
    <2>3. n.db = database
        BY <1>1 DEF Load, m, Memory
    <2>4. object' = n.object /\ cache' = n.cache
        BY <1>4 DEF m
    <2> HIDE DEF n
    <2> DEFINE k == [guild |-> guild', rank |-> guild_rank', object |-> n.object,
                     cache |-> n.cache, db |-> n.db]
    <2>5. Memory' = k
        BY <1>2, <2>3, <2>4 DEF Memory
    <2>6. guild' \in [Character -> Object \union {None}] /\ guild'[c] = o
          /\ \A d \in Character \ {c} : guild'[d] = guild[d]
        BY <1>1, <1>4
    <2>7. Sound(k)
        <3>1. Sound(n) /\ n.object[o].tag # None
            BY <2>1, <2>2
        <3>2. /\ k.guild = guild' /\ k.object = n.object /\ k.cache = n.cache /\ k.db = n.db
              /\ k = [guild |-> k.guild, rank |-> k.rank, object |-> k.object,
                      cache |-> k.cache, db |-> k.db]
            OBVIOUS
        <3> HIDE DEF k
        <3>3. IsMemory(k)
            BY <2>6, <3>1, <3>2 DEF Sound, IsMemory
        <3>4. Alive(k)
            BY <3>1, <3>2 DEF Sound, Alive
        <3>5. Used(k)
            BY <2>2, <2>6, <3>1, <3>2 DEF Sound, Used
        <3> QED BY Zenon, <3>3, <3>4, <3>5 DEF Sound
    <2>8. Referred(k)
        BY <1>1, <2>2, <2>6 DEF Referred
    <2>9. Apart'
        BY <1>1, <1>2, <2>6 DEF Apart, Drafts
    <2> HIDE DEF k
    <2> QED BY <2>5, <2>7, <2>8, <2>9
<1>5. ASSUME found # None \/ t \notin database.guilds,
             guild' = [guild EXCEPT ![c] = found], UNCHANGED <<object, cache>>
      PROVE  Sound(Memory)' /\ Referred(Memory)' /\ Apart'
    <2> DEFINE k == [guild |-> guild', rank |-> guild_rank', object |-> object,
                     cache |-> cache, db |-> database]
    <2>1. Memory' = k
        BY <1>2, <1>5 DEF Memory
    <2>2. found \in Object \union {None} /\ (found # None => object[found].tag = t /\ t \in Tag)
        BY <1>1 DEF Sound, IsMemory, Alive
    <2>3. guild' \in [Character -> Object \union {None}] /\ guild'[c] = found
          /\ \A d \in Character \ {c} : guild'[d] = guild[d]
        BY <1>1, <1>5, <2>2
    <2> HIDE DEF found
    <2>4. Sound(k)
        <3>1. /\ k.guild = guild' /\ k.object = m.object /\ k.cache = m.cache /\ k.db = m.db
              /\ k = [guild |-> k.guild, rank |-> k.rank, object |-> k.object,
                      cache |-> k.cache, db |-> k.db]
            BY <1>1
        <3> HIDE DEF k
        <3>2. IsMemory(k)
            BY <1>1, <2>2, <2>3, <3>1 DEF Sound, IsMemory
        <3>3. Alive(k)
            BY <1>1, <3>1 DEF Sound, Alive
        <3>4. Used(k)
            BY <1>1, <2>2, <2>3, <3>1 DEF Sound, Used
        <3> QED BY Zenon, <3>2, <3>3, <3>4 DEF Sound
    <2>5. Referred(k)
        BY <1>1, <2>3 DEF Referred
    <2>6. Apart'
        BY <1>1, <1>2, <2>3 DEF Apart, Drafts
    <2> HIDE DEF k
    <2> QED BY <2>1, <2>4, <2>5, <2>6
<1> QED BY <1>3, <1>4, <1>5 DEF Arrive, IInv

\* A logout, with what the character refers to.
LEMMA LogoutStep ==
    ASSUME IInv, NEW c \in Character, Logout(c)
    PROVE  IInv'
<1> USE GuildAssumption
<1> DEFINE db == IF InWorld(c) THEN Written(database, {c}) ELSE database
           pointers == [guild EXCEPT ![c] = None]
           ranks == [guild_rank EXCEPT ![c] = 0]
           m == [Memory EXCEPT !.db = db, !.guild[c] = None, !.rank[c] = 0]
           n == Release(m)
<1>1. IsDatabase(db) /\ IsMemory(Memory)
    BY WrittenIsDatabase DEF IInv, Sound, IsMemory, Memory
<1>2. m = [guild |-> pointers, rank |-> ranks, object |-> object, cache |-> cache, db |-> db]
    <2> HIDE DEF db, pointers, ranks
    <2> DEFINE written == [Memory EXCEPT !.db = db]
               alone == [written EXCEPT !.guild = pointers]
    <2>1. m = [alone EXCEPT !.rank = ranks]
        BY DEF Memory, pointers, ranks
    <2>2. written = [guild |-> guild, rank |-> guild_rank, object |-> object, cache |-> cache, db |-> db]
        BY DEF Memory
    <2> HIDE DEF written, m
    <2>3. alone = [guild |-> pointers, rank |-> guild_rank, object |-> object, cache |-> cache, db |-> db]
        BY <2>2
    <2> HIDE DEF alone
    <2> QED BY <2>1, <2>3
<1>3. pointers \in [Character -> Object \union {None}] /\ pointers[c] = None
      /\ \A d \in Character \ {c} : pointers[d] = guild[d]
    BY <1>1 DEF IsMemory, Memory
<1> HIDE DEF db, pointers, ranks, m
<1>4. Sound(m)
    BY <1>1, <1>2, <1>3 DEF IInv, Sound, IsMemory, Memory, Alive, Used
<1>5. Sound(n) /\ Referred(n) /\ n.guild = pointers
    BY <1>2, <1>4, ReleaseSound
<1>6. Abandon(c, n) /\ place' = [place EXCEPT ![c] = "Away"]
      /\ guild_invite' = [guild_invite EXCEPT ![c] = None]
    BY DEF Logout, m, db
<1> HIDE DEF n
<1>7. \A d \in Character : place'[d] = "Away" => n.guild[d] = None
    BY <1>3, <1>5, <1>6 DEF IInv, Apart, Drafts
<1>8. /\ place' \in [Character -> {"Away", "Menu", "World"}]
      /\ guild_invite' \in [Character -> Tag \union {None}]
      /\ \A d \in Character \ {c} : place'[d] = place[d]
    BY <1>6 DEF IInv, Drafts
<1> QED BY <1>5, <1>6, <1>7, <1>8, AbandonStep

\* A guild that is founded.
LEMMA CreateStep ==
    ASSUME IInv, NEW c \in Character, NEW t \in Tag, Guild_Create(c, t)
    PROVE  IInv'
<1> USE GuildAssumption
<1> DEFINE names == guild_create[c].members
           row == [database EXCEPT !.guilds = @ \union {t}, !.bank[t] = 0]
           given == [d \in Character |-> IF d = c THEN 0 ELSE MaxRank]
           m == [Memory EXCEPT !.db = row]
<1>1. PICK o \in Object :
          /\ ~Loaded(o)
          /\ Abandon(c, Release(AddMembers(Load(m, t, o), o, names, given)))
    BY DEF Guild_Create
<1>2. UNCHANGED <<place, guild_join, guild_invite>>
    BY DEF Guild_Create
<1>3. IsDatabase(row)
    <2> DEFINE bank == [database.bank EXCEPT ![t] = 0]
               tags == database.guilds \union {t}
               mid == [database EXCEPT !.guilds = tags]
    <2>1. IsDatabase(database)
        BY DEF IInv, Sound, IsMemory, Memory
    <2>2. row = [mid EXCEPT !.bank = bank]
        BY <2>1 DEF IsDatabase
    <2>3. tags \subseteq Tag
        BY <2>1 DEF IsDatabase
    <2> HIDE DEF row, bank, tags
    <2>4. mid = [guilds |-> tags, bank |-> database.bank, guild |-> database.guild,
                 rank |-> database.rank]
        BY <2>1 DEF IsDatabase
    <2> HIDE DEF mid
    <2>5. row = [guilds |-> tags, bank |-> bank, guild |-> database.guild,
                 rank |-> database.rank]
        BY <2>2, <2>4
    <2> QED BY <2>1, <2>3, <2>5 DEF IsDatabase
<1> HIDE DEF row
<1>4. Sound(m) /\ m.guild = guild /\ m.object = object
    <2>1. m = [guild |-> guild, rank |-> guild_rank, object |-> object, cache |-> cache,
               db |-> row]
        BY DEF Memory
    <2> HIDE DEF m
    <2> QED BY <1>3, <2>1 DEF IInv, Sound, IsMemory, Memory, Alive, Used
<1> HIDE DEF m, given, names
<1> DEFINE l == Load(m, t, o)
           a == AddMembers(l, o, names, given)
           n == Release(a)
<1>5. Sound(l) /\ l.object[o].tag # None /\ l.guild = guild
    BY <1>1, <1>4, LoadSound DEF Loaded
<1> HIDE DEF l
<1>6. Sound(a) /\ a.guild = [d \in Character |-> IF d \in ToSet(names) /\ InWorld(d) THEN o ELSE guild[d]]
    <2>1. /\ Sound(a)
          /\ a.guild = [d \in Character |-> IF d \in ToSet(names) /\ InWorld(d) THEN o ELSE l.guild[d]]
        BY <1>5, AddMembersSound
    <2> HIDE DEF a
    <2> QED BY <1>5, <2>1
<1>7. Abandon(c, n)
    BY <1>1 DEF l
<1> HIDE DEF a
<1>8. Sound(n) /\ Referred(n) /\ n.guild = a.guild
    BY <1>6, ReleaseSound
<1> HIDE DEF n
<1>9. \A d \in Character : place'[d] = "Away" => n.guild[d] = None
    BY <1>2, <1>6, <1>8 DEF IInv, Apart, InWorld
<1>10. /\ place' \in [Character -> {"Away", "Menu", "World"}]
       /\ guild_invite' \in [Character -> Tag \union {None}]
       /\ \A d \in Character \ {c} : place'[d] = place[d]
    BY <1>2 DEF IInv, Drafts
<1> QED BY <1>7, <1>8, <1>9, <1>10, AbandonStep

\* Handlers that look at guilds, and let members leave.
LEMMA ReleaseStep ==
    ASSUME IInv, NEW m, Sound(m), Becomes(Release(m)),
           \A c \in Character : m.guild[c] \in {None, guild[c]},
           UNCHANGED <<place, guild_join, guild_invite, guild_create, create_cache>>
    PROVE  IInv'
<1> DEFINE n == Release(m)
<1>1. Sound(n) /\ Referred(n) /\ n.guild = m.guild
    BY ReleaseSound
<1> HIDE DEF n
<1>2. Becomes(n) /\ \A c \in Character : n.guild[c] \in {None, guild[c]} \/ InWorld(c)
    BY <1>1 DEF n
<1>3. guild_invite' \in [Character -> Tag \union {None}]
    BY DEF IInv, Drafts
<1> QED BY <1>1, <1>2, <1>3, MemoryStep

\* A request to found a guild.
LEMMA RequestStep ==
    ASSUME IInv, NEW c \in Character, NEW t \in Tag, NEW near \in SUBSET Character,
           Guild_Request(c, t, near)
    PROVE  IInv'
<1> USE GuildAssumption
<1>1. CASE Exists(t)
    <2> DEFINE n == Glance(Memory, t)
    <2>1. /\ Becomes(n)
          /\ UNCHANGED <<place, guild_create, create_cache, guild_invite>>
        BY <1>1 DEF Guild_Request
    <2>2. Sound(n) /\ Referred(n) /\ n.guild = guild
        BY GlanceSound DEF IInv, Memory
    <2>3. guild_invite' \in [Character -> Tag \union {None}]
        BY <2>1 DEF IInv, Drafts
    <2> HIDE DEF n
    <2> QED BY <2>1, <2>2, <2>3, MemoryStep
<1>2. CASE ~Exists(t)
    <2> DEFINE old == guild_create[c]
               found == IF old.tag = None THEN cache ELSE [cache EXCEPT ![old.tag] = None]
               k == [guild |-> guild, rank |-> guild_rank, object |-> object,
                     cache |-> found, db |-> database]
    <2>1. /\ InWorld(c)
          /\ guild_create' = [guild_create EXCEPT ![c] = [tag |-> t, members |-> <<c>>]]
          /\ create_cache' = [u \in Tag |-> IF u = old.tag THEN None
                                            ELSE IF u = t THEN c ELSE create_cache[u]]
          /\ cache' = found
          /\ guild_invite' = [d \in Character |-> IF d \in {e \in near : e # c /\ guild[e] = None}
                                                  THEN t ELSE guild_invite[d]]
          /\ UNCHANGED <<guild, guild_rank, object, database, place>>
        BY <1>2 DEF Guild_Request
    <2>2. Memory' = k
        BY <2>1 DEF Memory
    <2>3. found \in [Tag -> Object \union {None}] /\ \A u \in Tag : found[u] \in {None, cache[u]}
        BY DEF IInv, Sound, IsMemory, Memory
    <2> HIDE DEF found
    <2>4. Sound(k) /\ Referred(k)
        BY <2>3 DEF IInv, Sound, IsMemory, Memory, Alive, Used, Referred
    <2> HIDE DEF k
    <2>5. Drafts'
        <3>1. /\ place' \in [Character -> {"Away", "Menu", "World"}]
              /\ guild_invite' \in [Character -> Tag \union {None}]
            BY <2>1 DEF IInv, Drafts
        <3>2. guild_create = [d \in Character |-> guild_create[d]]
            BY DEF IInv, Drafts
        <3>3. /\ guild_create' = [d \in Character |-> guild_create'[d]]
              /\ guild_create'[c] = [tag |-> t, members |-> <<c>>]
              /\ \A d \in Character \ {c} : guild_create'[d] = guild_create[d]
            BY <2>1, <3>2
        <3>4. \A d \in Character :
                 /\ guild_create'[d] = [tag |-> guild_create'[d].tag, members |-> guild_create'[d].members]
                 /\ guild_create'[d].tag \in Tag \union {None}
            BY <3>3 DEF IInv, Drafts
        <3>5. create_cache' \in [Tag -> Character \union {None}]
            BY <2>1 DEF IInv, Drafts
        <3>6. ASSUME NEW u \in Tag, create_cache'[u] # None
              PROVE  place'[create_cache'[u]] = "World" /\ guild_create'[create_cache'[u]].tag = u
            <4> DEFINE d == create_cache[u]
            <4>1. u # old.tag
                BY <2>1, <3>6
            <4>2. CASE u = t
                BY <2>1, <3>3, <3>6, <4>1, <4>2 DEF InWorld
            <4>3. CASE u # t
                <5>1. create_cache'[u] = d
                    BY <2>1, <4>1, <4>3
                <5>2. d \in Character /\ guild_create[d].tag = u /\ place[d] = "World"
                    BY ZenonT(30), <3>6, <5>1 DEF IInv, Drafts, InWorld
                <5> QED BY <2>1, <3>3, <4>1, <5>1, <5>2
            <4> QED BY <4>2, <4>3
        <3> QED BY <3>1, <3>3, <3>4, <3>5, <3>6 DEF Drafts, InWorld
    <2>6. Apart'
        BY <2>1 DEF IInv, Apart
    <2> QED BY <2>2, <2>4, <2>5, <2>6 DEF IInv
<1> QED BY <1>1, <1>2

\* An invited character agrees: the founder keeps the tag of its draft.
LEMMA AcceptStep ==
    ASSUME IInv, NEW c \in Character, Guild_Accept(c)
    PROVE  IInv'
<1> USE GuildAssumption
<1> DEFINE t == guild_invite[c]
           f == create_cache[t]
<1>1. /\ t \in Tag /\ guild_invite' = [guild_invite EXCEPT ![c] = None]
      /\ guild_create' = IF f = None THEN guild_create
                         ELSE [guild_create EXCEPT ![f].members = Append(@, c)]
      /\ UNCHANGED <<place, guild, guild_rank, object, cache, create_cache, database>>
    BY DEF Guild_Accept, IInv, Drafts
<1>2. Memory' = Memory
    BY <1>1 DEF Memory
<1>3. /\ guild_create = [d \in Character |-> guild_create[d]]
      /\ \A d \in Character :
            /\ guild_create[d] = [tag |-> guild_create[d].tag, members |-> guild_create[d].members]
            /\ guild_create[d].tag \in Tag \union {None}
    BY DEF IInv, Drafts
<1>4. /\ guild_create' = [d \in Character |-> guild_create'[d]]
      /\ \A d \in Character :
            /\ guild_create'[d] = [tag |-> guild_create'[d].tag, members |-> guild_create'[d].members]
            /\ guild_create'[d].tag = guild_create[d].tag
    <2>1. CASE f = None
        BY <1>1, <1>3, <2>1
    <2>2. CASE f # None
        <3> DEFINE g == guild_create[f]
                   n == [g EXCEPT !.members = Append(@, c)]
        <3>1. f \in Character
            BY <1>1, <2>2 DEF IInv, Drafts
        <3>2. guild_create' = [guild_create EXCEPT ![f] = n]
            BY <1>1, <2>2
        <3>3. n = [tag |-> g.tag, members |-> n.members]
            <4>1. g = [tag |-> g.tag, members |-> g.members]
                BY <1>3, <3>1
            <4> HIDE DEF g, f, t
            <4>2. n = [tag |-> g.tag, members |-> Append(g.members, c)]
                BY SMTT(40), <4>1
            <4> QED BY <4>2
        <3> HIDE DEF n
        <3>4. n.tag = g.tag
            BY <3>3
        <3>5. guild_create'[f] = n /\ \A d \in Character \ {f} : guild_create'[d] = guild_create[d]
            BY <1>3, <3>1, <3>2
        <3> QED BY <1>3, <3>2, <3>3, <3>4, <3>5
    <2> QED BY <2>1, <2>2
<1> HIDE DEF t, f
<1>5. Drafts'
    <2>1. guild_invite' \in [Character -> Tag \union {None}]
        BY <1>1 DEF IInv, Drafts
    <2>2. \A u \in Tag : create_cache[u] # None =>
              create_cache[u] \in Character /\ InWorld(create_cache[u])
              /\ guild_create[create_cache[u]].tag = u
        BY DEF IInv, Drafts
    <2>3. /\ place \in [Character -> {"Away", "Menu", "World"}]
          /\ create_cache \in [Tag -> Character \union {None}]
        BY DEF IInv, Drafts
    <2>4. \A d \in Character :
              /\ guild_create'[d] = [tag |-> guild_create'[d].tag, members |-> guild_create'[d].members]
              /\ guild_create'[d].tag \in Tag \union {None}
        BY <1>3, <1>4
    <2> QED BY <1>1, <1>4, <2>1, <2>2, <2>3, <2>4 DEF Drafts, InWorld
<1>6. Apart'
    BY <1>1 DEF IInv, Apart
<1> QED BY <1>2, <1>5, <1>6 DEF IInv

\* A member lets somebody join who has no guild.
LEMMA UseStep ==
    ASSUME IInv, NEW c \in Character, NEW j \in Character, Guild_Use(c, j)
    PROVE  IInv'
<1> USE GuildAssumption
<1> DEFINE o == guild[c]
           m == AddMember(Memory, o, j, MaxRank)
           h == m.object[o]
           g == [h EXCEPT !.bank = h.bank - RecruitCost, !.needs_save = TRUE]
           n == [m EXCEPT !.object[o] = g]
<1>1. /\ o \in Object /\ InWorld(j) /\ guild[j] = None /\ Becomes(n)
      /\ UNCHANGED <<place, guild_join, guild_invite, guild_create, create_cache>>
    <2>1. o # None /\ guild \in [Character -> Object \union {None}]
        BY DEF Guild_Use, IInv, Sound, IsMemory, Memory
    <2>2. InWorld(j) /\ guild[j] = None /\ Becomes(n)
        BY DEF Guild_Use
    <2> QED BY <2>1, <2>2 DEF Guild_Use
<1>2. Sound(Memory) /\ Referred(Memory) /\ Memory.object[o].tag # None /\ Memory.guild = guild
    BY <1>1 DEF IInv, Sound, Used, Memory
<1> HIDE DEF o, n
<1>4. /\ Sound(m)
      /\ m.guild = [guild EXCEPT ![j] = o]
      /\ \A p \in Object : m.object[p].tag = Memory.object[p].tag
    BY <1>1, <1>2, AddMemberSound
<1> HIDE DEF m
<1>5. IsGuild(h)
    BY <1>1, <1>4 DEF Sound, IsMemory
<1>6. IsGuild(g) /\ g.tag = m.object[o].tag
    <2> HIDE DEF h
    <2>1. IsGuild(g) /\ g.tag = h.tag
        BY <1>5, PaidFields
    <2> QED BY <2>1 DEF h
<1> HIDE DEF g, h
<1>7. Sound(n) /\ n.guild = m.guild /\ \A p \in Object : n.object[p].tag = m.object[p].tag
    BY <1>1, <1>4, <1>6, ObjectSound DEF n
<1>8. Referred(n)
    <2> SUFFICES ASSUME NEW p \in Object, n.object[p].tag # None
                 PROVE  \E d \in Character : n.guild[d] = p
        BY DEF Referred
    <2>1. PICK d \in Character : guild[d] = p
        BY <1>2, <1>4, <1>7 DEF Referred
    <2>2. d # j
        BY <1>1, <2>1
    <2>3. n.guild[d] = p
        BY <1>4, <1>7, <2>1, <2>2, <1>2 DEF Sound, IsMemory
    <2> QED BY <2>3
<1>9. \A d \in Character : n.guild[d] \in {None, guild[d]} \/ InWorld(d)
    BY <1>1, <1>2, <1>4, <1>7 DEF Sound, IsMemory
<1>10. guild_invite' \in [Character -> Tag \union {None}]
    BY <1>1 DEF IInv, Drafts
<1> QED BY <1>1, <1>7, <1>8, <1>9, <1>10, MemoryStep

\* A change to the fields of one guild, by somebody who has it.
LEMMA EditStep ==
    ASSUME IInv, NEW c \in Character, guild[c] # None,
           NEW g, IsGuild(g), g.tag = object[guild[c]].tag,
           object' = [object EXCEPT ![guild[c]] = g],
           UNCHANGED <<guild, cache, place, guild_create, create_cache, guild_invite, database>>
    PROVE  IInv'
<1> DEFINE o == guild[c]
<1>1. o \in Object /\ object = [p \in Object |-> object[p]] /\ IsDatabase(database)
      /\ \A p \in Object : IsGuild(object[p])
    BY DEF IInv, Sound, IsMemory, Memory
<1>2. object' = [p \in Object |-> IF p = o THEN g ELSE object[p]]
    BY <1>1
<1>3. object' = [p \in Object |-> object'[p]]
    BY <1>2
<1>4. \A p \in Object : IsGuild(object'[p]) /\ object'[p].tag = object[p].tag
    BY <1>1, <1>2
<1> QED BY <1>1, <1>3, <1>4, FieldsStep

\* The timed save writes rows, and marks guilds as saved.
LEMMA SaveStep ==
    ASSUME IInv, TimedSave
    PROVE  IInv'
<1> DEFINE S == {c \in Character : InWorld(c)}
           db == Written(database, S)
           bank == [t \in Tag |-> IF t \in {u \in Tag : cache[u] # None}
                                  THEN Saved(database, object[cache[t]]).bank[t]
                                  ELSE db.bank[t]]
<1>1. /\ UNCHANGED <<place, guild, guild_rank, guild_join, guild_invite, guild_create,
                     cache, create_cache>>
      /\ object' = [o \in Object |-> IF Loaded(o) /\ cache[object[o].tag] = o
                                     THEN [object[o] EXCEPT !.needs_save = FALSE] ELSE object[o]]
      /\ database' = [db EXCEPT !.bank = bank]
    BY DEF TimedSave
<1>2. IsDatabase(db)
    BY WrittenIsDatabase DEF IInv, Sound, IsMemory, Memory
<1>3. IsDatabase(database')
    <2> HIDE DEF db, bank
    <2> QED BY <1>1, <1>2 DEF IsDatabase
<1>4. \A o \in Object : IsGuild(object'[o]) /\ object'[o].tag = object[o].tag
    <2> SUFFICES ASSUME NEW o \in Object
                 PROVE  IsGuild(object'[o]) /\ object'[o].tag = object[o].tag
        OBVIOUS
    <2> DEFINE h == object[o]
               g == [h EXCEPT !.needs_save = FALSE]
    <2>1. IsGuild(h)
        BY DEF IInv, Sound, IsMemory, Memory
    <2>2. object'[o] \in {h, g}
        BY <1>1
    <2> HIDE DEF h
    <2>3. IsGuild(g) /\ g.tag = h.tag
        BY <2>1, MarkKeepsGuild
    <2> HIDE DEF g
    <2> QED BY <2>1, <2>2, <2>3 DEF h
<1>5. object' = [o \in Object |-> object'[o]]
    BY <1>1
<1> QED BY <1>1, <1>3, <1>4, <1>5, FieldsStep

\* Nothing is loaded when the server starts.
LEMMA Fresh ==
    ASSUME NEW db, IsDatabase(db), NEW ranks
    PROVE  LET n == [guild |-> [c \in Character |-> None], rank |-> ranks,
                     object |-> [o \in Object |-> Unloaded], cache |-> [t \in Tag |-> None],
                     db |-> db]
           IN  Sound(n) /\ Referred(n)
    BY DEF Sound, IsMemory, IsGuild, Unloaded, Alive, Used, Referred

\* Every step.
LEMMA GuildStep ==
    ASSUME IInv, [Next]_vars
    PROVE  IInv'
<1> USE GuildAssumption
<1>1. ASSUME NEW c \in Character, Arrive(c) PROVE IInv'
    BY <1>1, ArriveStep
<1>2. ASSUME NEW c \in Character, Enter(c) PROVE IInv'
    <2>1. /\ place' = [place EXCEPT ![c] = "World"] /\ place[c] = "Menu"
          /\ UNCHANGED <<guild, guild_rank, guild_join, guild_invite, guild_create, object,
                         cache, create_cache, database>>
        BY <1>2 DEF Enter
    <2>2. Memory' = Memory
        BY <2>1 DEF Memory
    <2>3. place' \in [Character -> {"Away", "Menu", "World"}]
          /\ \A d \in Character : place'[d] = place[d] \/ (place[d] = "Menu" /\ place'[d] = "World")
        BY <2>1 DEF IInv, Drafts
    <2>4. \A t \in Tag : create_cache[t] # None =>
              create_cache[t] \in Character /\ place[create_cache[t]] = "World"
              /\ guild_create[create_cache[t]].tag = t
        <3> SUFFICES ASSUME NEW t \in Tag, create_cache[t] # None
                     PROVE  /\ create_cache[t] \in Character /\ place[create_cache[t]] = "World"
                            /\ guild_create[create_cache[t]].tag = t
            OBVIOUS
        <3>1. create_cache \in [Tag -> Character \union {None}]
            BY DEF IInv, Drafts
        <3>2. InWorld(create_cache[t]) /\ guild_create[create_cache[t]].tag = t
            BY ZenonT(30) DEF IInv, Drafts
        <3> QED BY <3>1, <3>2 DEF InWorld
    <2>5. Drafts'
        <3>1. \A t \in Tag : create_cache'[t] # None =>
                  place'[create_cache'[t]] = "World" /\ guild_create'[create_cache'[t]].tag = t
            BY <2>1, <2>3, <2>4
        <3>2. /\ guild_invite' \in [Character -> Tag \union {None}]
              /\ guild_create' = [d \in Character |-> guild_create'[d]]
              /\ \A d \in Character :
                    /\ guild_create'[d] = [tag |-> guild_create'[d].tag,
                                           members |-> guild_create'[d].members]
                    /\ guild_create'[d].tag \in Tag \union {None}
              /\ create_cache' \in [Tag -> Character \union {None}]
            BY <2>1 DEF IInv, Drafts
        <3> QED BY <2>3, <3>1, <3>2 DEF Drafts, InWorld
    <2>6. Apart'
        BY <2>1, <2>3 DEF IInv, Apart
    <2> QED BY <2>2, <2>5, <2>6 DEF IInv
<1>3. ASSUME NEW c \in Character, Logout(c) PROVE IInv'
    BY <1>3, LogoutStep
<1>4. ASSUME NEW c \in Character, Warp(c) PROVE IInv'
    <2>1. /\ guild_invite' = [guild_invite EXCEPT ![c] = None]
          /\ UNCHANGED <<place, guild, guild_rank, guild_create, object, cache, create_cache, database>>
        BY <1>4 DEF Warp
    <2>2. Memory' = Memory
        BY <2>1 DEF Memory
    <2>3. guild_invite' \in [Character -> Tag \union {None}]
        BY <2>1 DEF IInv, Drafts
    <2>4. Drafts' /\ Apart'
        BY <2>1, <2>3 DEF IInv, Drafts, Apart, InWorld
    <2> QED BY <2>2, <2>4 DEF IInv
<1>5. ASSUME NEW c \in Character, Guild_Accept(c) PROVE IInv'
    BY <1>5, AcceptStep
<1>6. ASSUME NEW c \in Character, Guild_Remove(c) PROVE IInv'
    <2> DEFINE m == DelMember(Memory, guild[c], c)
    <2>1. /\ Becomes(Release(m)) /\ guild[c] # None
          /\ UNCHANGED <<place, guild_join, guild_invite, guild_create, create_cache>>
        BY <1>6 DEF Guild_Remove
    <2>2. guild[c] \in Object /\ Memory.guild = guild /\ Sound(Memory)
        BY <2>1 DEF IInv, Sound, IsMemory, Memory
    <2>3. Sound(m) /\ \A d \in Character : m.guild[d] \in {None, guild[d]}
        BY <2>2, DelMemberSound
    <2> HIDE DEF m
    <2> QED BY <2>1, <2>3, ReleaseStep
<1>7. ASSUME NEW c \in Character, Guild_Junk(c) PROVE IInv'
    <2>1. /\ guild[c] # None
          /\ UNCHANGED <<place, guild_join, guild_invite, guild_create, create_cache>>
        BY <1>7 DEF Guild_Junk
    <2>2. PICK m \in Disband(Memory, guild[c]) : Becomes(Release(m))
        BY <1>7 DEF Guild_Junk
    <2>3. guild[c] \in Object /\ Memory.guild = guild /\ Sound(Memory)
        BY <2>1 DEF IInv, Sound, IsMemory, Memory
    <2>4. Sound(m) /\ \A d \in Character : m.guild[d] \in {None, guild[d]}
        BY <2>2, <2>3, DisbandSound
    <2> QED BY <2>1, <2>2, <2>4, ReleaseStep
<1>8. ASSUME NEW c \in Character, Guild_Agree(c) PROVE IInv'
    <2> DEFINE h == object[guild[c]]
               g == [h EXCEPT !.needs_save = TRUE]
    <2>1. /\ guild[c] # None /\ object' = [object EXCEPT ![guild[c]] = g]
          /\ UNCHANGED <<guild, cache, place, guild_create, create_cache, guild_invite, database>>
        BY <1>8 DEF Guild_Agree
    <2>2. IsGuild(h)
        BY <2>1 DEF IInv, Sound, IsMemory, Memory
    <2> HIDE DEF h
    <2>3. IsGuild(g) /\ g.tag = h.tag
        BY <2>2, MarkKeepsGuild
    <2> HIDE DEF g
    <2> QED BY <2>1, <2>3, EditStep DEF h
<1>9. ASSUME NEW c \in Character, NEW t \in Tag, NEW near \in SUBSET Character,
             Guild_Request(c, t, near)
      PROVE  IInv'
    BY <1>9, RequestStep
<1>10. ASSUME NEW c \in Character, NEW t \in Tag, Guild_Create(c, t) PROVE IInv'
    BY <1>10, CreateStep
<1>11. ASSUME NEW c \in Character, NEW t \in Tag, Guild_Tell(c, t) PROVE IInv'
    <2> DEFINE n == Glance(Memory, t)
    <2>1. Becomes(n) /\ UNCHANGED <<place, guild_join, guild_invite, guild_create, create_cache>>
        BY <1>11 DEF Guild_Tell
    <2>2. Sound(n) /\ Referred(n) /\ n.guild = guild
        BY GlanceSound DEF IInv, Memory
    <2>3. guild_invite' \in [Character -> Tag \union {None}]
        BY <2>1 DEF IInv, Drafts
    <2> HIDE DEF n
    <2> QED BY <2>1, <2>2, <2>3, MemoryStep
<1>12. ASSUME NEW c \in Character, NEW r \in Character, Guild_Player(c, r) PROVE IInv'
    <2>1. UNCHANGED <<place, guild, guild_rank, guild_invite, guild_create, object, cache,
                      create_cache, database>>
        BY <1>12 DEF Guild_Player
    <2> QED BY <2>1 DEF IInv, Drafts, Apart, InWorld, Memory
<1>13. ASSUME NEW c \in Character, NEW j \in Character, Guild_Use(c, j) PROVE IInv'
    BY <1>13, UseStep
<1>14. ASSUME NEW c \in Character, NEW d \in Character, Guild_Kick(c, d) PROVE IInv'
    <2> DEFINE m == DelMember(Memory, guild[c], d)
    <2>1. /\ Becomes(Release(m)) /\ guild[c] # None
          /\ UNCHANGED <<place, guild_join, guild_invite, guild_create, create_cache>>
        BY <1>14 DEF Guild_Kick
    <2>2. guild[c] \in Object /\ Memory.guild = guild /\ Sound(Memory)
        BY <2>1 DEF IInv, Sound, IsMemory, Memory
    <2>3. Sound(m) /\ \A e \in Character : m.guild[e] \in {None, guild[e]}
        BY <2>2, DelMemberSound
    <2> HIDE DEF m
    <2> QED BY <2>1, <2>3, ReleaseStep
<1>15. ASSUME NEW c \in Character, NEW d \in Character, NEW r \in 0..(MaxRank + 1), Guild_Rank(c, d, r)
       PROVE  IInv'
    <2> DEFINE o == guild[c]
               h == object[o]
               list == [h.members EXCEPT ![GetMember(o, d)] = [@ EXCEPT !.rank = r]]
               g == [h EXCEPT !.members = list]
    <2>1. /\ o # None /\ object' = [object EXCEPT ![o].members[GetMember(o, d)].rank = r]
          /\ UNCHANGED <<guild, cache, place, guild_create, create_cache, guild_invite, database>>
        BY <1>15 DEF Guild_Rank, SetMemberRank
    <2>2. object' = [object EXCEPT ![o] = g]
        BY <2>1
    <2>3. IsGuild(h)
        BY <2>1 DEF IInv, Sound, IsMemory, Memory
    <2> HIDE DEF list, h
    <2>4. IsGuild(g) /\ g.tag = h.tag
        BY <2>3, ListKeepsGuild
    <2> HIDE DEF g
    <2> QED BY <2>1, <2>2, <2>4, EditStep DEF h
<1>16. ASSUME NEW c \in Character, NEW gold \in 1..GuildBankMax, Guild_Buy(c, gold) PROVE IInv'
    <2> DEFINE h == object[guild[c]]
               bank == h.bank + Accepted(h, gold)
               g == [h EXCEPT !.bank = bank, !.needs_save = TRUE]
    <2>1. /\ guild[c] # None /\ object' = [object EXCEPT ![guild[c]] = g]
          /\ UNCHANGED <<guild, cache, place, guild_create, create_cache, guild_invite, database>>
        BY <1>16 DEF Guild_Buy
    <2>2. IsGuild(h)
        BY <2>1 DEF IInv, Sound, IsMemory, Memory
    <2> HIDE DEF h, bank
    <2>3. IsGuild(g) /\ g.tag = h.tag
        BY <2>2, PaidFields
    <2> HIDE DEF g
    <2> QED BY <2>1, <2>3, EditStep DEF h
<1>17. ASSUME TimedSave PROVE IInv'
    BY <1>17, SaveStep
<1>18. CASE UNCHANGED vars
    BY <1>18 DEF vars, IInv, Drafts, Apart, InWorld, Memory
<1> QED BY <1>1, <1>2, <1>3, <1>4, <1>5, <1>6, <1>7, <1>8, <1>9, <1>10, <1>11, <1>12, <1>13,
           <1>14, <1>15, <1>16, <1>17, <1>18 DEF Next, Act

\* When the server starts.
LEMMA GuildInit == Init => IInv
<1> SUFFICES ASSUME Init PROVE IInv
    OBVIOUS
<1>1. IsDatabase(database)
    BY DEF Init, Database, IsDatabase
<1>2. Sound(Memory) /\ Referred(Memory)
    BY <1>1, Fresh DEF Memory, Init
<1>3. Drafts /\ Apart
    BY DEF Init, Drafts, Apart, NoDraft
<1> QED BY <1>2, <1>3 DEF IInv

\* What the caches of GuildManager hold is alive and is what it is found by, whatever
\* is founded and whoever is expelled: conversions of their weak_ptr never throw.
THEOREM CachesHoldLiving == Spec => []CachesAlive
<1>1. IInv => CachesAlive
    <2> SUFFICES ASSUME IInv PROVE CachesAlive
        OBVIOUS
    <2>1. \A t \in Tag : cache[t] # None => Loaded(cache[t]) /\ object[cache[t]].tag = t
        BY GuildAssumption DEF IInv, Sound, Alive, Memory, Loaded
    <2>2. \A t \in Tag : create_cache[t] # None =>
              InWorld(create_cache[t]) /\ guild_create[create_cache[t]].tag = t
        BY DEF IInv, Drafts
    <2> QED BY <2>1, <2>2 DEF CachesAlive
<1> QED BY <1>1, GuildInit, GuildStep, PTL DEF Spec

\* A Guild is loaded exactly as long as a character refers to it, so it is saved or
\* deleted as soon as the last of them lets go.
THEOREM LoadedExactlyWhileUsed == Spec => []LoadedWhileUsed
<1>1. IInv => LoadedWhileUsed
    BY GuildAssumption DEF IInv, Sound, IsMemory, Used, Referred, Memory, LoadedWhileUsed, Loaded
<1> QED BY <1>1, GuildInit, GuildStep, PTL DEF Spec

-----------------------------------------------------------------------------
(***************************************************************************)
(* What holds for the guilds that were not founded since the start, where  *)
(* nobody expels or ranks who has gone: their members share one object,    *)
(* that lists them, and rows of characters name guilds that have rows.     *)
(***************************************************************************)
Old == Tag \ Founding
Entry == [name : Character, rank : Nat]

\* The rest of the types.
Typed(m) ==
    /\ m.rank \in [Character -> Nat]
    /\ m.db.rank \in [Character -> Nat] /\ m.db.bank = [t \in Tag |-> m.db.bank[t]]
    /\ \A o \in Object : m.object[o].tag \in Old =>
          m.object[o].members \in Seq(Entry) /\ m.object[o].needs_save \in BOOLEAN

Sole(m) == \A o \in Object : m.object[o].tag \in Old => m.cache[m.object[o].tag] = o

Lists(m, o, c, r) ==
    \E i \in 1..Len(m.object[o].members) :
        m.object[o].members[i].name = c /\ Clamp(m.object[o].members[i].rank) = Clamp(r)

\* Who has a guild is listed by it.
Listing(m) ==
    \A c \in Character : m.guild[c] # None /\ m.object[m.guild[c]].tag \in Old =>
        m.object[m.guild[c]].tag \in m.db.guilds /\ Lists(m, m.guild[c], c, m.rank[c])

\* Who is not in the world, all but those of the set W, is listed by the guild that its row
\* names, if a character refers to that: it will find it in the cache when it comes back.
Expected(m, W) ==
    \A c \in Character \ W : \A d \in Character :
        LET t == m.db.guild[c] IN
        t \in Old /\ m.cache[t] # None /\ m.guild[d] = m.cache[t] =>
            Lists(m, m.cache[t], c, m.db.rank[c])

\* A guild that has no unsaved changes has its gold in its row.
Banked(m) ==
    \A o \in Object : m.object[o].tag \in Old /\ m.object[o].needs_save = FALSE =>
        m.object[o].bank = m.db.bank[m.object[o].tag]

World == {c \in Character : InWorld(c)}

Settling(m, W) ==
    /\ Typed(m) /\ Sole(m) /\ Listing(m) /\ Expected(m, W) /\ Banked(m) /\ Consistent(m.db, Old)

DraftsFounding == \A c \in Character : guild_create[c].tag \in Founding \union {None}

GuildInv == IInv /\ Settling(Memory, World) /\ DraftsFounding


\* The gold of a guild: what the object says that stands for it, or else its row.
Gold(m, t) == IF m.cache[t] # None THEN m.object[m.cache[t]].bank ELSE m.db.bank[t]

KeepsGold(m, n) == \A t \in Old : t \in m.db.guilds /\ t \in n.db.guilds => Gold(n, t) = Gold(m, t)

\* What changes neither caches nor banks keeps it.
LEMMA SameGold ==
    ASSUME NEW m, NEW n, IsMemory(m), n.db.bank = m.db.bank,
           \A t \in Old : n.cache[t] = m.cache[t],
           \A o \in Object : n.object[o].bank = m.object[o].bank
    PROVE  KeepsGold(m, n)
<1> SUFFICES ASSUME NEW t \in Old PROVE Gold(n, t) = Gold(m, t)
    BY DEF KeepsGold
<1>1. m.cache[t] \in Object \union {None}
    BY DEF IsMemory, Old
<1> QED BY <1>1 DEF Gold

\* Steps that keep it, between which no guild is missing that is there before and after.
LEMMA GoldTwice ==
    ASSUME NEW m, NEW n, NEW k, KeepsGold(m, n), KeepsGold(n, k),
           m.db.guilds \intersect k.db.guilds \intersect Old \subseteq n.db.guilds
    PROVE  KeepsGold(m, k)
    BY DEF KeepsGold

\* Who an object lists is a matter of its list.
LEMMA SameLists ==
    ASSUME NEW m, NEW n, NEW o, m.object[o].members = n.object[o].members, NEW c, NEW r
    PROVE  Lists(n, o, c, r) <=> Lists(m, o, c, r)
    BY Zenon DEF Lists

\* Rows of guilds that no object stands for are deleted.
LEMMA DeletedSettles ==
    ASSUME NEW m, NEW n, NEW W, NEW T, Settling(m, W),
           m.guild \in [Character -> Object \union {None}],
           n.guild = m.guild, n.rank = m.rank, n.object = m.object, n.cache = m.cache,
           n.db = Deleted(m.db, T),
           \A o \in Object : m.object[o].tag \in Old => m.object[o].tag \notin T
    PROVE  Settling(n, W)
<1> USE GuildAssumption
<1>1. /\ n.db.guilds = m.db.guilds \ T
      /\ n.db.bank = [t \in Tag |-> IF t \in T THEN 0 ELSE m.db.bank[t]]
      /\ n.db.guild = [c \in Character |-> IF m.db.guild[c] \in T THEN None ELSE m.db.guild[c]]
      /\ n.db.rank = [c \in Character |-> IF m.db.guild[c] \in T THEN 0 ELSE m.db.rank[c]]
    BY DEF Deleted
<1>2. \A o, c, r : Lists(n, o, c, r) <=> Lists(m, o, c, r)
    BY SameLists
<1>3. Typed(n)
    BY <1>1 DEF Settling, Typed
<1>4. Sole(n)
    BY DEF Settling, Sole
<1>5. Listing(n)
    <2> SUFFICES ASSUME NEW c \in Character, n.guild[c] # None, n.object[n.guild[c]].tag \in Old
                 PROVE  /\ n.object[n.guild[c]].tag \in n.db.guilds
                        /\ Lists(n, n.guild[c], c, n.rank[c])
        BY DEF Listing
    <2>1. m.guild[c] \in Object
        OBVIOUS
    <2>2. m.object[m.guild[c]].tag \in m.db.guilds /\ Lists(m, m.guild[c], c, m.rank[c])
        BY DEF Settling, Listing
    <2> QED BY <1>1, <1>2, <2>1, <2>2
<1>6. Expected(n, W)
    <2> DEFINE t(c) == m.db.guild[c]
    <2> SUFFICES ASSUME NEW c \in Character \ W, NEW d \in Character, n.db.guild[c] \in Old,
                        n.cache[n.db.guild[c]] # None, n.guild[d] = n.cache[n.db.guild[c]]
                 PROVE  Lists(n, n.cache[n.db.guild[c]], c, n.db.rank[c])
        BY DEF Expected
    <2>1. n.db.guild[c] = t(c) /\ n.db.rank[c] = m.db.rank[c]
        BY <1>1 DEF Old
    <2>2. Lists(m, m.cache[t(c)], c, m.db.rank[c])
        BY <2>1 DEF Settling, Expected
    <2> QED BY <1>2, <2>1, <2>2
<1>7. Banked(n)
    <2> SUFFICES ASSUME NEW o \in Object, m.object[o].tag \in Old, m.object[o].needs_save = FALSE
                 PROVE  m.object[o].bank = n.db.bank[m.object[o].tag]
        BY DEF Banked
    <2> QED BY <1>1 DEF Settling, Banked, Old
<1>8. Consistent(n.db, Old)
    BY <1>1 DEF Settling, Consistent, Old
<1> QED BY <1>3, <1>4, <1>5, <1>6, <1>7, <1>8 DEF Settling

\* What the rows of guilds are once the dying are saved.
LEMMA DyingSavedRows ==
    ASSUME NEW m, IsMemory(m)
    PROVE  LET db == DyingSaved(m) IN
           /\ db.guilds = m.db.guilds /\ db.guild = m.db.guild /\ db.rank = m.db.rank
           /\ db.bank = [t \in Tag |-> db.bank[t]]
           /\ \A t \in Tag : t \notin m.db.guilds \/ (\A o \in Dying(m) : m.object[o].tag # t)
                  => db.bank[t] = m.db.bank[t]
           /\ \A o \in Dying(m) \ Deserted(m) :
                 LET t == m.object[o].tag IN
                 /\ t \in m.db.guilds /\ m.object[o].needs_save \in BOOLEAN
                 /\ \A p \in Dying(m) : m.object[p].tag = t => p = o
                 => db.bank[t] = IF m.object[o].needs_save = FALSE THEN m.db.bank[t]
                                 ELSE m.object[o].bank
<1> DEFINE last(t) == {o \in Dying(m) \ Deserted(m) : m.object[o].tag = t /\ m.object[o].needs_save}
           bank == [t \in Tag |-> IF t \in m.db.guilds /\ last(t) # {}
                                  THEN m.object[CHOOSE o \in last(t) : TRUE].bank
                                  ELSE m.db.bank[t]]
           db == DyingSaved(m)
<1>1. db = [m.db EXCEPT !.bank = bank]
    BY DEF DyingSaved
<1>2. m.db = [guilds |-> m.db.guilds, bank |-> m.db.bank, guild |-> m.db.guild, rank |-> m.db.rank]
      /\ m.db.guilds \subseteq Tag
    BY DEF IsMemory, IsDatabase
<1> HIDE DEF bank, db
<1>3. db = [guilds |-> m.db.guilds, bank |-> bank, guild |-> m.db.guild, rank |-> m.db.rank]
    BY <1>1, <1>2
<1>4. db.bank = bank
    BY <1>3
<1>5. \A t \in Tag : bank[t] = IF t \in m.db.guilds /\ last(t) # {}
                                THEN m.object[CHOOSE o \in last(t) : TRUE].bank
                                ELSE m.db.bank[t]
    BY DEF bank
<1>6. bank = [t \in Tag |-> bank[t]]
    BY DEF bank
<1>7. ASSUME NEW t \in Tag, t \notin m.db.guilds \/ \A o \in Dying(m) : m.object[o].tag # t
      PROVE  bank[t] = m.db.bank[t]
    BY <1>5, <1>7
<1>8. ASSUME NEW o \in Dying(m) \ Deserted(m), m.object[o].tag \in m.db.guilds,
             m.object[o].needs_save \in BOOLEAN,
             \A p \in Dying(m) : m.object[p].tag = m.object[o].tag => p = o
      PROVE  bank[m.object[o].tag] = IF m.object[o].needs_save = FALSE
                                     THEN m.db.bank[m.object[o].tag] ELSE m.object[o].bank
    <2> DEFINE t == m.object[o].tag
    <2>1. t \in Tag
        BY <1>2, <1>8
    <2>2. CASE m.object[o].needs_save = FALSE
        <3>1. last(t) = {}
            BY Zenon, <1>8, <2>2
        <3> QED BY <1>5, <2>1, <2>2, <3>1
    <2>3. CASE m.object[o].needs_save = TRUE
        <3>1. \A p : p \in last(t) <=> p = o
            BY Zenon, <1>8, <2>3
        <3> HIDE DEF last
        <3>2. last(t) # {} /\ (CHOOSE p \in last(t) : TRUE) = o
            BY <3>1
        <3> QED BY <1>5, <1>8, <2>1, <2>3, <3>2
    <2> QED BY <1>8, <2>2, <2>3
<1>9. /\ db.guilds = m.db.guilds /\ db.guild = m.db.guild /\ db.rank = m.db.rank
      /\ db.bank = bank
    BY <1>3
<1> HIDE DEF last
<1> QED BY Zenon, <1>6, <1>7, <1>8, <1>9 DEF db

\* Releasing objects settles what it deletes: an object that dies is the only one of its tag.
LEMMA ReleaseSettles ==
    ASSUME NEW m, NEW W, Sound(m), Settling(m, W)
    PROVE  Settling(Release(m), W)
<1> USE GuildAssumption
<1> DEFINE dead == Dying(m)
           obj == [o \in Object |-> IF o \in dead THEN Unloaded ELSE m.object[o]]
           found == [t \in Tag |-> IF t \in Tags(m, dead) THEN None ELSE m.cache[t]]
           k == [guild |-> m.guild, rank |-> m.rank, object |-> obj, cache |-> found,
                 db |-> DyingSaved(m)]
           T == Tags(m, Deserted(m))
           n == Release(m)
<1>1. /\ n.guild = m.guild /\ n.rank = m.rank /\ n.object = obj /\ n.cache = found
      /\ n.db = Deleted(DyingSaved(m), T)
    <2> HIDE DEF obj, found, T
    <2> DEFINE rows == Deleted(DyingSaved(m), T)
    <2>1. n = [m EXCEPT !.object = obj, !.cache = found, !.db = rows]
        BY DEF Release, obj, found, T
    <2>2. m = [guild |-> m.guild, rank |-> m.rank, object |-> m.object, cache |-> m.cache,
               db |-> m.db]
        BY DEF Sound, IsMemory
    <2> HIDE DEF n, rows
    <2>3. n = [guild |-> m.guild, rank |-> m.rank, object |-> obj, cache |-> found, db |-> rows]
        BY <2>1, <2>2
    <2> QED BY <2>3 DEF rows
<1>2. /\ k.guild = m.guild /\ k.rank = m.rank /\ k.object = obj /\ k.cache = found
      /\ k.db = DyingSaved(m)
    OBVIOUS
<1> HIDE DEF n, k
<1>3. /\ \A o \in Object \ dead : obj[o] = m.object[o]
      /\ \A o \in dead : obj[o].tag = None
      /\ \A o \in dead : o \in Object /\ m.object[o].tag # None
      /\ \A o \in dead, c \in Character : m.guild[c] # o
      /\ \A t \in Tag : found[t] = m.cache[t] \/ (found[t] = None /\ \E o \in dead : m.object[o].tag = t)
    BY DEF Dying, Tags, Unloaded
<1> HIDE DEF dead, obj, found
<1>4. \A o \in Object \ dead : m.object[o].tag \in Old =>
          /\ \A p \in dead : m.object[p].tag # m.object[o].tag
          /\ found[m.object[o].tag] = m.cache[m.object[o].tag]
    BY <1>3 DEF Settling, Sole, Old
<1> HIDE DEF T
<1>5. /\ k.db.guilds = m.db.guilds /\ k.db.guild = m.db.guild /\ k.db.rank = m.db.rank
      /\ \A t \in Tag : t \notin m.db.guilds \/ (\A o \in dead : m.object[o].tag # t)
             => k.db.bank[t] = m.db.bank[t]
      /\ k.db.bank = [t \in Tag |-> k.db.bank[t]]
    <2>1. IsMemory(m)
        BY DEF Sound
    <2> DEFINE db == DyingSaved(m)
    <2>2. /\ db.guilds = m.db.guilds /\ db.guild = m.db.guild /\ db.rank = m.db.rank
          /\ db.bank = [t \in Tag |-> db.bank[t]]
          /\ \A t \in Tag : t \notin m.db.guilds \/ (\A o \in dead : m.object[o].tag # t)
                 => db.bank[t] = m.db.bank[t]
        BY <2>1, DyingSavedRows DEF dead
    <2> HIDE DEF db
    <2>3. k.db = db
        BY <1>2 DEF db
    <2> QED BY <2>2, <2>3
<1>6. Settling(k, W)
    <2>1. Typed(k)
        <3>1. k.rank \in [Character -> Nat] /\ k.db.rank \in [Character -> Nat]
              /\ k.db.bank = [t \in Tag |-> k.db.bank[t]]
            BY <1>2, <1>5 DEF Settling, Typed
        <3>2. \A o \in Object : k.object[o].tag \in Old =>
                  k.object[o].members \in Seq(Entry) /\ k.object[o].needs_save \in BOOLEAN
            <4> SUFFICES ASSUME NEW o \in Object, k.object[o].tag \in Old
                         PROVE  /\ k.object[o].members \in Seq(Entry)
                                /\ k.object[o].needs_save \in BOOLEAN
                OBVIOUS
            <4>1. k.object[o] = m.object[o]
                BY <1>2, <1>3 DEF Old
            <4> QED BY Zenon, <4>1 DEF Settling, Typed
        <3> QED BY Zenon, <3>1, <3>2 DEF Typed
    <2>2. Sole(k)
        BY <1>2, <1>3, <1>4 DEF Settling, Sole, Old
    <2>3. Listing(k)
        <3> SUFFICES ASSUME NEW c \in Character, k.guild[c] # None, k.object[k.guild[c]].tag \in Old
                     PROVE  /\ k.object[k.guild[c]].tag \in k.db.guilds
                            /\ Lists(k, k.guild[c], c, k.rank[c])
            BY DEF Listing
        <3> DEFINE o == m.guild[c]
        <3>1. o \in Object \ dead
            BY <1>2, <1>3 DEF Sound, IsMemory
        <3>2. k.object[o] = m.object[o]
            BY <1>2, <1>3, <3>1
        <3>3. m.object[o].tag \in m.db.guilds /\ Lists(m, o, c, m.rank[c])
            BY <1>2, <3>2 DEF Settling, Listing
        <3>4. Lists(k, o, c, m.rank[c])
            BY <3>2, <3>3, SameLists
        <3> QED BY <1>2, <1>5, <3>2, <3>3, <3>4
    <2>4. Expected(k, W)
        <3> SUFFICES ASSUME NEW c \in Character \ W, NEW d \in Character, k.db.guild[c] \in Old,
                            k.cache[k.db.guild[c]] # None, k.guild[d] = k.cache[k.db.guild[c]]
                     PROVE  Lists(k, k.cache[k.db.guild[c]], c, k.db.rank[c])
            BY DEF Expected
        <3> DEFINE t == m.db.guild[c]
                   o == m.cache[t]
        <3>1. t \in Old /\ k.cache[t] = o /\ m.guild[d] = o /\ o # None
            BY <1>2, <1>3, <1>5 DEF Old
        <3>2. Lists(m, o, c, m.db.rank[c])
            BY <3>1 DEF Settling, Expected
        <3>3. o \in Object \ dead
            BY <1>3, <3>1 DEF Sound, IsMemory
        <3>4. k.object[o] = m.object[o]
            BY <1>2, <1>3, <3>3
        <3>5. Lists(k, o, c, m.db.rank[c])
            <4> HIDE DEF o, t
            <4>1. m.object[o].members = k.object[o].members
                BY <3>4
            <4>2. \A p, r : Lists(k, o, p, r) <=> Lists(m, o, p, r)
                BY Zenon, <4>1, SameLists
            <4> QED BY Zenon, <3>2, <4>2
        <3> QED BY <1>5, <3>1, <3>5
    <2>5. Banked(k)
        BY <1>2, <1>3, <1>4, <1>5 DEF Settling, Banked, Old
    <2>6. Consistent(k.db, Old)
        BY <1>5 DEF Settling, Consistent, Old
    <2> QED BY <2>1, <2>2, <2>3, <2>4, <2>5, <2>6 DEF Settling
<1>7. \A o \in Object : obj[o].tag \in Old => obj[o].tag \notin T
    <2>1. \A t \in T : \E p \in dead : m.object[p].tag = t
        BY DEF T, Tags, Deserted, dead
    <2> QED BY <1>3, <1>4, <2>1 DEF Old
<1>8. k.guild \in [Character -> Object \union {None}]
    BY <1>2 DEF Sound, IsMemory
<1> HIDE DEF T
<1> QED BY <1>1, <1>2, <1>6, <1>7, <1>8, DeletedSettles DEF n

\* What an object that is released has in its bank is in its row, or the guild is deleted.
LEMMA ReleaseGold ==
    ASSUME NEW m, NEW W, Sound(m), Settling(m, W)
    PROVE  KeepsGold(m, Release(m))
<1> USE GuildAssumption
<1> DEFINE dead == Dying(m)
           obj == [o \in Object |-> IF o \in dead THEN Unloaded ELSE m.object[o]]
           found == [t \in Tag |-> IF t \in Tags(m, dead) THEN None ELSE m.cache[t]]
           saved == DyingSaved(m)
           T == Tags(m, Deserted(m))
           rows == Deleted(saved, T)
           n == Release(m)
<1>1. n.object = obj /\ n.cache = found /\ n.db = rows
    <2> HIDE DEF obj, found, rows
    <2>1. n = [m EXCEPT !.object = obj, !.cache = found, !.db = rows]
        BY DEF Release, obj, found, rows
    <2>2. m = [guild |-> m.guild, rank |-> m.rank, object |-> m.object, cache |-> m.cache,
               db |-> m.db]
        BY DEF Sound, IsMemory
    <2> HIDE DEF n
    <2>3. n = [guild |-> m.guild, rank |-> m.rank, object |-> obj, cache |-> found, db |-> rows]
        BY <2>1, <2>2
    <2> QED BY <2>3
<1>2. /\ \A t \in Tag : t \notin m.db.guilds \/ (\A o \in dead : m.object[o].tag # t)
             => saved.bank[t] = m.db.bank[t]
      /\ \A o \in dead \ Deserted(m) :
            LET t == m.object[o].tag IN
            /\ t \in m.db.guilds /\ m.object[o].needs_save \in BOOLEAN
            /\ \A p \in dead : m.object[p].tag = t => p = o
            => saved.bank[t] = IF m.object[o].needs_save = FALSE THEN m.db.bank[t]
                               ELSE m.object[o].bank
    <2>1. IsMemory(m)
        BY DEF Sound
    <2> QED BY <2>1, DyingSavedRows
<1>3. /\ rows.guilds = saved.guilds \ T
      /\ \A t \in Tag : t \notin T => rows.bank[t] = saved.bank[t]
    BY DEF Deleted
<1>4. /\ \A o \in Object \ dead : obj[o] = m.object[o]
      /\ dead \subseteq Object /\ \A o \in dead : m.object[o].tag # None
      /\ \A t \in Tag : found[t] = IF \E p \in dead : m.object[p].tag = t THEN None ELSE m.cache[t]
      /\ \A o \in Deserted(m) : m.object[o].tag \in T
    BY DEF Dying, Tags, Unloaded
<1> HIDE DEF n, dead, obj, found, T, rows, saved
<1> SUFFICES ASSUME NEW t \in Old, t \in m.db.guilds, t \in n.db.guilds
             PROVE  Gold(n, t) = Gold(m, t)
    BY DEF KeepsGold, n
<1>5. t \notin T /\ rows.bank[t] = saved.bank[t] /\ t \in Tag
    BY <1>1, <1>3 DEF Old
<1>6. \A p \in Object : m.object[p].tag = t => m.cache[t] = p
    BY DEF Settling, Sole
<1>7. CASE \A p \in dead : m.object[p].tag # t
    <2>1. n.cache[t] = m.cache[t] /\ n.db.bank[t] = m.db.bank[t]
        BY <1>1, <1>2, <1>4, <1>5, <1>7
    <2>2. m.cache[t] # None => m.cache[t] \in Object \ dead
        BY <1>5, <1>7 DEF Sound, IsMemory, Alive
    <2> QED BY <1>1, <1>4, <2>1, <2>2 DEF Gold
<1>8. ASSUME NEW p \in dead, m.object[p].tag = t PROVE Gold(n, t) = Gold(m, t)
    <2>1. /\ m.cache[t] = p /\ p # None /\ n.cache[t] = None /\ p \in Object
          /\ \A o \in dead : m.object[o].tag = t => o = p
        BY <1>1, <1>4, <1>5, <1>6, <1>8
    <2>2. p \in dead \ Deserted(m)
        BY <1>4, <1>5, <1>8
    <2>3. m.object[p].needs_save \in BOOLEAN
        BY <1>8, <2>1 DEF Settling, Typed
    <2>4. saved.bank[t] = IF m.object[p].needs_save = FALSE THEN m.db.bank[t] ELSE m.object[p].bank
        BY <1>2, <1>8, <2>1, <2>2, <2>3
    <2>5. m.object[p].needs_save = FALSE => m.object[p].bank = m.db.bank[t]
        BY <1>8, <2>1 DEF Settling, Banked
    <2>6. saved.bank[t] = m.object[p].bank
        BY <2>4, <2>5
    <2> QED BY <1>1, <1>5, <2>1, <2>6 DEF Gold
<1> QED BY <1>7, <1>8

\* Sets of numbers have a least one.
LEMMA LeastNatural ==
    ASSUME NEW S, S \subseteq Nat, S # {}
    PROVE  \E x \in S : \A y \in S : x <= y
<1>1. PICK x \in S : \A y \in S : ~ (<<y, x>> \in OpToRel(<, Nat))
    BY Zenon, NatLessThanWellFounded, WFMin
<1>2. \A y \in S : x <= y
    <2> SUFFICES ASSUME NEW y \in S PROVE x <= y
        OBVIOUS
    <2>1. ~ (<<y, x>> \in {z \in Nat \X Nat : z[1] < z[2]})
        BY <1>1 DEF OpToRel
    <2>2. <<y, x>> \in Nat \X Nat
        OBVIOUS
    <2> QED BY <2>1, <2>2
<1> QED BY <1>2

\* The order of members is total on those of a guild, and what it numbers them with are
\* the places of a list of all of them.
LEMMA RowsNumbered ==
    ASSUME NEW db, NEW t, db.rank \in [Character -> Nat]
    PROVE  LET R == Rows(db, t) IN
           /\ IsFiniteSet(R) /\ R \subseteq Entry
           /\ \A e \in R : Place(R, e) \in 1..Cardinality(R)
           /\ \A i \in 1..Cardinality(R) : \E e \in R : Place(R, e) = i
           /\ \A e, f \in R : Place(R, e) = Place(R, f) => e = f
<1> USE GuildAssumption
<1> DEFINE row(c) == [name |-> c, rank |-> Clamp(db.rank[c])]
           M == {d \in Character : db.guild[d] = t}
           R == Rows(db, t)
           P(e) == {d \in R : Before(d, e)}
           size == Cardinality(R)
<1>1. IsFiniteSet(R)
    <2>1. IsFiniteSet(M)
        BY FS_Interval, FS_Subset DEF Character
    <2>2. R = {row(c) : c \in M}
        BY DEF Rows
    <2> DEFINE F == [c \in M |-> row(c)]
    <2> HIDE DEF M, row, R
    <2>3. F \in [M -> R] /\ \A e \in R : \E c \in M : F[c] = e
        BY <2>2
    <2> HIDE DEF F
    <2>4. F \in Surjection(M, R)
        BY <2>3, Fun_IsSurj
    <2> QED BY <2>1, <2>4, FS_Surjection
<1>2. /\ R \subseteq Entry
      /\ \A e, f \in R : e.name = f.name => e = f
    <2>1. \A e \in R : \E c \in Character : e = row(c)
        BY DEF Rows
    <2>2. \A c \in Character : row(c) \in Entry /\ row(c).name = c
        BY DEF Entry, Clamp
    <2> HIDE DEF row, R
    <2> QED BY <2>1, <2>2
<1>3. /\ \A e, f \in R : e # f => Before(e, f) \/ Before(f, e)
      /\ \A e, f, g \in R : Before(e, f) /\ Before(f, g) => Before(e, g)
      /\ \A e \in R : ~Before(e, e)
    <2>1. \A e \in R : e.name \in Nat /\ e.rank \in Nat
        BY <1>2 DEF Entry, Character
    <2> HIDE DEF R
    <2> QED BY <1>2, <2>1 DEF Before
<1> HIDE DEF R
<1>4. size \in Nat /\ \A e \in R : IsFiniteSet(P(e)) /\ Cardinality(P(e)) \in Nat
    BY <1>1, FS_CardinalityType, FS_Subset
<1>5. ASSUME NEW e \in R, NEW f \in R, Before(e, f)
      PROVE  Cardinality(P(e)) < Cardinality(P(f))
    <2>1. P(e) \subseteq P(f) /\ e \in P(f) /\ e \notin P(e)
        BY <1>3, <1>5
    <2> HIDE DEF P
    <2>2. Cardinality(P(e)) <= Cardinality(P(f)) /\ Cardinality(P(e)) # Cardinality(P(f))
        BY <1>4, <2>1, FS_Subset
    <2> QED BY <1>4, <2>2
<1>6. \A e \in R : Place(R, e) = Cardinality(P(e)) + 1
    BY DEF Place
<1>7. ASSUME NEW e \in R PROVE Place(R, e) \in 1..size
    <2>1. P(e) \subseteq R /\ e \notin P(e)
        BY <1>3
    <2> HIDE DEF P
    <2>2. Cardinality(P(e)) <= size /\ Cardinality(P(e)) # size
        BY <1>1, <2>1, FS_Subset
    <2> HIDE DEF size
    <2> QED BY <1>4, <1>6, <2>2
<1>8. ASSUME NEW e \in R, NEW f \in R, Place(R, e) = Place(R, f) PROVE e = f
    <2> HIDE DEF P
    <2> QED BY <1>3, <1>4, <1>5, <1>6, <1>8
<1>9. \A i \in 1..size : \E e \in R : Place(R, e) = i
    <2> DEFINE F == [e \in R |-> Place(R, e)]
    <2>1. F \in [R -> 1..size] /\ \A e, f \in R : F[e] = F[f] => e = f
        BY <1>7, <1>8
    <2>2. F \in Injection(R, 1..size)
        BY <2>1, Fun_IsInj
    <2>3. IsFiniteSet(1..size) /\ Cardinality(1..size) = size
        <3> HIDE DEF size
        <3>1. 1 \in Int /\ size \in Int
            BY <1>4
        <3>2. IsFiniteSet(1..size) /\ Cardinality(1..size) = IF 1 > size THEN 0 ELSE size - 1 + 1
            BY <3>1, FS_Interval
        <3> QED BY <1>4, <3>2
    <2>4. F \in Surjection(R, 1..size)
        BY <2>2, <2>3, FS_Injection
    <2>5. \A i \in 1..size : \E e \in R : F[e] = i
        <3> HIDE DEF F, size
        <3> QED BY ZenonT(30), <2>4, Fun_SurjectionProperties
    <2> QED BY <2>5
<1> QED BY <1>1, <1>2, <1>7, <1>8, <1>9 DEF R

\* A guild that is loaded lists every character whose row names it.
LEMMA ListedLists ==
    ASSUME NEW db, NEW t, db.rank \in [Character -> Nat]
    PROVE  LET L == Listed(db, t) IN
           /\ L \in Seq(Entry)
           /\ \A c \in Character : db.guild[c] = t =>
                 \E i \in 1..Len(L) : L[i].name = c /\ Clamp(L[i].rank) = Clamp(db.rank[c])
<1> USE GuildAssumption
<1> DEFINE R == Rows(db, t)
           size == Cardinality(R)
           L == Listed(db, t)
<1>1. /\ size \in Nat /\ R \subseteq Entry
      /\ \A e \in R : Place(R, e) \in 1..size
      /\ \A i \in 1..size : \E e \in R : Place(R, e) = i
      /\ \A e, f \in R : Place(R, e) = Place(R, f) => e = f
    BY RowsNumbered, FS_CardinalityType
<1>2. L = [i \in 1..size |-> CHOOSE e \in R : Place(R, e) = i]
    BY DEF Listed
<1>3. \A c \in Character : db.guild[c] = t => [name |-> c, rank |-> Clamp(db.rank[c])] \in R
    BY DEF Rows
<1> HIDE DEF R, size, L
<1>4. \A i \in 1..size : L[i] \in R /\ Place(R, L[i]) = i
    BY <1>1, <1>2
<1>5. L \in Seq(Entry) /\ Len(L) = size
    <2>1. L \in [1..size -> Entry]
        BY <1>1, <1>2, <1>4
    <2> HIDE DEF Entry
    <2> QED BY <1>1, <2>1
<1>6. ASSUME NEW c \in Character, db.guild[c] = t
      PROVE  \E i \in 1..Len(L) : L[i].name = c /\ Clamp(L[i].rank) = Clamp(db.rank[c])
    <2> DEFINE e == [name |-> c, rank |-> Clamp(db.rank[c])]
               i == Place(R, e)
    <2>1. e \in R
        BY <1>3, <1>6
    <2>2. i \in 1..size
        BY <1>1, <2>1
    <2>3. L[i] = e
        <3> HIDE DEF e
        <3> QED BY <1>1, <1>4, <2>1, <2>2
    <2>4. e.name = c /\ Clamp(e.rank) = Clamp(db.rank[c])
        BY DEF Clamp
    <2> HIDE DEF e, i
    <2> QED BY <1>5, <2>2, <2>3, <2>4
<1> QED BY <1>5, <1>6 DEF L

\* Looking at a guild that nobody is loaded for.
LEMMA GlanceSettles ==
    ASSUME NEW m, NEW t \in Tag, NEW W, Sound(m), Settling(m, W)
    PROVE  Settling(Glance(m, t), W)
<1> USE GuildAssumption
<1> DEFINE n == Glance(m, t)
<1>1. CASE n = m
    BY <1>1
<1>2. CASE n # m
    <2>1. m.cache[t] = None /\ n = [m EXCEPT !.db = Deleted(m.db, {t})]
        BY <1>2 DEF Glance
    <2>2. /\ n.guild = m.guild /\ n.rank = m.rank /\ n.object = m.object /\ n.cache = m.cache
          /\ n.db = Deleted(m.db, {t})
        BY <2>1 DEF Sound, IsMemory
    <2>3. \A o \in Object : m.object[o].tag \in Old => m.object[o].tag \notin {t}
        BY <2>1 DEF Settling, Sole
    <2>4. m.guild \in [Character -> Object \union {None}]
        BY DEF Sound, IsMemory
    <2> HIDE DEF n
    <2>5. Settling(n, W)
        BY <2>2, <2>3, <2>4, DeletedSettles
    <2> QED BY <2>5 DEF n
<1> QED BY <1>1, <1>2

LEMMA GlanceGold ==
    ASSUME NEW m, NEW t \in Tag, Sound(m)
    PROVE  KeepsGold(m, Glance(m, t))
<1> USE GuildAssumption
<1> DEFINE n == Glance(m, t)
           rows == Deleted(m.db, {t})
<1>1. CASE n = m
    BY <1>1 DEF KeepsGold
<1>2. CASE n # m
    <2>1. n = [m EXCEPT !.db = rows]
        BY <1>2 DEF Glance
    <2>2. rows.guilds = m.db.guilds \ {t} /\ \A u \in Tag \ {t} : rows.bank[u] = m.db.bank[u]
        BY DEF Deleted
    <2> HIDE DEF rows
    <2>3. n.object = m.object /\ n.cache = m.cache /\ n.db = rows
        BY <2>1 DEF Sound, IsMemory
    <2> HIDE DEF n
    <2>4. KeepsGold(m, n)
        BY <2>2, <2>3 DEF KeepsGold, Gold, Old
    <2> QED BY <2>4 DEF n
<1> QED BY <1>1, <1>2

\* What Load changes.
LEMMA LoadFields ==
    ASSUME NEW m, NEW t \in Tag, NEW o \in Object, Sound(m)
    PROVE  LET n == Load(m, t, o) IN
           /\ n.guild = m.guild /\ n.rank = m.rank /\ n.db = m.db
           /\ n.object[o] = [tag |-> t, members |-> Listed(m.db, t), bank |-> m.db.bank[t],
                             needs_save |-> FALSE]
           /\ \A p \in Object \ {o} : n.object[p] = m.object[p]
           /\ n.cache[t] = o /\ \A u \in Tag \ {t} : n.cache[u] = m.cache[u]
<1> DEFINE g == [tag |-> t, members |-> Listed(m.db, t), bank |-> m.db.bank[t],
                 needs_save |-> FALSE]
           n == Load(m, t, o)
<1> HIDE DEF g
<1>1. n = [m EXCEPT !.object[o] = g, !.cache[t] = o]
    BY DEF Load, g
<1> HIDE DEF n
<1>2. n = [guild |-> m.guild, rank |-> m.rank, object |-> [m.object EXCEPT ![o] = g],
           cache |-> [m.cache EXCEPT ![t] = o], db |-> m.db]
    BY <1>1 DEF Sound, IsMemory
<1>3. /\ n.guild = m.guild /\ n.rank = m.rank /\ n.db = m.db
      /\ n.object = [m.object EXCEPT ![o] = g] /\ n.cache = [m.cache EXCEPT ![t] = o]
    BY <1>2
<1>4. n.object[o] = g /\ (\A p \in Object \ {o} : n.object[p] = m.object[p])
      /\ n.cache[t] = o /\ \A u \in Tag \ {t} : n.cache[u] = m.cache[u]
    BY <1>3 DEF Sound, IsMemory
<1> QED BY <1>3, <1>4 DEF n, g

\* A guild that is loaded lists everybody whose row names it.
LEMMA LoadSettles ==
    ASSUME NEW m, NEW W, NEW t \in Tag, NEW o \in Object, Sound(m), Settling(m, W),
           m.object[o].tag = None, m.cache[t] = None
    PROVE  LET n == Load(m, t, o) IN
           /\ Settling(n, W)
           /\ \A c \in Character : m.db.guild[c] = t => Lists(n, o, c, m.db.rank[c])
<1> USE GuildAssumption
<1> DEFINE n == Load(m, t, o)
           L == Listed(m.db, t)
<1>1. /\ n.guild = m.guild /\ n.rank = m.rank /\ n.db = m.db
      /\ n.object[o] = [tag |-> t, members |-> L, bank |-> m.db.bank[t], needs_save |-> FALSE]
      /\ \A p \in Object \ {o} : n.object[p] = m.object[p]
      /\ n.cache[t] = o /\ \A u \in Tag \ {t} : n.cache[u] = m.cache[u]
    BY LoadFields
<1> HIDE DEF n
<1>2. /\ L \in Seq(Entry)
      /\ \A c \in Character : m.db.guild[c] = t =>
            \E i \in 1..Len(L) : L[i].name = c /\ Clamp(L[i].rank) = Clamp(m.db.rank[c])
    BY ListedLists DEF Settling, Typed
<1> HIDE DEF L
<1>3. /\ n.object[o].tag = t /\ n.object[o].members = L /\ n.object[o].bank = m.db.bank[t]
      /\ n.object[o].needs_save = FALSE
    BY <1>1
<1>4. \A c \in Character : m.db.guild[c] = t => Lists(n, o, c, m.db.rank[c])
    BY Zenon, <1>2, <1>3 DEF Lists
<1>5. /\ m.guild \in [Character -> Object \union {None}]
      /\ \A c \in Character : m.guild[c] # None => m.guild[c] \in Object \ {o}
    BY DEF Sound, IsMemory, Used
<1>6. \A p \in Object \ {o} : m.object[p].tag \in Old =>
          m.object[p].tag # t /\ n.cache[m.object[p].tag] = p
    BY <1>1 DEF Settling, Sole, Old
<1>7. Typed(n)
    BY ZenonT(60), <1>1, <1>2, <1>3 DEF Settling, Typed
<1>8. Sole(n)
    BY <1>1, <1>3, <1>6 DEF Sole
<1>9. Listing(n)
    <2> SUFFICES ASSUME NEW c \in Character, n.guild[c] # None, n.object[n.guild[c]].tag \in Old
                 PROVE  /\ n.object[n.guild[c]].tag \in n.db.guilds
                        /\ Lists(n, n.guild[c], c, n.rank[c])
        BY DEF Listing
    <2> DEFINE p == m.guild[c]
    <2>1. p \in Object \ {o} /\ n.object[p] = m.object[p]
        BY <1>1, <1>5
    <2>2. m.object[p].tag \in m.db.guilds /\ Lists(m, p, c, m.rank[c])
        BY <1>1, <2>1 DEF Settling, Listing
    <2>3. Lists(n, p, c, m.rank[c])
        BY <2>1, <2>2, SameLists
    <2> QED BY <1>1, <2>1, <2>2, <2>3
<1>10. Expected(n, W)
    <2> SUFFICES ASSUME NEW c \in Character \ W, NEW d \in Character, n.db.guild[c] \in Old,
                        n.cache[n.db.guild[c]] # None, n.guild[d] = n.cache[n.db.guild[c]]
                 PROVE  Lists(n, n.cache[n.db.guild[c]], c, n.db.rank[c])
        BY DEF Expected
    <2> DEFINE u == m.db.guild[c]
               p == m.cache[u]
    <2>1. m.guild[d] = n.cache[u] /\ m.guild[d] \in Object \ {o} /\ u \in Tag
        BY <1>1, <1>5 DEF Old
    <2>2. n.cache[u] = p /\ p # None /\ n.object[p] = m.object[p]
        BY <1>1, <2>1
    <2>3. Lists(m, p, c, m.db.rank[c])
        BY ZenonT(60), <1>1, <2>1, <2>2 DEF Settling, Expected
    <2>4. Lists(n, p, c, m.db.rank[c])
        BY <2>2, <2>3, SameLists
    <2> QED BY <1>1, <2>2, <2>4
<1>11. Banked(n)
    BY <1>1, <1>3 DEF Settling, Banked
<1>12. Consistent(n.db, Old)
    BY <1>1 DEF Settling
<1> QED BY <1>4, <1>7, <1>8, <1>9, <1>10, <1>11, <1>12 DEF Settling, n

LEMMA LoadGold ==
    ASSUME NEW m, NEW t \in Tag, NEW o \in Object, Sound(m),
           m.object[o].tag = None, m.cache[t] = None
    PROVE  KeepsGold(m, Load(m, t, o))
<1> USE GuildAssumption
<1> DEFINE g == [tag |-> t, members |-> Listed(m.db, t), bank |-> m.db.bank[t],
                 needs_save |-> FALSE]
           n == Load(m, t, o)
<1>1. g.bank = m.db.bank[t]
    OBVIOUS
<1> HIDE DEF g
<1>2. /\ n.db = m.db /\ n.object[o] = g
      /\ \A p \in Object \ {o} : n.object[p] = m.object[p]
      /\ n.cache[t] = o /\ \A u \in Tag \ {t} : n.cache[u] = m.cache[u]
    BY LoadFields DEF g
<1> HIDE DEF n
<1> SUFFICES ASSUME NEW u \in Old PROVE Gold(n, u) = Gold(m, u)
    BY DEF KeepsGold, n
<1>3. CASE u = t
    BY <1>1, <1>2, <1>3 DEF Gold
<1>4. CASE u # t
    <2>1. u \in Tag /\ n.cache[u] = m.cache[u]
        BY <1>2, <1>4 DEF Old
    <2>2. m.cache[u] # None => m.cache[u] \in Object \ {o}
        BY <2>1 DEF Sound, IsMemory, Alive
    <2> QED BY <1>2, <2>1, <2>2 DEF Gold
<1> QED BY <1>3, <1>4

\* A character c is loaded: it refers to the guild o its row names, if that is loaded.
Points(m, n, W, c, o) ==
    /\ \/ n.rank = [m.rank EXCEPT ![c] = m.db.rank[c]]
       \/ o = None /\ n.rank = [m.rank EXCEPT ![c] = 0]
    /\ n.guild = [m.guild EXCEPT ![c] = o] /\ n.object = m.object /\ n.cache = m.cache
    /\ n.db = m.db
    /\ o # None => /\ o \in Object /\ m.cache[m.object[o].tag] = o
                   /\ m.db.guild[c] = m.object[o].tag
                   /\ m.object[o].tag \in Old => m.object[o].tag \in m.db.guilds
    /\ \A d \in Character \ W :
          o # None /\ m.object[o].tag \in Old /\ m.db.guild[d] = m.object[o].tag
              => Lists(m, o, d, m.db.rank[d])

\* That settles what it refers to, which lists all who expect that.
LEMMA PointSettles ==
    ASSUME NEW m, NEW n, NEW W, NEW c \in Character, c \notin W, NEW o, Settling(m, W), Alive(m),
           m.guild \in [Character -> Object \union {None}], Points(m, n, W, c, o)
    PROVE  Settling(n, W)
<1> USE GuildAssumption
<1>1. \A p, d, r : Lists(n, p, d, r) <=> Lists(m, p, d, r)
    BY SameLists DEF Points
<1>2. /\ n.guild[c] = o /\ \A d \in Character \ {c} : n.guild[d] = m.guild[d]
      /\ n.rank \in [Character -> Nat] /\ \A d \in Character \ {c} : n.rank[d] = m.rank[d]
      /\ o # None => n.rank[c] = m.db.rank[c]
    <2>1. m.rank \in [Character -> Nat] /\ m.db.rank \in [Character -> Nat]
        BY DEF Settling, Typed
    <2>2. n.guild = [m.guild EXCEPT ![c] = o]
        BY DEF Points
    <2>3. \/ n.rank = [m.rank EXCEPT ![c] = m.db.rank[c]]
          \/ o = None /\ n.rank = [m.rank EXCEPT ![c] = 0]
        BY DEF Points
    <2> QED BY <2>1, <2>2, <2>3
<1>3. Typed(n) /\ Sole(n) /\ Banked(n) /\ Consistent(n.db, Old)
    <2>1. Typed(n)
        BY SMTT(30), <1>2 DEF Points, Settling, Typed
    <2>2. Sole(n)
        BY SMTT(30) DEF Points, Settling, Sole
    <2>3. Banked(n)
        BY SMTT(30) DEF Points, Settling, Banked
    <2>4. Consistent(n.db, Old)
        BY SMTT(30) DEF Points, Settling
    <2> QED BY <2>1, <2>2, <2>3, <2>4
<1>4. Listing(n)
    <2> SUFFICES ASSUME NEW d \in Character, n.guild[d] # None, m.object[n.guild[d]].tag \in Old
                 PROVE  /\ m.object[n.guild[d]].tag \in m.db.guilds
                        /\ Lists(n, n.guild[d], d, n.rank[d])
        BY DEF Points, Listing
    <2>1. CASE d = c
        BY <1>1, <1>2, <2>1 DEF Points
    <2>2. CASE d # c
        BY <1>1, <1>2, <2>2 DEF Settling, Listing
    <2> QED BY <2>1, <2>2
<1>5. Expected(n, W)
    <2> SUFFICES ASSUME NEW d \in Character \ W, NEW e \in Character, m.db.guild[d] \in Old,
                        m.cache[m.db.guild[d]] # None, n.guild[e] = m.cache[m.db.guild[d]]
                 PROVE  Lists(m, m.cache[m.db.guild[d]], d, m.db.rank[d])
        BY <1>1 DEF Points, Expected
    <2>1. CASE e # c
        BY <1>2, <2>1 DEF Settling, Expected
    <2>2. CASE e = c
        <3>1. o = m.cache[m.db.guild[d]] /\ m.object[o].tag = m.db.guild[d]
            BY <1>2, <2>2 DEF Alive, Old
        <3> QED BY <3>1 DEF Points
    <2> QED BY <2>1, <2>2
<1> QED BY <1>3, <1>4, <1>5 DEF Settling

\* A character who leaves the server leaves its row behind, and what it referred to lists it.
LEMMA LeaveSettles ==
    ASSUME NEW m, NEW n, NEW W, NEW c \in Character, Settling(m, W),
           m.guild \in [Character -> Object \union {None}],
           n.guild = [m.guild EXCEPT ![c] = None], n.rank = [m.rank EXCEPT ![c] = 0],
           n.object = m.object, n.cache = m.cache,
           n.db.guilds = m.db.guilds, n.db.bank = m.db.bank, n.db.rank \in [Character -> Nat],
           \A d \in Character \ {c} : n.db.guild[d] = m.db.guild[d] /\ n.db.rank[d] = m.db.rank[d],
           \/ c \notin W /\ n.db.guild[c] = m.db.guild[c] /\ n.db.rank[c] = m.db.rank[c]
           \/ n.db.guild[c] = None
           \/ /\ m.guild[c] # None /\ n.db.guild[c] = m.object[m.guild[c]].tag
              /\ n.db.rank[c] = m.rank[c]
    PROVE  Settling(n, W \ {c})
<1> USE GuildAssumption
<1>1. \A p, d, r : Lists(n, p, d, r) <=> Lists(m, p, d, r)
    BY SameLists
<1>2. /\ n.guild[c] = None /\ \A d \in Character \ {c} : n.guild[d] = m.guild[d]
      /\ n.rank \in [Character -> Nat] /\ \A d \in Character \ {c} : n.rank[d] = m.rank[d]
    BY DEF Settling, Typed
<1>3. Typed(n) /\ Sole(n) /\ Banked(n)
    <2>1. Typed(n)
        BY SMTT(30), <1>2 DEF Settling, Typed
    <2>2. Sole(n)
        BY SMTT(30) DEF Settling, Sole
    <2>3. Banked(n)
        BY SMTT(30) DEF Settling, Banked
    <2> QED BY <2>1, <2>2, <2>3
<1>4. Listing(n)
    <2> SUFFICES ASSUME NEW d \in Character, n.guild[d] # None, m.object[n.guild[d]].tag \in Old
                 PROVE  /\ m.object[n.guild[d]].tag \in m.db.guilds
                        /\ Lists(n, n.guild[d], d, n.rank[d])
        BY DEF Listing
    <2> QED BY <1>1, <1>2 DEF Settling, Listing
<1>5. Expected(n, W \ {c})
    <2> SUFFICES ASSUME NEW d \in Character, d = c \/ d \notin W, NEW e \in Character,
                        n.db.guild[d] \in Old, m.cache[n.db.guild[d]] # None,
                        n.guild[e] = m.cache[n.db.guild[d]]
                 PROVE  Lists(m, m.cache[n.db.guild[d]], d, n.db.rank[d])
        BY SMTT(30), <1>1 DEF Expected
    <2>1. m.guild[e] = n.guild[e]
        BY <1>2
    <2>2. CASE n.db.guild[d] = m.db.guild[d] /\ n.db.rank[d] = m.db.rank[d] /\ d \notin W
        BY SMTT(30), <2>1, <2>2 DEF Settling, Expected
    <2>3. CASE d = c /\ m.guild[c] # None /\ n.db.guild[c] = m.object[m.guild[c]].tag
               /\ n.db.rank[c] = m.rank[c]
        <3>1. m.guild[c] \in Object /\ m.object[m.guild[c]].tag \in Old
            BY ZenonT(30), <2>3
        <3>2. m.cache[m.object[m.guild[c]].tag] = m.guild[c]
            BY <3>1 DEF Settling, Sole
        <3>3. m.cache[n.db.guild[d]] = m.guild[c]
            BY <2>3, <3>2
        <3>4. Lists(m, m.guild[c], c, m.rank[c])
            BY <2>3, <3>1 DEF Settling, Listing
        <3> QED BY <2>3, <3>3, <3>4
    <2> QED BY <2>2, <2>3 DEF Old
<1>6. Consistent(n.db, Old)
    <2> SUFFICES ASSUME NEW t \in Old, t \notin m.db.guilds
                 PROVE  m.db.bank[t] = 0 /\ \A d \in Character : n.db.guild[d] # t
        BY DEF Consistent
    <2>1. m.db.bank[t] = 0 /\ \A d \in Character : m.db.guild[d] # t
        BY DEF Settling, Consistent
    <2>2. m.guild[c] # None => m.object[m.guild[c]].tag # t
        BY DEF Settling, Listing
    <2> QED BY <2>1, <2>2 DEF Old
<1> QED BY <1>3, <1>4, <1>5, <1>6 DEF Settling

\* Objects are written to their rows, and the guilds of characters in W to theirs.
Saves(m, n, W) ==
    /\ n.guild = m.guild /\ n.rank = m.rank /\ n.cache = m.cache
    /\ \A o \in Object : /\ n.object[o].tag = m.object[o].tag
                         /\ n.object[o].members = m.object[o].members
                         /\ n.object[o].bank = m.object[o].bank
                         /\ m.object[o].tag \in Old =>
                               /\ n.object[o].needs_save = FALSE
                               /\ n.db.bank[m.object[o].tag] = m.object[o].bank
    /\ n.db.guilds = m.db.guilds /\ n.db.bank = [t \in Tag |-> n.db.bank[t]]
    /\ \A t \in Old \ m.db.guilds : n.db.bank[t] = m.db.bank[t]
    /\ n.db.rank \in [Character -> Nat]
    /\ \A d \in Character :
          \/ n.db.guild[d] = m.db.guild[d] /\ n.db.rank[d] = m.db.rank[d]
          \/ d \in W /\ n.db.guild[d] = None
          \/ d \in W /\ m.guild[d] # None /\ n.db.guild[d] = m.object[m.guild[d]].tag

\* The timed save writes the rows of all who are in the world, and the gold of guilds.
LEMMA SaveSettles ==
    ASSUME NEW m, NEW n, NEW W, Settling(m, W),
           m.guild \in [Character -> Object \union {None}], Saves(m, n, W)
    PROVE  Settling(n, W)
<1> USE GuildAssumption DEF Saves
<1>1. \A p \in Object : \A d, r : Lists(n, p, d, r) <=> Lists(m, p, d, r)
    BY SameLists
<1>2. Typed(n) /\ Sole(n) /\ Banked(n)
    <2>1. Typed(n)
        BY ZenonT(60) DEF Settling, Typed
    <2>2. Sole(n)
        BY ZenonT(60) DEF Settling, Sole
    <2>3. Banked(n)
        BY ZenonT(60) DEF Settling, Banked
    <2> QED BY <2>1, <2>2, <2>3
<1>3. Listing(n)
    <2> SUFFICES ASSUME NEW d \in Character, m.guild[d] # None, n.object[m.guild[d]].tag \in Old
                 PROVE  /\ n.object[m.guild[d]].tag \in m.db.guilds
                        /\ Lists(n, m.guild[d], d, m.rank[d])
        BY DEF Listing
    <2>1. m.guild[d] \in Object
        OBVIOUS
    <2> QED BY <1>1, <2>1 DEF Settling, Listing
<1>4. Expected(n, W)
    <2> SUFFICES ASSUME NEW d \in Character \ W, NEW e \in Character,
                        n.db.guild[d] \in Old, m.cache[n.db.guild[d]] # None,
                        m.guild[e] = m.cache[n.db.guild[d]]
                 PROVE  Lists(n, m.cache[n.db.guild[d]], d, n.db.rank[d])
        BY SMTT(30) DEF Expected
    <2>1. n.db.guild[d] = m.db.guild[d] /\ n.db.rank[d] = m.db.rank[d]
        BY DEF Old
    <2>2. m.cache[n.db.guild[d]] \in Object
        OBVIOUS
    <2>3. /\ m.db.guild[d] \in Old /\ m.cache[m.db.guild[d]] # None
          /\ m.guild[e] = m.cache[m.db.guild[d]]
        BY <2>1
    <2>4. Lists(m, m.cache[m.db.guild[d]], d, m.db.rank[d])
        <3>1. Expected(m, W)
            BY DEF Settling
        <3> QED BY ZenonT(30), <2>3, <3>1 DEF Expected
    <2>5. Lists(n, m.cache[n.db.guild[d]], d, m.db.rank[d])
        BY <1>1, <2>1, <2>2, <2>4
    <2> QED BY <2>1, <2>5
<1>5. Consistent(n.db, Old)
    <2> SUFFICES ASSUME NEW t \in Old, t \notin m.db.guilds
                 PROVE  n.db.bank[t] = 0 /\ \A d \in Character : n.db.guild[d] # t
        BY DEF Consistent
    <2>1. m.db.bank[t] = 0 /\ \A d \in Character : m.db.guild[d] # t
        BY DEF Settling, Consistent
    <2>2. \A d \in Character : m.guild[d] # None => m.object[m.guild[d]].tag # t
        BY DEF Settling, Listing
    <2> QED BY <2>1, <2>2 DEF Old
<1> QED BY <1>2, <1>3, <1>4, <1>5 DEF Settling

\* What happens to rows and cached objects of guilds that are being founded.
LEMMA FoundingSettles ==
    ASSUME NEW m, NEW n, NEW W, Settling(m, W), n.guild = m.guild, n.rank = m.rank,
           n.object = m.object, n.db.guild = m.db.guild, n.db.rank = m.db.rank,
           n.db.bank = [t \in Tag |-> n.db.bank[t]],
           n.db.guilds \intersect Old = m.db.guilds \intersect Old,
           \A t \in Old : n.cache[t] = m.cache[t] /\ n.db.bank[t] = m.db.bank[t]
    PROVE  Settling(n, W)
<1>1. \A p, d, r : Lists(n, p, d, r) <=> Lists(m, p, d, r)
    BY SameLists
<1>2. Typed(n)
    BY DEF Settling, Typed
<1>6. Sole(n)
    BY DEF Settling, Sole
<1>7. Banked(n)
    BY DEF Settling, Banked
<1>3. Listing(n)
    BY <1>1 DEF Settling, Listing
<1>4. Expected(n, W)
    <2> SUFFICES ASSUME NEW c \in Character \ W, NEW d \in Character, n.db.guild[c] \in Old,
                        n.cache[n.db.guild[c]] # None, n.guild[d] = n.cache[n.db.guild[c]]
                 PROVE  Lists(n, n.cache[n.db.guild[c]], c, n.db.rank[c])
        BY DEF Expected
    <2> QED BY <1>1 DEF Settling, Expected
<1>5. Consistent(n.db, Old)
    BY DEF Settling, Consistent
<1> QED BY <1>2, <1>3, <1>4, <1>5, <1>6, <1>7 DEF Settling

\* Characters J come to an object o that lists them, or get another rank there, or something
\* else is changed about it.
Joins(m, n, J, o) ==
    /\ n.guild = [c \in Character |-> IF c \in J THEN o ELSE m.guild[c]]
    /\ n.rank \in [Character -> Nat] /\ \A c \in Character \ J : n.rank[c] = m.rank[c]
    /\ n.cache = m.cache /\ n.db = m.db
    /\ \A p \in Object \ {o} : n.object[p] = m.object[p]
    /\ n.object[o].tag = m.object[o].tag

\* It is still a guild that lists its members, and is marked when its gold changes.
StaysListing(m, n, J, o) ==
    /\ n.object[o].members \in Seq(Entry) /\ n.object[o].needs_save \in BOOLEAN
    /\ m.object[o].tag \in m.db.guilds /\ \E d \in Character : m.guild[d] = o
    /\ \A c \in Character \ J : \A r : Lists(m, o, c, r) => Lists(n, o, c, r)
    /\ \A c \in J : Lists(n, o, c, n.rank[c])
    /\ n.object[o].needs_save = FALSE =>
          m.object[o].needs_save = FALSE /\ n.object[o].bank = m.object[o].bank

LEMMA JoinSettles ==
    ASSUME NEW m, NEW n, NEW W, NEW o \in Object, NEW J \in SUBSET W, Settling(m, W), Alive(m),
           m.guild \in [Character -> Object \union {None}], Joins(m, n, J, o),
           m.object[o].tag \in Old => StaysListing(m, n, J, o)
    PROVE  Settling(n, W)
<1> USE DEF Joins, StaysListing
<1> USE GuildAssumption
<1>1. \A p \in Object \ {o} : \A d, r : Lists(n, p, d, r) <=> Lists(m, p, d, r)
    BY SameLists
<1>2. /\ \A c \in Character \cap J : n.guild[c] = o
      /\ \A c \in Character \ J : n.guild[c] = m.guild[c]
    OBVIOUS
<1>3. Typed(n)
    BY DEF Settling, Typed
<1>4. Sole(n) /\ Consistent(n.db, Old)
    BY DEF Settling, Sole
<1>5. Banked(n)
    BY DEF Settling, Banked
<1>6. Listing(n)
    <2> SUFFICES ASSUME NEW c \in Character, n.guild[c] # None, n.object[n.guild[c]].tag \in Old
                 PROVE  /\ n.object[n.guild[c]].tag \in m.db.guilds
                        /\ Lists(n, n.guild[c], c, n.rank[c])
        BY DEF Listing
    <2>1. CASE c \in J
        BY <1>2, <2>1
    <2>2. CASE c \notin J
        <3>1. m.guild[c] = n.guild[c] /\ m.guild[c] \in Object /\ n.rank[c] = m.rank[c]
              /\ n.object[m.guild[c]].tag = m.object[m.guild[c]].tag
            BY <1>2, <2>2
        <3>2. m.object[m.guild[c]].tag \in m.db.guilds /\ Lists(m, m.guild[c], c, m.rank[c])
            BY <3>1 DEF Settling, Listing
        <3> QED BY <1>1, <2>2, <3>1, <3>2
    <2> QED BY <2>1, <2>2
<1>7. Expected(n, W)
    <2> SUFFICES ASSUME NEW c \in Character \ W, NEW d \in Character, m.db.guild[c] \in Old,
                        m.cache[m.db.guild[c]] # None, n.guild[d] = m.cache[m.db.guild[c]]
                 PROVE  Lists(n, m.cache[m.db.guild[c]], c, m.db.rank[c])
        BY DEF Expected
    <2> DEFINE t == m.db.guild[c]
    <2>1. CASE m.cache[t] # o
        <3>1. m.guild[d] = m.cache[t] /\ m.cache[t] \in Object
            BY <1>2, <2>1
        <3> QED BY <1>1, <2>1, <3>1 DEF Settling, Expected
    <2>2. CASE m.cache[t] = o
        <3>1. m.object[o].tag = t
            BY <2>2 DEF Alive, Old
        <3>2. PICK e \in Character : m.guild[e] = o
            BY <3>1
        <3> QED BY <2>2, <3>1, <3>2 DEF Settling, Expected
    <2> QED BY <2>1, <2>2
<1> QED BY <1>3, <1>4, <1>5, <1>6, <1>7 DEF Settling

\* Members leave the object o.
Shrinks(m, n, o) ==
    /\ \A c \in Character : n.guild[c] = None \/ (n.guild[c] = m.guild[c] /\ n.rank[c] = m.rank[c])
    /\ n.rank \in [Character -> Nat] /\ n.cache = m.cache
    /\ \A p \in Object \ {o} : n.object[p] = m.object[p]
    /\ n.object[o].tag = m.object[o].tag /\ n.object[o].bank = m.object[o].bank
    /\ n.object[o].needs_save = m.object[o].needs_save
    /\ n.db.guilds = m.db.guilds /\ n.db.bank = m.db.bank /\ n.db.rank \in [Character -> Nat]
    /\ \A c \in Character : \/ n.db.guild[c] = None
                            \/ n.db.guild[c] = m.db.guild[c] /\ n.db.rank[c] = m.db.rank[c]

\* Whoever still refers to it, or expects to, stays on its list.
KeepsOthers(m, n, W, o) ==
    \A d \in Character : n.guild[d] = o =>
        \A c \in Character : n.guild[c] = o \/ (c \notin W /\ n.db.guild[c] = m.object[o].tag)
            => \A r : Lists(m, o, c, r) => Lists(n, o, c, r)

LEMMA ShrinkSettles ==
    ASSUME NEW m, NEW n, NEW W, NEW o \in Object, Settling(m, W), Alive(m),
           m.guild \in [Character -> Object \union {None}], Shrinks(m, n, o),
           m.object[o].tag \in Old => n.object[o].members \in Seq(Entry) /\ KeepsOthers(m, n, W, o)
    PROVE  Settling(n, W)
<1> USE DEF Shrinks
<1> USE GuildAssumption
<1>1. \A p \in Object \ {o} : \A d, r : Lists(n, p, d, r) <=> Lists(m, p, d, r)
    BY SameLists
<1>2. Typed(n)
    BY DEF Settling, Typed
<1>3. Sole(n)
    <2>1. \A p \in Object : n.object[p].tag = m.object[p].tag
        OBVIOUS
    <2> QED BY <2>1 DEF Settling, Sole
<1>4. Banked(n)
    <2>1. \A p \in Object : /\ n.object[p].tag = m.object[p].tag
                            /\ n.object[p].bank = m.object[p].bank
                            /\ n.object[p].needs_save = m.object[p].needs_save
        OBVIOUS
    <2>2. n.db.bank = m.db.bank
        OBVIOUS
    <2> SUFFICES ASSUME NEW p \in Object, n.object[p].tag \in Old, n.object[p].needs_save = FALSE
                 PROVE  n.object[p].bank = n.db.bank[n.object[p].tag]
        BY DEF Banked
    <2>3. m.object[p].bank = m.db.bank[m.object[p].tag]
        BY SMTT(40), <2>1 DEF Settling, Banked
    <2> QED BY <2>1, <2>2, <2>3
<1>5. Consistent(n.db, Old)
    <2> SUFFICES ASSUME NEW t \in Old, t \notin n.db.guilds
                 PROVE  n.db.bank[t] = 0 /\ \A c \in Character : n.db.guild[c] # t
        BY DEF Consistent
    <2>1. m.db.bank[t] = 0 /\ \A c \in Character : m.db.guild[c] # t
        BY SMTT(30) DEF Settling, Consistent
    <2>2. t # None
        BY SMTT(30) DEF Old
    <2>3. ASSUME NEW c \in Character PROVE n.db.guild[c] # t
        <3>1. m.db.guild[c] # t
            BY <2>1
        <3>2. n.db.guild[c] = None \/ n.db.guild[c] = m.db.guild[c]
            BY SMTT(30)
        <3> QED BY <2>2, <3>1, <3>2
    <2> QED BY <2>1, <2>3
<1>6. Listing(n)
    <2> SUFFICES ASSUME NEW c \in Character, n.guild[c] # None, n.object[n.guild[c]].tag \in Old
                 PROVE  /\ n.object[n.guild[c]].tag \in m.db.guilds
                        /\ Lists(n, n.guild[c], c, n.rank[c])
        BY DEF Listing
    <2>1. m.guild[c] = n.guild[c] /\ m.guild[c] \in Object /\ n.rank[c] = m.rank[c]
          /\ n.object[m.guild[c]].tag = m.object[m.guild[c]].tag
        <3>1. m.guild[c] = n.guild[c] /\ n.rank[c] = m.rank[c]
            BY SMTT(30)
        <3>2. m.guild[c] \in Object
            BY SMTT(30), <3>1
        <3>3. n.object[m.guild[c]].tag = m.object[m.guild[c]].tag
            BY SMTT(30), <3>2
        <3> QED BY <3>1, <3>2, <3>3
    <2>2. m.object[m.guild[c]].tag \in m.db.guilds /\ Lists(m, m.guild[c], c, m.rank[c])
        BY <2>1 DEF Settling, Listing
    <2>3. CASE m.guild[c] # o
        BY <1>1, <2>1, <2>2, <2>3
    <2>4. CASE m.guild[c] = o
        <3>1. m.object[o].tag \in Old /\ n.guild[c] = o
            BY <2>1, <2>4
        <3>2. Lists(n, o, c, m.rank[c])
            BY <2>2, <2>4, <3>1 DEF KeepsOthers
        <3> QED BY <2>1, <2>2, <2>4, <3>2
    <2> QED BY <2>3, <2>4
<1>7. Expected(n, W)
    <2> SUFFICES ASSUME NEW c \in Character \ W, NEW d \in Character, n.db.guild[c] \in Old,
                        m.cache[n.db.guild[c]] # None, n.guild[d] = m.cache[n.db.guild[c]]
                 PROVE  Lists(n, m.cache[n.db.guild[c]], c, n.db.rank[c])
        BY DEF Expected
    <2> DEFINE t == n.db.guild[c]
               p == m.cache[t]
    <2>1. /\ t = m.db.guild[c] /\ n.db.rank[c] = m.db.rank[c] /\ m.guild[d] = p
          /\ p \in Object
        BY DEF Old
    <2>2. Lists(m, p, c, m.db.rank[c])
        BY <2>1 DEF Settling, Expected
    <2>3. CASE p # o
        BY <1>1, <2>1, <2>2, <2>3
    <2>4. CASE p = o
        <3>1. m.object[o].tag = t
            BY <2>4 DEF Alive, Old
        <3> QED BY <2>1, <2>2, <2>4, <3>1 DEF KeepsOthers
    <2> QED BY <2>3, <2>4
<1> QED BY <1>2, <1>3, <1>4, <1>5, <1>6, <1>7 DEF Settling

\* Who is in the world does not need its row.
LEMMA WiderSettles ==
    ASSUME NEW m, NEW W, NEW V, W \subseteq V, Settling(m, W)
    PROVE  Settling(m, V)
<1>1. Expected(m, V)
    BY DEF Settling, Expected
<1> QED BY <1>1 DEF Settling

\* What a handler leaves in memory.
LEMMA BecomesMemory ==
    ASSUME NEW n, IsMemory(n), Becomes(n)
    PROVE  Memory' = n
    BY DEF Memory, Becomes, IsMemory

\* A draft that is forgotten takes only a guild that is being founded out of the cache.
LEMMA AbandonSettles ==
    ASSUME IInv, DraftsFounding, NEW c \in Character, NEW n, NEW W, Sound(n), Settling(n, W),
           Abandon(c, n)
    PROVE  /\ Settling(Memory', W) /\ DraftsFounding'
           /\ KeepsGold(n, Memory') /\ Memory'.db = n.db
<1> USE GuildAssumption
<1> DEFINE g == guild_create[c]
<1>1. Settling(Memory', W) /\ KeepsGold(n, Memory') /\ Memory'.db = n.db
    <2>1. CASE g.tag = None
        BY <2>1, BecomesMemory DEF Abandon, Sound, KeepsGold
    <2>2. CASE g.tag # None
        <3> DEFINE found == [n.cache EXCEPT ![g.tag] = None]
                   k == [n EXCEPT !.cache = found]
        <3>1. Becomes(k)
            BY <2>2 DEF Abandon
        <3>2. \A t \in Old : found[t] = n.cache[t]
            BY <2>2 DEF DraftsFounding, Old, Sound, IsMemory
        <3> HIDE DEF found
        <3>3. k = [guild |-> n.guild, rank |-> n.rank, object |-> n.object, cache |-> found,
                   db |-> n.db]
            BY DEF Sound, IsMemory
        <3> HIDE DEF k
        <3>4. Memory' = k
            BY <3>1, <3>3 DEF Memory, Becomes
        <3>5. /\ k.guild = n.guild /\ k.rank = n.rank /\ k.object = n.object /\ k.db = n.db
              /\ \A t \in Old : k.cache[t] = n.cache[t]
            BY <3>2, <3>3
        <3>6. n.db.bank = [t \in Tag |-> n.db.bank[t]]
            BY DEF Settling, Typed
        <3>7. Settling(k, W)
            BY <3>5, <3>6, FoundingSettles
        <3>8. KeepsGold(n, k)
            BY <3>5, SameGold DEF Sound
        <3> QED BY <3>4, <3>5, <3>7, <3>8
    <2> QED BY <2>1, <2>2
<1>2. DraftsFounding'
    <2>1. guild_create' = [guild_create EXCEPT ![c] = NoDraft]
        BY DEF Abandon
    <2>2. \A d \in Character : guild_create'[d] \in {NoDraft, guild_create[d]}
        BY <2>1 DEF IInv, Drafts
    <2> QED BY <2>2 DEF DraftsFounding, NoDraft
<1> QED BY <1>1, <1>2

\* Loading a character.
LEMMA ArriveSettles ==
    ASSUME GuildInv, NEW c \in Character, Arrive(c)
    PROVE  Settling(Memory', World') /\ KeepsGold(Memory, Memory')
<1> USE GuildAssumption
<1> DEFINE t == database.guild[c]
           found == IF t = None THEN None ELSE cache[t]
           m == Memory
           k == Memory'
           W == World
<1>1. /\ Sound(m) /\ Referred(m) /\ Settling(m, W)
      /\ m.guild = guild /\ m.object = object /\ m.cache = cache /\ m.db = database
      /\ m.rank = guild_rank /\ t \in Tag \union {None} /\ database.guilds \subseteq Tag
      /\ cache \in [Tag -> Object \union {None}] /\ guild \in [Character -> Object \union {None}]
    BY DEF GuildInv, IInv, Memory, Sound, IsMemory, IsDatabase
<1>2. /\ place' = [place EXCEPT ![c] = "Menu"] /\ place[c] = "Away"
      /\ guild_rank' = [guild_rank EXCEPT ![c] = IF t = None THEN 0 ELSE database.rank[c]]
      /\ database' = database
    BY DEF Arrive
<1>3. W' = W /\ c \notin W
    BY <1>2 DEF World, InWorld, GuildInv, IInv, Drafts
<1>4. /\ k.guild = guild' /\ k.rank = guild_rank' /\ k.object = object' /\ k.cache = cache'
      /\ k.db = database'
    BY DEF Memory
<1> HIDE DEF m, k, W
<1>5. ASSUME found = None, t \in database.guilds, NEW o \in Object, ~Loaded(o),
             object' = Load(Memory, t, o).object, cache' = Load(Memory, t, o).cache,
             guild' = [guild EXCEPT ![c] = o]
      PROVE  Settling(k, W) /\ KeepsGold(m, k)
    <2> DEFINE l == Load(m, t, o)
    <2>1. t \in Tag /\ m.cache[t] = None /\ m.object[o].tag = None
        BY <1>1, <1>5 DEF Loaded
    <2>2. /\ l.guild = guild /\ l.rank = guild_rank /\ l.db = database
          /\ l.object[o].tag = t /\ l.cache[t] = o
        <3> HIDE DEF t, l
        <3> DEFINE g == [tag |-> t, members |-> Listed(m.db, t), bank |-> m.db.bank[t],
                         needs_save |-> FALSE]
        <3>1. g.tag = t
            OBVIOUS
        <3> HIDE DEF g
        <3>2. /\ l.guild = m.guild /\ l.rank = m.rank /\ l.db = m.db
              /\ l.object[o] = g /\ l.cache[t] = o
            BY <1>1, <1>5, <2>1, LoadFields DEF l, g
        <3> QED BY <1>1, <3>1, <3>2
    <2>3. Settling(l, W) /\ \A d \in Character : database.guild[d] = t => Lists(l, o, d, database.rank[d])
        BY <1>1, <2>1, LoadSettles
    <2>4. Alive(l)
        BY <1>1, <2>1, LoadSound DEF Sound
    <2>5. k.object = l.object /\ k.cache = l.cache
        BY <1>4, <1>5 DEF m
    <2>13. KeepsGold(m, l)
        BY <1>1, <2>1, LoadGold
    <2> HIDE DEF l, t, found
    <2>6. k.rank = [l.rank EXCEPT ![c] = l.db.rank[c]]
        BY <1>2, <1>4, <2>1, <2>2
    <2>7. k.guild = [l.guild EXCEPT ![c] = o] /\ k.db = l.db
        BY <1>2, <1>4, <1>5, <2>2
    <2>8. l.db.guild[c] = t /\ t \in l.db.guilds /\ o \in Object
        BY <1>5, <2>2 DEF t
    <2>9. \A d \in Character \ W : o # None /\ l.object[o].tag \in Old
              /\ l.db.guild[d] = l.object[o].tag => Lists(l, o, d, l.db.rank[d])
        BY <2>2, <2>3
    <2>10. o # None => /\ o \in Object /\ l.cache[l.object[o].tag] = o
                       /\ l.db.guild[c] = l.object[o].tag
                       /\ l.object[o].tag \in Old => l.object[o].tag \in l.db.guilds
        BY <2>2, <2>8
    <2>11. l.guild \in [Character -> Object \union {None}] /\ c \in Character \ W
        BY <1>1, <1>3, <2>2
    <2>12. Points(l, k, W, c, o)
        BY Zenon, <2>5, <2>6, <2>7, <2>9, <2>10 DEF Points
    <2>14. KeepsGold(m, k)
        BY <2>5, <2>7, <2>13 DEF KeepsGold, Gold
    <2>15. Settling(k, W)
        BY <2>3, <2>4, <2>11, <2>12, PointSettles
    <2> QED BY <2>14, <2>15
<1>6. ASSUME found # None \/ t \notin database.guilds,
             guild' = [guild EXCEPT ![c] = found], UNCHANGED <<object, cache>>
      PROVE  Settling(k, W) /\ KeepsGold(m, k)
    <2>1. k.object = m.object /\ k.cache = m.cache /\ k.db = m.db /\ Alive(m)
          /\ k.guild = [m.guild EXCEPT ![c] = found]
        BY <1>1, <1>2, <1>4, <1>6 DEF Sound
    <2>2. \/ k.rank = [m.rank EXCEPT ![c] = m.db.rank[c]]
          \/ found = None /\ k.rank = [m.rank EXCEPT ![c] = 0]
        BY <1>1, <1>2, <1>4
    <2>3. found # None => /\ found \in Object /\ m.cache[t] = found /\ t \in Tag
                          /\ m.object[found].tag = t /\ m.db.guild[c] = t
        BY <1>1, <2>1 DEF Alive
    <2> HIDE DEF found, t
    <2>4. found # None => \E d \in Character : m.guild[d] = found
        BY <1>1, <2>3 DEF Referred
    <2>5. found # None /\ t \in Old => t \in m.db.guilds
        BY <1>1, <2>3, <2>4 DEF Settling, Listing
    <2>6. \A d \in Character \ W : found # None /\ m.object[found].tag \in Old
              /\ m.db.guild[d] = m.object[found].tag => Lists(m, found, d, m.db.rank[d])
        BY <1>1, <2>3, <2>4 DEF Settling, Expected
    <2>8. found # None => /\ found \in Object /\ m.cache[m.object[found].tag] = found
                          /\ m.db.guild[c] = m.object[found].tag
                          /\ m.object[found].tag \in Old => m.object[found].tag \in m.db.guilds
        BY <2>3, <2>5
    <2>7. m.guild \in [Character -> Object \union {None}] /\ Settling(m, W) /\ c \in Character \ W
        BY <1>1, <1>3
    <2>9. Points(m, k, W, c, found)
        BY Zenon, <2>1, <2>2, <2>6, <2>8 DEF Points
    <2>10. KeepsGold(m, k)
        BY <2>1 DEF KeepsGold, Gold
    <2>11. Settling(k, W)
        BY <2>1, <2>7, <2>9, PointSettles
    <2> QED BY <2>10, <2>11
<1> QED BY <1>3, <1>5, <1>6 DEF Arrive, k, m, W

\* Leaving the server.
LEMMA LogoutSettles ==
    ASSUME GuildInv, NEW c \in Character, Logout(c)
    PROVE  Settling(Memory', World') /\ DraftsFounding' /\ KeepsGold(Memory, Memory')
<1> USE GuildAssumption
<1> DEFINE db == IF InWorld(c) THEN Written(database, {c}) ELSE database
           pointers == [guild EXCEPT ![c] = None]
           ranks == [guild_rank EXCEPT ![c] = 0]
           m == [Memory EXCEPT !.db = db, !.guild[c] = None, !.rank[c] = 0]
           n == Release(m)
           W == World
<1>1. IsDatabase(db) /\ IsMemory(Memory) /\ Settling(Memory, W) /\ Sound(Memory)
    BY WrittenIsDatabase DEF GuildInv, IInv, Sound, IsMemory, Memory
<1>2. m = [guild |-> pointers, rank |-> ranks, object |-> object, cache |-> cache, db |-> db]
    <2> HIDE DEF db, pointers, ranks
    <2> DEFINE written == [Memory EXCEPT !.db = db]
               alone == [written EXCEPT !.guild = pointers]
    <2>1. m = [alone EXCEPT !.rank = ranks]
        BY DEF Memory, pointers, ranks
    <2>2. written = [guild |-> guild, rank |-> guild_rank, object |-> object, cache |-> cache, db |-> db]
        BY DEF Memory
    <2> HIDE DEF written, m
    <2>3. alone = [guild |-> pointers, rank |-> guild_rank, object |-> object, cache |-> cache, db |-> db]
        BY <2>2
    <2> HIDE DEF alone
    <2> QED BY <2>1, <2>3
<1>3. /\ db.guilds = database.guilds /\ db.bank = database.bank
      /\ db.rank \in [Character -> Nat]
      /\ \A d \in Character \ {c} : db.guild[d] = database.guild[d] /\ db.rank[d] = database.rank[d]
      /\ \/ c \notin W /\ db.guild[c] = database.guild[c] /\ db.rank[c] = database.rank[c]
         \/ db.guild[c] = None
         \/ /\ guild[c] # None /\ db.guild[c] = object[guild[c]].tag
            /\ db.rank[c] = guild_rank[c]
    <2>1. /\ guild_rank \in [Character -> Nat] /\ database.rank \in [Character -> Nat]
        BY <1>1 DEF Settling, Typed, Memory
    <2>2. CASE ~InWorld(c)
        BY <2>1, <2>2 DEF World
    <2>3. CASE InWorld(c)
        <3> DEFINE tags == [e \in Character |-> IF e \notin {c} THEN database.guild[e]
                               ELSE IF guild[e] = None THEN None ELSE object[guild[e]].tag]
                   given == [e \in Character |-> IF e \in {c} THEN guild_rank[e] ELSE database.rank[e]]
                   mid == [database EXCEPT !.guild = tags]
        <3>1. db = [mid EXCEPT !.rank = given]
            BY <2>3 DEF Written
        <3>2. database = [guilds |-> database.guilds, bank |-> database.bank,
                          guild |-> database.guild, rank |-> database.rank]
            BY <1>1 DEF IsMemory, IsDatabase, Memory
        <3> HIDE DEF tags, given, db
        <3>3. mid = [guilds |-> database.guilds, bank |-> database.bank, guild |-> tags,
                     rank |-> database.rank]
            BY <3>2
        <3> HIDE DEF mid
        <3>4. db = [guilds |-> database.guilds, bank |-> database.bank, guild |-> tags,
                    rank |-> given]
            BY <3>1, <3>3
        <3>5. db.guilds = database.guilds /\ db.bank = database.bank /\ db.guild = tags /\ db.rank = given
            BY <3>4
        <3> QED BY <2>1, <3>5 DEF tags, given
    <2> QED BY <2>2, <2>3
<1> HIDE DEF db
<1>4. Sound(m)
    <2>1. pointers \in [Character -> Object \union {None}]
          /\ \A d \in Character : pointers[d] \in {None, guild[d]}
        BY <1>1 DEF IsMemory, Memory
    <2> HIDE DEF pointers, ranks, m
    <2> QED BY <1>1, <1>2, <2>1 DEF Sound, IsMemory, Memory, Alive, Used
<1>5. Settling(m, W \ {c})
    <2> DEFINE old == Memory
    <2>1. /\ old.guild = guild /\ old.rank = guild_rank /\ old.object = object
          /\ old.cache = cache /\ old.db = database
          /\ guild \in [Character -> Object \union {None}] /\ Settling(old, W)
        BY <1>1 DEF IsMemory, Memory
    <2>2. /\ m.guild = pointers /\ m.rank = ranks /\ m.object = object /\ m.cache = cache /\ m.db = db
        BY <1>2
    <2> HIDE DEF m, old, W
    <2> QED BY ZenonT(60), <1>3, <2>1, <2>2, LeaveSettles
<1>6. Abandon(c, n) /\ place' = [place EXCEPT ![c] = "Away"]
    BY DEF Logout, db
<1>9. KeepsGold(Memory, m) /\ m.db.guilds = Memory.db.guilds
    <2> DEFINE old == Memory
    <2>1. /\ old.object = object /\ old.cache = cache /\ old.db = database /\ IsMemory(old)
          /\ m.object = object /\ m.cache = cache /\ m.db = db
        BY <1>1, <1>2 DEF Memory
    <2> HIDE DEF m, old
    <2>2. KeepsGold(old, m) /\ m.db.guilds = old.db.guilds
        BY <1>3, <2>1, SameGold
    <2> QED BY <2>2 DEF old
<1> HIDE DEF m
<1>7. Sound(n) /\ Settling(n, W \ {c}) /\ KeepsGold(m, n)
    BY <1>4, <1>5, ReleaseSound, ReleaseSettles, ReleaseGold
<1> HIDE DEF n
<1>8. World' = W \ {c}
    BY <1>6 DEF World, InWorld, GuildInv, IInv, Drafts
<1>10. /\ Settling(Memory', W \ {c}) /\ DraftsFounding'
       /\ KeepsGold(n, Memory') /\ Memory'.db = n.db
    BY <1>6, <1>7, AbandonSettles DEF GuildInv
<1> DEFINE old == Memory
           k == Memory'
<1> HIDE DEF old, k
<1>11. KeepsGold(old, n)
    BY <1>7, <1>9, GoldTwice DEF old
<1>12. KeepsGold(old, k)
    BY <1>10, <1>11, GoldTwice DEF k
<1> QED BY <1>8, <1>10, <1>12 DEF old, k

\* Where a list finds a name.
Found(s, c) == SelectInSeq(s, LAMBDA e : e.name = c)

LEMMA MemberFound ==
    ASSUME NEW s \in Seq(Entry), NEW c
    PROVE  LET i == Found(s, c) IN
           /\ (\E j \in 1..Len(s) : s[j].name = c) => i \in 1..Len(s) /\ s[i].name = c
           /\ (\A j \in 1..Len(s) : s[j].name # c) => i = 0
<1> DEFINE I == {j \in 1..Len(s) : s[j].name = c}
           i == Found(s, c)
<1>1. i = IF I # {} THEN Min(I) ELSE 0
    BY DEF Found, SelectInSeq
<1>2. ASSUME I # {} PROVE Min(I) \in I
    <2>1. I \subseteq Nat
        OBVIOUS
    <2> HIDE DEF I
    <2>2. \E x \in I : \A y \in I : x <= y
        BY <1>2, <2>1, LeastNatural
    <2> QED BY <2>2 DEF Min
<1> HIDE DEF i
<1>3. ASSUME \E j \in 1..Len(s) : s[j].name = c PROVE i \in I
    <2>1. I # {}
        BY <1>3
    <2> HIDE DEF I
    <2> QED BY <1>1, <1>2, <2>1
<1>4. ASSUME \A j \in 1..Len(s) : s[j].name # c PROVE i = 0
    <2>1. I = {}
        BY <1>4
    <2> HIDE DEF I
    <2> QED BY <1>1, <2>1
<1> QED BY <1>3, <1>4 DEF i

\* A list without its first member of a name.
Rest(s, c) == RemoveFirstMatch(s, LAMBDA e : e.name = c)

\* Removing a member leaves the others on the list.
LEMMA MemberRemoved ==
    ASSUME NEW s \in Seq(Entry), NEW c
    PROVE  LET q == Rest(s, c) IN
           /\ q \in Seq(Entry)
           /\ \A i \in 1..Len(s) : s[i].name # c => \E j \in 1..Len(q) : q[j] = s[i]
<1> DEFINE q == Rest(s, c)
           k == Found(s, c)
<1>1. CASE \A j \in 1..Len(s) : s[j].name # c
    <2>1. q = s
        BY <1>1 DEF Rest, RemoveFirstMatch
    <2> HIDE DEF q
    <2>2. q \in Seq(Entry) /\ \A i \in 1..Len(s) : s[i].name # c => \E j \in 1..Len(q) : q[j] = s[i]
        BY <2>1
    <2> QED BY <2>2 DEF q
<1>2. CASE \E j \in 1..Len(s) : s[j].name = c
    <2>1. q = SubSeq(s, 1, k - 1) \o SubSeq(s, k + 1, Len(s))
        BY <1>2 DEF Rest, Found, RemoveFirstMatch, RemoveAt
    <2>2. k \in 1..Len(s) /\ s[k].name = c
        BY <1>2, MemberFound
    <2> HIDE DEF q, k
    <2> DEFINE a == SubSeq(s, 1, k - 1)
               b == SubSeq(s, k + 1, Len(s))
    <2>3. PICK n \in Nat : n = Len(s)
        OBVIOUS
    <2> HIDE DEF Entry
    <2>4. a \in Seq(Entry) /\ Len(a) = k - 1 /\ \A i \in 1..(k - 1) : a[i] = s[i]
        BY <2>2, <2>3
    <2>5. b \in Seq(Entry) /\ Len(b) = n - k /\ \A i \in 1..(n - k) : b[i] = s[i + k]
        BY <2>2, <2>3
    <2> HIDE DEF a, b
    <2>10. q = a \o b
        BY <2>1 DEF a, b
    <2>6. q \in Seq(Entry) /\ Len(q) = n - 1
        BY <2>2, <2>3, <2>4, <2>5, <2>10
    <2>7. \A i \in 1..(k - 1) : q[i] = s[i]
        BY <2>2, <2>3, <2>4, <2>5, <2>10
    <2>8. \A i \in 1..(n - k) : q[i + (k - 1)] = s[i + k]
        <3> SUFFICES ASSUME NEW i \in 1..(n - k) PROVE q[i + (k - 1)] = s[i + k]
            OBVIOUS
        <3>1. i + (k - 1) \in 1..(Len(a) + Len(b)) /\ i + (k - 1) > Len(a)
              /\ i + (k - 1) - Len(a) = i
            BY <2>2, <2>3, <2>4, <2>5
        <3>2. q[i + (k - 1)] = b[i + (k - 1) - Len(a)]
            BY <2>4, <2>5, <2>10, <3>1
        <3> QED BY <2>5, <3>1, <3>2
    <2>9. ASSUME NEW i \in 1..Len(s), s[i].name # c PROVE \E j \in 1..Len(q) : q[j] = s[i]
        <3>1. CASE i < k
            BY <2>2, <2>3, <2>6, <2>7, <3>1
        <3>2. CASE i > k
            <4>1. i - k \in 1..(n - k) /\ i - 1 \in 1..Len(q) /\ (i - k) + (k - 1) = i - 1
                  /\ (i - k) + k = i
                BY <2>2, <2>3, <2>6, <3>2
            <4>2. q[(i - k) + (k - 1)] = s[(i - k) + k]
                BY <2>8, <4>1
            <4> QED BY <4>1, <4>2
        <3> QED BY <2>2, <2>3, <2>9, <3>1, <3>2
    <2> QED BY <2>6, <2>9 DEF q
<1> QED BY <1>1, <1>2

\* Whom a list has, one that has all its entries has as well.
LEMMA StillLists ==
    ASSUME NEW m, NEW n, NEW o, NEW c, NEW r, Lists(m, o, c, r),
           \A i \in 1..Len(m.object[o].members) : m.object[o].members[i].name = c =>
              \E j \in 1..Len(n.object[o].members) : n.object[o].members[j] = m.object[o].members[i]
    PROVE  Lists(n, o, c, r)
<1> DEFINE s == m.object[o].members
           q == n.object[o].members
<1>1. PICK i \in 1..Len(s) : s[i].name = c /\ Clamp(s[i].rank) = Clamp(r)
    BY Zenon DEF Lists
<1>2. PICK j \in 1..Len(q) : q[j] = s[i]
    BY <1>1
<1>3. \E x \in 1..Len(q) : q[x].name = c /\ Clamp(q[x].rank) = Clamp(r)
    <2> HIDE DEF s, q
    <2> QED BY <1>1, <1>2
<1> QED BY <1>3 DEF Lists

\* A memory with another list of members of an object.
WithList(m, o, q) == [m EXCEPT !.object[o].members = q]

\* What changes with it.
LEMMA ListFields ==
    ASSUME NEW m, NEW o \in Object, NEW q, Sound(m)
    PROVE  LET n == WithList(m, o, q) IN
           /\ n.guild = m.guild /\ n.rank = m.rank /\ n.cache = m.cache /\ n.db = m.db
           /\ \A p \in Object \ {o} : n.object[p] = m.object[p]
           /\ n.object[o].members = q /\ n.object[o].tag = m.object[o].tag
           /\ n.object[o].bank = m.object[o].bank
           /\ n.object[o].needs_save = m.object[o].needs_save
<1> DEFINE h == m.object[o]
           g == [h EXCEPT !.members = q]
           n == WithList(m, o, q)
<1>1. n = [m EXCEPT !.object[o] = g]
    BY DEF WithList
<1>6. IsGuild(h)
    BY DEF Sound, IsMemory
<1> HIDE DEF h
<1>2. g = [tag |-> h.tag, members |-> q, bank |-> h.bank, needs_save |-> h.needs_save]
    BY SMTT(30), <1>6 DEF IsGuild
<1> HIDE DEF g, n
<1>3. n = [guild |-> m.guild, rank |-> m.rank, object |-> [m.object EXCEPT ![o] = g],
           cache |-> m.cache, db |-> m.db]
    BY <1>1 DEF Sound, IsMemory
<1>4. /\ n.guild = m.guild /\ n.rank = m.rank /\ n.cache = m.cache /\ n.db = m.db
      /\ n.object[o] = g /\ \A p \in Object \ {o} : n.object[p] = m.object[p]
    BY <1>3 DEF Sound, IsMemory
<1>5. g.members = q /\ g.tag = h.tag /\ g.bank = h.bank /\ g.needs_save = h.needs_save
    BY <1>2
<1> QED BY Zenon, <1>4, <1>5 DEF n, h

\* What changes when characters lose their guild.
LEMMA DelMembersFields ==
    ASSUME NEW m, NEW S, Sound(m)
    PROVE  LET n == DelMembers(m, S) IN
           /\ n.guild = [c \in Character |-> IF c \in S /\ InWorld(c) THEN None ELSE m.guild[c]]
           /\ n.rank = [c \in Character |-> IF c \in S /\ InWorld(c) THEN 0 ELSE m.rank[c]]
           /\ n.object = m.object /\ n.cache = m.cache
           /\ n.db.guilds = m.db.guilds /\ n.db.bank = m.db.bank
           /\ n.db.guild = [c \in Character |-> IF c \in S /\ ~InWorld(c) THEN None ELSE m.db.guild[c]]
           /\ n.db.rank = [c \in Character |-> IF c \in S /\ ~InWorld(c) THEN 0 ELSE m.db.rank[c]]
<1> DEFINE pointers == [c \in Character |-> IF c \in S /\ InWorld(c) THEN None ELSE m.guild[c]]
           ranks == [c \in Character |-> IF c \in S /\ InWorld(c) THEN 0 ELSE m.rank[c]]
           rows == [c \in Character |-> IF c \in S /\ ~InWorld(c) THEN None ELSE m.db.guild[c]]
           given == [c \in Character |-> IF c \in S /\ ~InWorld(c) THEN 0 ELSE m.db.rank[c]]
           old == m.db
           mid == [old EXCEPT !.guild = rows]
           db == [mid EXCEPT !.rank = given]
           n == DelMembers(m, S)
<1>1. n = [m EXCEPT !.guild = pointers, !.rank = ranks, !.db = db]
    BY DEF DelMembers, Sound, IsMemory, IsDatabase
<1>2. old = [guilds |-> old.guilds, bank |-> old.bank, guild |-> old.guild, rank |-> old.rank]
    BY DEF Sound, IsMemory, IsDatabase
<1> HIDE DEF pointers, ranks, rows, given, n, old
<1>3. mid = [guilds |-> old.guilds, bank |-> old.bank, guild |-> rows, rank |-> old.rank]
    BY <1>2
<1> HIDE DEF mid
<1>4. db = [guilds |-> old.guilds, bank |-> old.bank, guild |-> rows, rank |-> given]
    BY <1>3
<1>5. db.guilds = old.guilds /\ db.bank = old.bank /\ db.guild = rows /\ db.rank = given
    BY <1>4
<1> HIDE DEF db
<1>6. n = [guild |-> pointers, rank |-> ranks, object |-> m.object, cache |-> m.cache, db |-> db]
    BY <1>1 DEF Sound, IsMemory
<1>7. n.guild = pointers /\ n.rank = ranks /\ n.object = m.object /\ n.cache = m.cache /\ n.db = db
    BY <1>6
<1> QED BY Zenon, <1>5, <1>7 DEF n, pointers, ranks, rows, given, old

\* Those of the set S lose their guild, and the list of the object o becomes q.
Without(m, n, S, o, q) ==
    /\ n.guild = [c \in Character |-> IF c \in S /\ InWorld(c) THEN None ELSE m.guild[c]]
    /\ n.rank = [c \in Character |-> IF c \in S /\ InWorld(c) THEN 0 ELSE m.rank[c]]
    /\ n.cache = m.cache /\ n.db.guilds = m.db.guilds /\ n.db.bank = m.db.bank
    /\ n.db.guild = [c \in Character |-> IF c \in S /\ ~InWorld(c) THEN None ELSE m.db.guild[c]]
    /\ n.db.rank = [c \in Character |-> IF c \in S /\ ~InWorld(c) THEN 0 ELSE m.db.rank[c]]
    /\ \A p \in Object \ {o} : n.object[p] = m.object[p]
    /\ n.object[o].members = q /\ n.object[o].tag = m.object[o].tag
    /\ n.object[o].bank = m.object[o].bank /\ n.object[o].needs_save = m.object[o].needs_save

\* In which order the two are done makes no difference.
LEMMA LeavesWithout ==
    ASSUME NEW m, NEW S, NEW o \in Object, NEW q, Sound(m)
    PROVE  /\ Without(m, DelMembers(WithList(m, o, q), S), S, o, q)
           /\ Without(m, WithList(DelMembers(m, S), o, q), S, o, q)
<1> DEFINE l == WithList(m, o, q)
           d == DelMembers(m, S)
           n == DelMembers(l, S)
           k == WithList(d, o, q)
<1>1. Sound(l) /\ Sound(d)
    BY ListSound, DelMembersSound DEF WithList
<1>2. /\ l.guild = m.guild /\ l.rank = m.rank /\ l.cache = m.cache /\ l.db = m.db
      /\ \A p \in Object \ {o} : l.object[p] = m.object[p]
      /\ l.object[o].members = q /\ l.object[o].tag = m.object[o].tag
      /\ l.object[o].bank = m.object[o].bank
      /\ l.object[o].needs_save = m.object[o].needs_save
    BY ListFields
<1>3. /\ d.guild = [c \in Character |-> IF c \in S /\ InWorld(c) THEN None ELSE m.guild[c]]
      /\ d.rank = [c \in Character |-> IF c \in S /\ InWorld(c) THEN 0 ELSE m.rank[c]]
      /\ d.object = m.object /\ d.cache = m.cache
      /\ d.db.guilds = m.db.guilds /\ d.db.bank = m.db.bank
      /\ d.db.guild = [c \in Character |-> IF c \in S /\ ~InWorld(c) THEN None ELSE m.db.guild[c]]
      /\ d.db.rank = [c \in Character |-> IF c \in S /\ ~InWorld(c) THEN 0 ELSE m.db.rank[c]]
    BY DelMembersFields
<1> HIDE DEF l, d
<1>4. Without(m, n, S, o, q)
    <2>1. /\ n.guild = [c \in Character |-> IF c \in S /\ InWorld(c) THEN None ELSE l.guild[c]]
          /\ n.rank = [c \in Character |-> IF c \in S /\ InWorld(c) THEN 0 ELSE l.rank[c]]
          /\ n.object = l.object /\ n.cache = l.cache
          /\ n.db.guilds = l.db.guilds /\ n.db.bank = l.db.bank
          /\ n.db.guild = [c \in Character |-> IF c \in S /\ ~InWorld(c) THEN None ELSE l.db.guild[c]]
          /\ n.db.rank = [c \in Character |-> IF c \in S /\ ~InWorld(c) THEN 0 ELSE l.db.rank[c]]
        BY <1>1, DelMembersFields
    <2> HIDE DEF n
    <2>2. /\ n.guild = [c \in Character |-> IF c \in S /\ InWorld(c) THEN None ELSE m.guild[c]]
          /\ n.rank = [c \in Character |-> IF c \in S /\ InWorld(c) THEN 0 ELSE m.rank[c]]
        BY <1>2, <2>1
    <2>3. /\ n.db.guild = [c \in Character |-> IF c \in S /\ ~InWorld(c) THEN None ELSE m.db.guild[c]]
          /\ n.db.rank = [c \in Character |-> IF c \in S /\ ~InWorld(c) THEN 0 ELSE m.db.rank[c]]
        BY <1>2, <2>1
    <2>4. n.cache = m.cache /\ n.db.guilds = m.db.guilds /\ n.db.bank = m.db.bank
        BY <1>2, <2>1
    <2>5. /\ \A p \in Object \ {o} : n.object[p] = m.object[p]
          /\ n.object[o].members = q /\ n.object[o].tag = m.object[o].tag
          /\ n.object[o].bank = m.object[o].bank
          /\ n.object[o].needs_save = m.object[o].needs_save
        BY <1>2, <2>1
    <2> QED BY Zenon, <2>2, <2>3, <2>4, <2>5 DEF Without
<1>5. Without(m, k, S, o, q)
    <2>1. /\ k.guild = d.guild /\ k.rank = d.rank /\ k.cache = d.cache /\ k.db = d.db
          /\ \A p \in Object \ {o} : k.object[p] = d.object[p]
          /\ k.object[o].members = q /\ k.object[o].tag = d.object[o].tag
          /\ k.object[o].bank = d.object[o].bank
          /\ k.object[o].needs_save = d.object[o].needs_save
        BY <1>1, ListFields
    <2> HIDE DEF k
    <2>2. /\ k.guild = [c \in Character |-> IF c \in S /\ InWorld(c) THEN None ELSE m.guild[c]]
          /\ k.rank = [c \in Character |-> IF c \in S /\ InWorld(c) THEN 0 ELSE m.rank[c]]
        BY <1>3, <2>1
    <2>3. /\ k.db.guild = [c \in Character |-> IF c \in S /\ ~InWorld(c) THEN None ELSE m.db.guild[c]]
          /\ k.db.rank = [c \in Character |-> IF c \in S /\ ~InWorld(c) THEN 0 ELSE m.db.rank[c]]
        BY <1>3, <2>1
    <2>4. k.cache = m.cache /\ k.db.guilds = m.db.guilds /\ k.db.bank = m.db.bank
        BY <1>3, <2>1
    <2>5. /\ \A p \in Object \ {o} : k.object[p] = m.object[p]
          /\ k.object[o].members = q /\ k.object[o].tag = m.object[o].tag
          /\ k.object[o].bank = m.object[o].bank
          /\ k.object[o].needs_save = m.object[o].needs_save
        BY <1>3, <2>1
    <2> QED BY Zenon, <2>2, <2>3, <2>4, <2>5 DEF Without
<1> QED BY <1>4, <1>5 DEF l, d

\* A smaller guild is left behind.
LEMMA WithoutSettles ==
    ASSUME GuildInv, NEW o \in Object, NEW S, NEW q, NEW n, Without(Memory, n, S, o, q),
           object[o].tag \in Old => q \in Seq(Entry) /\ KeepsOthers(Memory, n, World, o)
    PROVE  Settling(n, World)
<1> USE GuildAssumption
<1> DEFINE m == Memory
<1>1. /\ Sound(m) /\ Settling(m, World) /\ m.object = object /\ m.cache = cache
      /\ Alive(m) /\ m.guild \in [Character -> Object \union {None}]
      /\ m.rank \in [Character -> Nat] /\ m.db.rank \in [Character -> Nat]
    BY DEF GuildInv, IInv, Sound, IsMemory, Settling, Typed, Memory
<1> HIDE DEF m
<1>2. Without(m, n, S, o, q)
    BY DEF m
<1>3. \A c \in Character : n.guild[c] = None \/ (n.guild[c] = m.guild[c] /\ n.rank[c] = m.rank[c])
    BY <1>2 DEF Without
<1>4. n.rank \in [Character -> Nat]
    <2>1. n.rank = [c \in Character |-> IF c \in S /\ InWorld(c) THEN 0 ELSE m.rank[c]]
        BY Zenon, <1>2 DEF Without
    <2> QED BY <1>1, <2>1
<1>5. n.db.rank \in [Character -> Nat]
    <2>1. n.db.rank = [c \in Character |-> IF c \in S /\ ~InWorld(c) THEN 0 ELSE m.db.rank[c]]
        BY Zenon, <1>2 DEF Without
    <2> QED BY <1>1, <2>1
<1>6. \A c \in Character : \/ n.db.guild[c] = None
                           \/ n.db.guild[c] = m.db.guild[c] /\ n.db.rank[c] = m.db.rank[c]
    BY <1>2 DEF Without
<1>7. Shrinks(m, n, o)
    BY Zenon, <1>2, <1>3, <1>4, <1>5, <1>6 DEF Shrinks, Without
<1>8. m.object[o].tag \in Old => n.object[o].members \in Seq(Entry) /\ KeepsOthers(m, n, World, o)
    BY Zenon, <1>1, <1>2 DEF m, Without
<1> QED BY <1>1, <1>7, <1>8, ShrinkSettles

LEMMA WithoutGold ==
    ASSUME NEW m, NEW n, NEW S, NEW o \in Object, NEW q, Without(m, n, S, o, q), IsMemory(m)
    PROVE  KeepsGold(m, n) /\ n.db.guilds = m.db.guilds
<1>1. /\ n.cache = m.cache /\ n.db.guilds = m.db.guilds /\ n.db.bank = m.db.bank
      /\ \A p \in Object : n.object[p].bank = m.object[p].bank
    BY DEF Without
<1> QED BY <1>1, SameGold

\* Expelling somebody who is not loaded, or is in the world and has the guild.
LEMMA ExpelSettles ==
    ASSUME GuildInv, NEW o \in Object, NEW c \in Character,
           place[c] = "Away" \/ (InWorld(c) /\ guild[c] = o)
    PROVE  LET n == DelMember(Memory, o, c)
           IN  Settling(n, World) /\ KeepsGold(Memory, n) /\ n.db.guilds = database.guilds
<1> USE GuildAssumption
<1> DEFINE m == Memory
           s == object[o].members
           q == Rest(s, c)
           n == DelMember(m, o, c)
<1>1. /\ Sound(m) /\ m.object = object /\ m.guild = guild /\ m.db = database
      /\ \A e \in Character : place[e] = "Away" => guild[e] = None
      /\ \A p \in Object : object[p].tag \in Old => object[p].members \in Seq(Entry)
    BY DEF GuildInv, IInv, Apart, Settling, Typed, Memory
<1>2. n = DelMembers(WithList(m, o, q), {c})
    BY DEF DelMember, Unlisted, WithList, Memory, Rest
<1> HIDE DEF s
<1>3. ASSUME object[o].tag \in Old
      PROVE  /\ q \in Seq(Entry)
             /\ \A i \in 1..Len(s) : s[i].name # c => \E j \in 1..Len(q) : q[j] = s[i]
    <2>1. s \in Seq(Entry)
        BY <1>1, <1>3 DEF s
    <2> QED BY <2>1, MemberRemoved
<1> HIDE DEF m, q, n
<1>4. Without(m, n, {c}, o, q)
    BY <1>1, <1>2, LeavesWithout
<1>5. /\ n.guild = [e \in Character |-> IF e \in {c} /\ InWorld(e) THEN None ELSE guild[e]]
      /\ n.db.guild = [e \in Character |-> IF e \in {c} /\ ~InWorld(e) THEN None ELSE database.guild[e]]
      /\ n.object[o].members = q
    BY Zenon, <1>1, <1>4 DEF Without
<1>6. ASSUME object[o].tag \in Old PROVE KeepsOthers(m, n, World, o)
    <2>1. ASSUME NEW e \in Character, n.guild[e] = o \/ (e \notin World /\ n.db.guild[e] = object[o].tag)
          PROVE  e # c
        <3>1. CASE place[c] = "Away"
            BY <1>1, <1>5, <1>6, <2>1, <3>1 DEF InWorld, Old
        <3>2. CASE InWorld(c)
            BY <1>5, <2>1, <3>2 DEF World
        <3> QED BY <3>1, <3>2
    <2>2. ASSUME NEW e \in Character, e # c, NEW r, Lists(m, o, e, r) PROVE Lists(n, o, e, r)
        <3>1. m.object[o].members = s /\ n.object[o].members = q
            BY <1>1, <1>5 DEF s
        <3>2. \A i \in 1..Len(s) : s[i].name = e => \E j \in 1..Len(q) : q[j] = s[i]
            BY <1>3, <1>6, <2>2
        <3> QED BY <2>2, <3>1, <3>2, StillLists
    <2> QED BY <1>1, <2>1, <2>2 DEF KeepsOthers
<1>7. Settling(n, World)
    BY <1>3, <1>4, <1>6, WithoutSettles DEF m
<1>8. KeepsGold(m, n) /\ n.db.guilds = m.db.guilds
    BY <1>1, <1>4, WithoutGold DEF Sound
<1> QED BY <1>1, <1>7, <1>8 DEF m, n

\* Disbanding a guild whose members are not loaded or are in the world and have it: all
\* lose it who refer to it.
LEMMA DisbandSettles ==
    ASSUME GuildInv, NEW c \in Character, guild[c] # None,
           \A d \in Character : GetMember(guild[c], d) # 0 =>
               place[d] = "Away" \/ (InWorld(d) /\ guild[d] = guild[c]),
           NEW n \in Disband(Memory, guild[c])
    PROVE  Settling(n, World) /\ KeepsGold(Memory, n) /\ n.db.guilds = database.guilds
<1> USE GuildAssumption
<1> DEFINE m == Memory
           o == guild[c]
           list == m.object[o].members
           users == {d \in Character : m.guild[d] = o}
           names == {e.name : e \in ToSet(list)}
           first(i) == {list[j].name : j \in 1..i}
           destroyed == \A d \in users : InWorld(d) /\ d \in names
           end == IF destroyed
                  THEN CHOOSE i \in DOMAIN list : users \subseteq first(i) /\ ~(users \subseteq first(i - 1))
                  ELSE Len(list)
           q == SubSeq(list, end + 1, Len(list))
<1>1. /\ Sound(m) /\ m.object = object /\ m.guild = guild /\ m.db = database
      /\ \A e \in Character : place[e] = "Away" => guild[e] = None
      /\ \A p \in Object : object[p].tag \in Old => object[p].members \in Seq(Entry)
      /\ o \in Object /\ Listing(m)
    BY DEF GuildInv, IInv, Apart, Settling, Typed, Memory, Sound, IsMemory
<1>2. PICK more : more \in SUBSET (names \ first(end))
                  /\ n = [DelMembers(m, first(end) \union more) EXCEPT !.object[o].members = q]
    BY Zenon DEF Disband
<1> DEFINE S == first(end) \union more
<1> HIDE DEF m, q, S
<1>3. n = WithList(DelMembers(m, S), o, q)
    BY <1>2 DEF WithList, S
<1>4. Without(m, n, S, o, q)
    BY <1>1, <1>3, LeavesWithout
<1>5. n.guild = [e \in Character |-> IF e \in S /\ InWorld(e) THEN None ELSE guild[e]]
    BY Zenon, <1>1, <1>4 DEF Without
<1>6. ASSUME object[o].tag \in Old PROVE q \in Seq(Entry) /\ KeepsOthers(m, n, World, o)
    <2>1. list \in Seq(Entry)
        BY <1>1, <1>6
    <2>2. PICK size \in Nat : size = Len(list)
        BY <2>1
    <2>3. ASSUME NEW e \in users PROVE InWorld(e) /\ e \in names /\ e \in first(size)
        <3>1. Lists(m, o, e, m.rank[e])
            BY <1>1, <1>6 DEF Listing
        <3>2. PICK i \in 1..size : list[i].name = e
            BY Zenon, <2>2, <3>1 DEF Lists
        <3>3. list[i] \in ToSet(list)
            BY <2>1, <2>2 DEF ToSet
        <3>4. GetMember(o, e) # 0
            <4> DEFINE s == object[o].members
            <4>1. s = list /\ s \in Seq(Entry)
                BY <1>1, <2>1
            <4> HIDE DEF s
            <4>2. \E j \in 1..Len(s) : s[j].name = e
                BY <2>2, <3>2, <4>1
            <4>3. Found(s, e) \in 1..Len(s)
                BY <4>1, <4>2, MemberFound
            <4> QED BY <4>1, <4>3 DEF GetMember, Found, s
        <3>5. guild[e] = o /\ e \in Character
            BY <1>1
        <3>6. InWorld(e)
            BY <1>1, <3>4, <3>5
        <3> QED BY <3>2, <3>3, <3>6
    <2>4. c \in users
        BY <1>1
    <2>5. destroyed
        BY <2>3
    <2>6. first(0) = {}
        OBVIOUS
    <2>7. users \subseteq first(size)
        BY <2>3
    <2>8. DOMAIN list = 1..size
        BY <2>1, <2>2
    <2>9. end = CHOOSE i \in DOMAIN list : users \subseteq first(i) /\ ~(users \subseteq first(i - 1))
        BY <2>5
    <2> HIDE DEF users, names, list, first, destroyed, end
    <2>10. end \in 1..size /\ users \subseteq first(end)
        <3> DEFINE E == {i \in 1..size : users \subseteq first(i)}
        <3>1. size # 0
            BY <2>4, <2>6, <2>7
        <3>2. size \in E /\ E \subseteq Nat
            BY <2>2, <2>7, <3>1
        <3>3. PICK k \in E : \A i \in E : k <= i
            <4> HIDE DEF E
            <4> QED BY <3>2, LeastNatural
        <3>4. k \in 1..size /\ users \subseteq first(k)
            BY <3>3
        <3>5. ~(users \subseteq first(k - 1))
            <4>1. CASE k = 1
                <5>1. k - 1 = 0
                    BY <4>1
                <5> QED BY <2>4, <2>6, <5>1
            <4>2. CASE k # 1
                <5>1. k - 1 \in 1..size /\ ~(k <= k - 1)
                    BY <2>2, <3>4, <4>2
                <5> QED BY <3>3, <5>1
            <4> QED BY <4>1, <4>2
        <3> HIDE DEF E
        <3> QED BY <2>8, <2>9, <3>4, <3>5
    <2>11. q \in Seq(Entry)
        <3> HIDE DEF Entry
        <3> QED BY <2>1, <2>2, <2>10 DEF q, list
    <2>12. ASSUME NEW e \in Character, n.guild[e] = o PROVE FALSE
        <3>1. n.guild[e] = IF e \in S /\ InWorld(e) THEN None ELSE guild[e]
            BY <1>5
        <3>2. guild[e] = o /\ ~(e \in S /\ InWorld(e))
            BY <1>1, <2>12, <3>1
        <3>3. e \in users
            BY <1>1, <3>2 DEF users
        <3>4. e \in S
            BY <2>10, <3>3 DEF S
        <3> QED BY <2>3, <3>2, <3>3, <3>4 DEF users
    <2>13. KeepsOthers(m, n, World, o)
        BY <2>12 DEF KeepsOthers
    <2> QED BY <2>11, <2>13
<1>7. Settling(n, World)
    BY <1>1, <1>4, <1>6, WithoutSettles DEF m
<1>8. KeepsGold(m, n) /\ n.db.guilds = m.db.guilds
    BY <1>1, <1>4, WithoutGold DEF Sound
<1> QED BY <1>1, <1>7, <1>8 DEF m

\* Handlers that end with what they have settled in memory.
LEMMA BecomesSettles ==
    ASSUME NEW n, Sound(n), Settling(n, World), Becomes(n), UNCHANGED <<place, guild_create>>,
           DraftsFounding, KeepsGold(Memory, n)
    PROVE  Settling(Memory', World') /\ DraftsFounding' /\ KeepsGold(Memory, Memory')
<1>1. Memory' = n
    BY BecomesMemory DEF Sound
<1>2. World' = World
    BY DEF World, InWorld
<1>3. DraftsFounding'
    BY DEF DraftsFounding
<1> QED BY <1>1, <1>2, <1>3

\* The same with objects released.
LEMMA ReleaseStepSettles ==
    ASSUME NEW m, Sound(m), Settling(m, World), Becomes(Release(m)),
           UNCHANGED <<place, guild_create>>, DraftsFounding,
           KeepsGold(Memory, m), m.db.guilds = database.guilds
    PROVE  Settling(Memory', World') /\ DraftsFounding' /\ KeepsGold(Memory, Memory')
<1> DEFINE n == Release(m)
<1>1. Sound(n) /\ Settling(n, World) /\ KeepsGold(m, n)
    BY ReleaseSound, ReleaseSettles, ReleaseGold
<1> HIDE DEF n
<1>2. Becomes(n)
    BY DEF n
<1>3. KeepsGold(Memory, n)
    <2> DEFINE old == Memory
    <2>1. old.db.guilds = m.db.guilds
        BY DEF Memory
    <2> HIDE DEF old
    <2>2. KeepsGold(old, n)
        BY <1>1, <2>1, GoldTwice DEF old
    <2> QED BY <2>2 DEF old
<1> QED BY <1>1, <1>2, <1>3, BecomesSettles

\* Handlers that look at a guild.
LEMMA TellSettles ==
    ASSUME GuildInv, NEW t \in Tag, Becomes(Glance(Memory, t)), UNCHANGED <<place, guild_create>>
    PROVE  Settling(Memory', World') /\ DraftsFounding' /\ KeepsGold(Memory, Memory')
<1> DEFINE m == Memory
           n == Glance(m, t)
<1>1. Sound(m) /\ Settling(m, World) /\ Referred(m) /\ DraftsFounding
    BY DEF GuildInv, IInv
<1> HIDE DEF m
<1>2. Sound(n) /\ Settling(n, World) /\ KeepsGold(m, n)
    BY <1>1, GlanceSound, GlanceSettles, GlanceGold
<1> HIDE DEF n
<1>3. Becomes(n)
    BY DEF n, m
<1> QED BY <1>1, <1>2, <1>3, BecomesSettles DEF m

\* A request to found a guild.
LEMMA RequestSettles ==
    ASSUME GuildInv, NEW c \in Character, NEW t \in Tag, NEW near \in SUBSET Character,
           Guild_Request(c, t, near)
    PROVE  Settling(Memory', World') /\ DraftsFounding' /\ KeepsGold(Memory, Memory')
<1> USE GuildAssumption
<1>1. CASE Exists(t)
    BY <1>1, TellSettles DEF Guild_Request
<1>2. CASE ~Exists(t)
    <2> DEFINE old == guild_create[c]
               m == Memory
               k == Memory'
    <2>1. /\ t \in Founding /\ UNCHANGED <<guild, guild_rank, object, database, place>>
          /\ guild_create' = [guild_create EXCEPT ![c] = [tag |-> t, members |-> <<c>>]]
          /\ cache' = IF old.tag = None THEN cache ELSE [cache EXCEPT ![old.tag] = None]
        BY <1>2 DEF Guild_Request
    <2>2. \A u \in Old : cache'[u] = cache[u]
        BY <2>1 DEF GuildInv, DraftsFounding, Old, IInv, Sound, IsMemory, Memory
    <2>3. /\ k.guild = m.guild /\ k.rank = m.rank /\ k.object = m.object /\ k.db = m.db
          /\ \A u \in Old : k.cache[u] = m.cache[u]
        BY <2>1, <2>2 DEF Memory
    <2>8. IsMemory(m)
        BY DEF GuildInv, IInv, Sound
    <2>4. Settling(m, World) /\ m.db.bank = [u \in Tag |-> m.db.bank[u]]
        BY DEF GuildInv, Settling, Typed
    <2> HIDE DEF m, k
    <2>5. Settling(k, World)
        BY <2>3, <2>4, FoundingSettles
    <2>6. World' = World
        BY <2>1 DEF World, InWorld
    <2>7. DraftsFounding'
        <3>1. \A d \in Character : guild_create'[d] \in {[tag |-> t, members |-> <<c>>], guild_create[d]}
            BY <2>1 DEF GuildInv, IInv, Drafts
        <3> QED BY <2>1, <3>1 DEF GuildInv, DraftsFounding
    <2>9. KeepsGold(m, k)
        BY <2>3, <2>8, SameGold
    <2> QED BY <2>5, <2>6, <2>7, <2>9 DEF k, m
<1> QED BY <1>1, <1>2

\* A character c with the rank r comes to the object o, whose list becomes q.
MemberAdded(m, n, o, c, r, q) ==
    /\ n.guild = [m.guild EXCEPT ![c] = o] /\ n.rank = [m.rank EXCEPT ![c] = r]
    /\ n.object = WithList(m, o, q).object /\ n.cache = m.cache /\ n.db = m.db

\* What a member who joins changes.
LEMMA AddMemberFields ==
    ASSUME NEW m, NEW o \in Object, NEW c \in Character, NEW r, Sound(m),
           NEW q, q = Append(m.object[o].members, [name |-> c, rank |-> r])
    PROVE  MemberAdded(m, AddMember(m, o, c, r), o, c, r, q)
<1> DEFINE pointers == [m.guild EXCEPT ![c] = o]
           ranks == [m.rank EXCEPT ![c] = r]
           l == WithList(m, o, q)
           n == AddMember(m, o, c, r)
<1>1. n = [l EXCEPT !.guild = pointers, !.rank = ranks]
    BY DEF AddMember, WithList, Sound, IsMemory
<1> HIDE DEF pointers, ranks, n
<1>2. Sound(l) /\ l.cache = m.cache /\ l.db = m.db
    <2>1. Sound(l)
        BY ListSound DEF WithList
    <2>2. l.cache = m.cache /\ l.db = m.db
        BY ListFields
    <2> QED BY <2>1, <2>2
<1> HIDE DEF l
<1>3. n = [guild |-> pointers, rank |-> ranks, object |-> l.object, cache |-> l.cache, db |-> l.db]
    BY <1>1, <1>2 DEF Sound, IsMemory
<1>4. /\ n.guild = pointers /\ n.rank = ranks /\ n.object = l.object /\ n.cache = l.cache
      /\ n.db = l.db
    BY <1>3
<1> QED BY <1>2, <1>4 DEF pointers, ranks, n, l, MemberAdded

\* Who is listed stays listed when somebody is appended.
LEMMA AppendLists ==
    ASSUME NEW m, NEW n, NEW o, m.object[o].members \in Seq(Entry), NEW e \in Entry,
           n.object[o].members = Append(m.object[o].members, e)
    PROVE  /\ n.object[o].members \in Seq(Entry)
           /\ \A c, r : Lists(m, o, c, r) => Lists(n, o, c, r)
           /\ Lists(n, o, e.name, e.rank)
<1> DEFINE s == m.object[o].members
           q == n.object[o].members
<1>1. PICK size \in Nat : size = Len(s)
    OBVIOUS
<1>2. /\ q \in Seq(Entry) /\ Len(q) = size + 1 /\ q[size + 1] = e
      /\ \A i \in 1..size : q[i] = s[i]
    <2> HIDE DEF Entry, s, q
    <2>1. q = Append(s, e) /\ s \in Seq(Entry)
        BY DEF s, q
    <2> QED BY <1>1, <2>1
<1>3. ASSUME NEW c, NEW r, Lists(m, o, c, r) PROVE Lists(n, o, c, r)
    <2>1. \A i \in 1..Len(s) : s[i].name = c => \E j \in 1..Len(q) : q[j] = s[i]
        <3> HIDE DEF s, q
        <3>1. \A i \in 1..size : i \in 1..(size + 1)
            OBVIOUS
        <3> QED BY <1>1, <1>2, <3>1
    <2> QED BY <1>3, <2>1, StillLists
<1>4. Lists(n, o, e.name, e.rank)
    <2>1. size + 1 \in 1..Len(q)
        BY <1>1, <1>2
    <2> QED BY <1>2, <2>1 DEF Lists
<1> QED BY <1>2, <1>3, <1>4

\* The object o becomes g and lists as many as before, and those of J with their new ranks.
KeepsListing(n, J, o, g, ranks) ==
    object[o].tag \in Old =>
        /\ g.members \in Seq(Entry) /\ g.needs_save \in BOOLEAN
        /\ \A d \in Character \ J : \A r : Lists(Memory, o, d, r) => Lists(n, o, d, r)
        /\ \A d \in J : Lists(n, o, d, ranks[d])
        /\ g.needs_save = FALSE => object[o].needs_save = FALSE /\ g.bank = object[o].bank

\* The guild of c becomes g, and its members J get the ranks they have in ranks.
Edits(c, J, g, ranks) ==
    /\ object' = [object EXCEPT ![guild[c]] = g] /\ g.tag = object[guild[c]].tag
    /\ guild_rank' = ranks /\ ranks \in [Character -> Nat]
    /\ \A d \in Character \ J : ranks[d] = guild_rank[d]
    /\ \A d \in J : guild[d] = guild[c]
    /\ UNCHANGED <<guild, cache, database, place, guild_create>>

\* What is changed about a guild whose members stay listed.
LEMMA EditSettles ==
    ASSUME GuildInv, NEW c \in Character, guild[c] # None, NEW J \in SUBSET World, NEW n,
           NEW g, NEW ranks, Edits(c, J, g, ranks), n = Memory',
           KeepsListing(n, J, guild[c], g, ranks)
    PROVE  Settling(Memory', World') /\ DraftsFounding'
<1> USE GuildAssumption DEF Edits
<1> DEFINE o == guild[c]
           m == Memory
<1>1. /\ m.guild = guild /\ m.rank = guild_rank /\ m.object = object /\ m.cache = cache
      /\ m.db = database
      /\ o \in Object /\ guild \in [Character -> Object \union {None}]
      /\ object = [p \in Object |-> object[p]]
      /\ Alive(m) /\ Settling(m, World) /\ DraftsFounding
    BY DEF GuildInv, IInv, Sound, IsMemory, Memory
<1>2. /\ n.guild = guild /\ n.rank = ranks /\ n.object = [object EXCEPT ![o] = g]
      /\ n.cache = cache /\ n.db = database
    BY DEF Memory
<1>3. n.object[o] = g /\ \A p \in Object \ {o} : n.object[p] = object[p]
    BY <1>1, <1>2
<1> HIDE DEF m, o
<1>4. o = guild[c]
    BY DEF o
<1>5. n.guild = [d \in Character |-> IF d \in J THEN o ELSE m.guild[d]]
    BY <1>1, <1>2, <1>4
<1>6. Joins(m, n, J, o)
    BY <1>1, <1>2, <1>3, <1>4, <1>5 DEF Joins
<1>7. ASSUME m.object[o].tag \in Old PROVE StaysListing(m, n, J, o)
    <2>1. o # None /\ object[o].tag \in Old
        BY <1>1, <1>4, <1>7
    <2>2. object[o].tag \in database.guilds
        BY <1>1, <1>4, <2>1 DEF Settling, Listing
    <2>3. /\ n.object[o].members \in Seq(Entry) /\ n.object[o].needs_save \in BOOLEAN
          /\ n.object[o].needs_save = FALSE =>
                m.object[o].needs_save = FALSE /\ n.object[o].bank = m.object[o].bank
        BY <1>1, <1>3, <1>4, <2>1 DEF KeepsListing
    <2>4. /\ \A d \in Character \ J : \A r : Lists(m, o, d, r) => Lists(n, o, d, r)
          /\ \A d \in J : Lists(n, o, d, n.rank[d])
        BY Zenon, <1>2, <1>4, <2>1 DEF m, KeepsListing
    <2> QED BY <1>1, <1>4, <2>1, <2>2, <2>3, <2>4 DEF StaysListing
<1>8. Settling(n, World)
    BY <1>1, <1>6, <1>7, JoinSettles
<1>9. World' = World /\ DraftsFounding'
    BY <1>1 DEF World, InWorld, DraftsFounding
<1> QED BY <1>8, <1>9

LEMMA EditGold ==
    ASSUME GuildInv, NEW c \in Character, guild[c] # None, NEW g,
           object' = [object EXCEPT ![guild[c]] = g], g.bank = object[guild[c]].bank,
           UNCHANGED <<cache, database>>
    PROVE  KeepsGold(Memory, Memory')
<1> DEFINE m == Memory
           n == Memory'
<1>1. /\ IsMemory(m) /\ object = [o \in Object |-> object[o]]
      /\ m.object = object /\ m.cache = cache /\ m.db = database
      /\ n.object = object' /\ n.cache = cache' /\ n.db = database'
    BY DEF GuildInv, IInv, Sound, IsMemory, Memory
<1> HIDE DEF m, n
<1>2. \A o \in Object : n.object[o].bank = m.object[o].bank
    BY <1>1
<1>3. KeepsGold(m, n)
    BY <1>1, <1>2, SameGold
<1> QED BY <1>3 DEF m, n

\* A deposit, and another change that marks the guild.
LEMMA MarkedSettles ==
    ASSUME GuildInv, NEW c \in Character, guild[c] # None, NEW g,
           object' = [object EXCEPT ![guild[c]] = g],
           g.tag = object[guild[c]].tag, g.members = object[guild[c]].members, g.needs_save = TRUE,
           UNCHANGED <<guild, guild_rank, cache, database, place, guild_create>>
    PROVE  Settling(Memory', World') /\ DraftsFounding'
<1> DEFINE o == guild[c]
           n == Memory'
<1>1. /\ guild_rank \in [Character -> Nat] /\ o \in Object
      /\ object = [p \in Object |-> object[p]]
      /\ object[o].tag \in Old => object[o].members \in Seq(Entry)
    BY DEF GuildInv, IInv, Sound, IsMemory, Settling, Typed, Memory
<1>2. Memory.object[o].members = n.object[o].members
    BY <1>1 DEF Memory
<1>3. \A d, r : Lists(Memory, o, d, r) => Lists(n, o, d, r)
    <2> HIDE DEF n
    <2> QED BY <1>2, SameLists
<1>4. PICK J \in SUBSET World : J = {}
    OBVIOUS
<1>5. KeepsListing(n, J, o, g, guild_rank)
    BY <1>1, <1>3, <1>4 DEF KeepsListing
<1> HIDE DEF n
<1>6. n = Memory'
    BY DEF n
<1>7. Edits(c, J, g, guild_rank)
    BY <1>1, <1>4 DEF Edits
<1> QED BY <1>4, <1>5, <1>6, <1>7, EditSettles

LEMMA BuySettles ==
    ASSUME GuildInv, NEW c \in Character, NEW gold \in 1..GuildBankMax, Guild_Buy(c, gold)
    PROVE  Settling(Memory', World') /\ DraftsFounding'
<1> DEFINE h == object[guild[c]]
           bank == h.bank + Accepted(h, gold)
           g == [h EXCEPT !.bank = bank, !.needs_save = TRUE]
<1>1. /\ guild[c] # None /\ object' = [object EXCEPT ![guild[c]] = g]
      /\ UNCHANGED <<guild, guild_rank, cache, place, guild_create, database>>
    BY DEF Guild_Buy
<1>2. IsGuild(h)
    BY <1>1 DEF GuildInv, IInv, Sound, IsMemory, Memory
<1> HIDE DEF h, bank
<1>3. g.tag = h.tag /\ g.members = h.members /\ g.needs_save = TRUE
    BY <1>2, PaidFields
<1> HIDE DEF g
<1> QED BY <1>1, <1>3, MarkedSettles DEF h

LEMMA AgreeSettles ==
    ASSUME GuildInv, NEW c \in Character, Guild_Agree(c)
    PROVE  Settling(Memory', World') /\ DraftsFounding' /\ KeepsGold(Memory, Memory')
<1> DEFINE h == object[guild[c]]
           g == [h EXCEPT !.needs_save = TRUE]
<1>1. /\ guild[c] # None /\ object' = [object EXCEPT ![guild[c]] = g]
      /\ UNCHANGED <<guild, guild_rank, cache, place, guild_create, database>>
    BY DEF Guild_Agree
<1>2. IsGuild(h)
    BY <1>1 DEF GuildInv, IInv, Sound, IsMemory, Memory
<1> HIDE DEF h
<1>3. g.tag = h.tag /\ g.members = h.members /\ g.needs_save = TRUE /\ g.bank = h.bank
    BY <1>2, MarkKeepsGuild
<1> HIDE DEF g
<1>4. Settling(Memory', World') /\ DraftsFounding'
    BY <1>1, <1>3, MarkedSettles DEF h
<1>5. KeepsGold(Memory, Memory')
    BY <1>1, <1>3, EditGold DEF h
<1> QED BY <1>4, <1>5

\* A rank that is changed where a member is listed.
Ranked(s, k, r) == [s EXCEPT ![k].rank = r]

RankChanged(s, q, k, c, r) ==
    /\ q \in Seq(Entry) /\ Len(q) = Len(s) /\ q[k].name = c /\ q[k].rank = r
    /\ \A i \in 1..Len(s) : s[i].name # c => q[i] = s[i]

LEMMA RankedList ==
    ASSUME NEW s \in Seq(Entry), NEW c, NEW r \in Nat, NEW k \in 1..Len(s), s[k].name = c
    PROVE  RankChanged(s, Ranked(s, k, r), k, c, r)
<1> DEFINE old == s[k]
           e == [old EXCEPT !.rank = r]
           q == [s EXCEPT ![k] = e]
<1>2. old \in Entry
    <2> HIDE DEF Entry
    <2> QED OBVIOUS
<1>3. old = [name |-> old.name, rank |-> old.rank] /\ old.name = c /\ old.name \in Character
    BY <1>2 DEF Entry
<1> HIDE DEF old
<1>4. e = [name |-> old.name, rank |-> r]
    BY <1>3
<1>5. e \in Entry /\ e.name = c /\ e.rank = r
    BY <1>3, <1>4 DEF Entry
<1> HIDE DEF e, Entry
<1>6. PICK n \in Nat : n = Len(s)
    OBVIOUS
<1>7. q \in Seq(Entry) /\ Len(q) = Len(s) /\ q[k] = e /\ \A i \in 1..Len(s) : i # k => q[i] = s[i]
    BY <1>5, <1>6
<1>8. Ranked(s, k, r) = q
    BY DEF e, old, Ranked
<1> HIDE DEF q
<1> QED BY <1>5, <1>7, <1>8 DEF old, RankChanged

LEMMA RankSettles ==
    ASSUME GuildInv, ActsOnStale = FALSE, NEW c \in Character, NEW d \in Character,
           NEW r \in 0..(MaxRank + 1), Guild_Rank(c, d, r)
    PROVE  Settling(Memory', World') /\ DraftsFounding' /\ KeepsGold(Memory, Memory')
<1> USE GuildAssumption
<1> DEFINE o == guild[c]
           h == object[o]
           s == h.members
           k == GetMember(o, d)
           q == Ranked(s, k, r)
           g == [h EXCEPT !.members = q]
           n == Memory'
           ranks == [guild_rank EXCEPT ![d] = r]
<1>1. /\ o # None /\ k # 0 /\ InWorld(d) /\ guild[d] = o
      /\ object' = [object EXCEPT ![o].members[k].rank = r] /\ guild_rank' = ranks
      /\ UNCHANGED <<guild, cache, place, guild_create, guild_invite, database>>
    BY DEF Guild_Rank, SetMemberRank, MayRank
<1>2. object' = [object EXCEPT ![o] = g]
    BY <1>1 DEF Ranked
<1>3. /\ IsGuild(h) /\ o \in Object /\ object = [p \in Object |-> object[p]]
      /\ guild_rank \in [Character -> Nat]
      /\ h.tag \in Old => s \in Seq(Entry) /\ h.needs_save \in BOOLEAN
    BY <1>1 DEF GuildInv, IInv, Sound, IsMemory, Settling, Typed, Memory
<1> HIDE DEF q
<1>4. g.tag = h.tag /\ g.members = q /\ g.bank = h.bank /\ g.needs_save = h.needs_save
    <2> HIDE DEF h
    <2> QED BY <1>3, ListKeepsGuild
<1> HIDE DEF g
<1>5. ranks \in [Character -> Nat] /\ ranks[d] = r /\ \A e \in Character \ {d} : ranks[e] = guild_rank[e]
    BY <1>3
<1>6. Memory.object[o].members = s /\ n.object[o].members = q
    BY <1>2, <1>3, <1>4 DEF Memory
<1>7. ASSUME h.tag \in Old
      PROVE  /\ q \in Seq(Entry)
             /\ \A e \in Character \ {d} : \A x : Lists(Memory, o, e, x) => Lists(n, o, e, x)
             /\ Lists(n, o, d, r)
    <2> DEFINE m == Memory
    <2>1. s \in Seq(Entry) /\ r \in Nat
        BY <1>3, <1>7
    <2>2. k = Found(s, d)
        BY DEF GetMember, Found
    <2> HIDE DEF s, k
    <2>7. k \in 1..Len(s) /\ s[k].name = d
        BY <1>1, <2>1, <2>2, MemberFound
    <2>3. RankChanged(s, q, k, d, r)
        <3>1. s \in Seq(Entry)
            BY <2>1
        <3>2. r \in Nat
            BY <2>1
        <3>3. k \in 1..Len(s)
            BY <2>7
        <3>4. s[k].name = d
            BY <2>7
        <3> QED BY Zenon, <3>1, <3>2, <3>3, <3>4, RankedList DEF q
    <2> HIDE DEF m, n
    <2>4. m.object[o].members = s /\ n.object[o].members = q
        BY <1>6 DEF m
    <2>5. ASSUME NEW e \in Character \ {d}, NEW x, Lists(m, o, e, x) PROVE Lists(n, o, e, x)
        <3>1. \A i \in 1..Len(s) : s[i].name = e => \E j \in 1..Len(q) : q[j] = s[i]
            BY <2>3 DEF RankChanged
        <3> QED BY <2>4, <2>5, <3>1, StillLists
    <2>6. Lists(n, o, d, r)
        BY <2>3, <2>4, <2>7 DEF Lists, RankChanged
    <2> QED BY <2>3, <2>5, <2>6 DEF m, RankChanged
<1>8. PICK J \in SUBSET World : J = {d}
    BY <1>1 DEF World
<1> HIDE DEF n
<1>9. KeepsListing(n, J, o, g, ranks)
    BY <1>3, <1>4, <1>5, <1>7, <1>8 DEF KeepsListing
<1>10. \A e \in Character \ J : ranks[e] = guild_rank[e]
    BY <1>5, <1>8
<1>11. \A e \in J : guild[e] = o
    BY <1>1, <1>8
<1>12. n = Memory'
    BY DEF n
<1>13. Edits(c, J, g, ranks)
    BY <1>1, <1>2, <1>4, <1>5, <1>10, <1>11 DEF Edits
<1>14. guild[c] # None
    BY <1>1
<1>15. KeepsGold(Memory, Memory')
    BY <1>1, <1>2, <1>4, EditGold
<1> HIDE DEF ranks
<1>16. Settling(Memory', World') /\ DraftsFounding'
    BY <1>9, <1>12, <1>13, <1>14, EditSettles
<1> QED BY <1>15, <1>16

\* A member lets somebody join.
LEMMA UseSettles ==
    ASSUME GuildInv, NEW c \in Character, NEW j \in Character, Guild_Use(c, j)
    PROVE  Settling(Memory', World') /\ DraftsFounding'
<1> USE GuildAssumption
<1> DEFINE o == guild[c]
           m == Memory
           q == Append(m.object[o].members, [name |-> j, rank |-> MaxRank])
           l == WithList(m, o, q)
           a == AddMember(m, o, j, MaxRank)
           h == a.object[o]
           bank == h.bank - RecruitCost
           g == [h EXCEPT !.bank = bank, !.needs_save = TRUE]
           n == [a EXCEPT !.object[o] = g]
           k == Memory'
<1>1. /\ o # None /\ InWorld(j) /\ Becomes(n)
      /\ UNCHANGED <<place, guild_join, guild_invite, guild_create, create_cache>>
    BY DEF Guild_Use
<1>2. /\ m.guild = guild /\ m.rank = guild_rank /\ m.object = object /\ m.cache = cache
      /\ m.db = database /\ o \in Object /\ guild \in [Character -> Object \union {None}]
      /\ guild_rank \in [Character -> Nat]
      /\ Sound(m) /\ Alive(m) /\ Settling(m, World) /\ DraftsFounding
      /\ object[o].tag \in Old => object[o].members \in Seq(Entry)
    BY <1>1 DEF GuildInv, IInv, Sound, IsMemory, Settling, Typed, Memory
<1>3. /\ k.guild = guild' /\ k.rank = guild_rank' /\ k.object = object' /\ k.cache = cache'
      /\ k.db = database'
    BY DEF Memory
<1> HIDE DEF m, k, o, q
<1>4. /\ a.guild = [m.guild EXCEPT ![j] = o] /\ a.rank = [m.rank EXCEPT ![j] = MaxRank]
      /\ a.object = l.object /\ a.cache = m.cache /\ a.db = m.db
    <2>1. Sound(m) /\ q = Append(m.object[o].members, [name |-> j, rank |-> MaxRank])
        BY <1>2 DEF q
    <2>2. o \in Object
        BY <1>2
    <2>3. MemberAdded(m, a, o, j, MaxRank, q)
        BY <2>1, <2>2, AddMemberFields
    <2> HIDE DEF a
    <2> QED BY <2>3 DEF MemberAdded
<1>5. Sound(a)
    <2>1. m.object[o].tag # None
        BY <1>1, <1>2 DEF Sound, Used, o
    <2> QED BY <1>2, <2>1, AddMemberSound
<1>6. /\ \A p \in Object \ {o} : l.object[p] = m.object[p]
      /\ l.object[o].members = q /\ l.object[o].tag = m.object[o].tag
    BY <1>2, ListFields
<1> HIDE DEF l, a
<1>7. IsGuild(h)
    BY <1>2, <1>5 DEF Sound, IsMemory
<1> HIDE DEF h, bank
<1>8. g.tag = h.tag /\ g.members = h.members /\ g.needs_save = TRUE
    BY <1>7, PaidFields
<1> HIDE DEF g
<1>9. /\ n.guild = a.guild /\ n.rank = a.rank /\ n.object = [a.object EXCEPT ![o] = g]
      /\ n.cache = a.cache /\ n.db = a.db
    BY <1>5 DEF Sound, IsMemory
<1>10. n.object[o] = g /\ \A p \in Object \ {o} : n.object[p] = a.object[p]
    BY <1>2, <1>5, <1>9 DEF Sound, IsMemory
<1>11. /\ k.guild = n.guild /\ k.rank = n.rank /\ k.object = n.object /\ k.cache = n.cache
       /\ k.db = n.db
    BY <1>1, <1>3 DEF Becomes
<1> HIDE DEF n
<1>12. /\ k.object[o].members = q /\ k.object[o].tag = m.object[o].tag
       /\ k.object[o].needs_save = TRUE
       /\ \A p \in Object \ {o} : k.object[p] = m.object[p]
    BY <1>4, <1>6, <1>8, <1>10, <1>11 DEF h
<1>13. PICK J \in SUBSET World : J = {j}
    BY <1>1 DEF World
<1>14. Joins(m, k, J, o)
    <2>1. k.guild = [d \in Character |-> IF d \in J THEN o ELSE m.guild[d]]
        BY <1>2, <1>4, <1>9, <1>11, <1>13
    <2>2. k.rank \in [Character -> Nat] /\ k.rank[j] = MaxRank
          /\ \A d \in Character \ J : k.rank[d] = m.rank[d]
        BY <1>2, <1>4, <1>9, <1>11, <1>13
    <2>3. k.cache = m.cache /\ k.db = m.db
        BY <1>4, <1>9, <1>11
    <2> QED BY <1>12, <2>1, <2>2, <2>3 DEF Joins
<1>15. ASSUME m.object[o].tag \in Old PROVE StaysListing(m, k, J, o)
    <2>1. m.object[o].tag \in m.db.guilds /\ \E d \in Character : m.guild[d] = o
        BY <1>1, <1>2, <1>15 DEF Settling, Listing, o
    <2>2. PICK e \in Entry : e = [name |-> j, rank |-> MaxRank]
        BY DEF Entry
    <2>3. m.object[o].members \in Seq(Entry)
        BY <1>2, <1>15
    <2>4. k.object[o].members = Append(m.object[o].members, e)
        BY <1>12, <2>2 DEF q
    <2>5. /\ k.object[o].members \in Seq(Entry)
          /\ \A d, r : Lists(m, o, d, r) => Lists(k, o, d, r)
          /\ Lists(k, o, e.name, e.rank)
        BY <2>3, <2>4, AppendLists
    <2>6. e.name = j /\ e.rank = MaxRank /\ k.rank[j] = MaxRank
        BY <1>2, <1>4, <1>9, <1>11, <2>2
    <2>7. \A d \in J : Lists(k, o, d, k.rank[d])
        BY <1>13, <2>5, <2>6
    <2> QED BY <1>12, <2>1, <2>5, <2>7 DEF StaysListing
<1>16. Settling(k, World)
    <2>1. m.guild \in [Character -> Object \union {None}]
        BY <1>2
    <2> QED BY <1>2, <1>14, <1>15, <2>1, JoinSettles
<1>17. World' = World /\ DraftsFounding'
    BY <1>1, <1>2 DEF World, InWorld, DraftsFounding
<1> QED BY <1>16, <1>17 DEF k

\* The timed save.
LEMMA TimedSaveSettles ==
    ASSUME GuildInv, TimedSave
    PROVE  Settling(Memory', World') /\ DraftsFounding' /\ KeepsGold(Memory, Memory')
<1> USE GuildAssumption
<1> DEFINE W == World
           m == Memory
           n == Memory'
           cached == {t \in Tag : cache[t] # None}
           db == Written(database, W)
           bank == [t \in Tag |-> IF t \in cached
                                  THEN Saved(database, object[cache[t]]).bank[t] ELSE db.bank[t]]
<1>1. /\ UNCHANGED <<place, guild, guild_rank, guild_join, guild_invite, guild_create,
                     cache, create_cache>>
      /\ object' = [o \in Object |-> IF Loaded(o) /\ cache[object[o].tag] = o
                                     THEN [object[o] EXCEPT !.needs_save = FALSE] ELSE object[o]]
      /\ database' = [db EXCEPT !.bank = bank]
    BY DEF TimedSave, World
<1>2. /\ m.guild = guild /\ m.rank = guild_rank /\ m.object = object /\ m.cache = cache
      /\ m.db = database
      /\ n.guild = guild' /\ n.rank = guild_rank' /\ n.object = object' /\ n.cache = cache'
      /\ n.db = database'
    BY DEF Memory
<1>3. /\ IsDatabase(database) /\ Alive(m) /\ Referred(m) /\ Settling(m, W)
      /\ guild \in [Character -> Object \union {None}] /\ cache \in [Tag -> Object \union {None}]
      /\ \A o \in Object : IsGuild(object[o])
    BY DEF GuildInv, IInv, Sound, IsMemory, Memory
<1> HIDE DEF m, n
<1>4. /\ database.rank \in [Character -> Nat] /\ guild_rank \in [Character -> Nat]
      /\ database.bank = [t \in Tag |-> database.bank[t]]
    BY <1>2, <1>3 DEF Settling, Typed
<1>5. /\ database'.guilds = database.guilds /\ database'.bank = bank
      /\ database'.guild = [c \in Character |-> IF c \notin W THEN database.guild[c]
                             ELSE IF guild[c] = None THEN None ELSE object[guild[c]].tag]
      /\ database'.rank = [c \in Character |-> IF c \in W THEN guild_rank[c] ELSE database.rank[c]]
      /\ db.bank = database.bank
    <2> DEFINE tags == [c \in Character |-> IF c \notin W THEN database.guild[c]
                           ELSE IF guild[c] = None THEN None ELSE object[guild[c]].tag]
               given == [c \in Character |-> IF c \in W THEN guild_rank[c] ELSE database.rank[c]]
               mid == [database EXCEPT !.guild = tags]
    <2>1. db = [mid EXCEPT !.rank = given]
        BY DEF Written
    <2>2. database = [guilds |-> database.guilds, bank |-> database.bank,
                      guild |-> database.guild, rank |-> database.rank]
        BY <1>3 DEF IsDatabase
    <2> HIDE DEF W, tags, given, db, bank
    <2>3. mid = [guilds |-> database.guilds, bank |-> database.bank, guild |-> tags,
                 rank |-> database.rank]
        BY <2>2
    <2> HIDE DEF mid
    <2>4. db = [guilds |-> database.guilds, bank |-> database.bank, guild |-> tags, rank |-> given]
        BY <2>1, <2>3
    <2>5. database' = [guilds |-> database.guilds, bank |-> bank, guild |-> tags, rank |-> given]
        BY <1>1, <2>4
    <2>6. /\ database'.guilds = database.guilds /\ database'.bank = bank
          /\ database'.guild = tags /\ database'.rank = given /\ db.bank = database.bank
        BY <2>4, <2>5
    <2> QED BY <2>6 DEF tags, given
<1> HIDE DEF db, W
<1>6. \A t \in Tag : bank[t] = IF t \in cached THEN Saved(database, object[cache[t]]).bank[t]
                               ELSE database.bank[t]
    BY <1>5
<1>7. ASSUME NEW t \in cached
      PROVE  bank[t] = IF object[cache[t]].needs_save /\ t \in database.guilds
                       THEN object[cache[t]].bank ELSE database.bank[t]
    <2> DEFINE h == object[cache[t]]
               rows == [database.bank EXCEPT ![t] = h.bank]
    <2>1. h.tag = t /\ t \in Tag
        BY <1>2, <1>3 DEF Alive
    <2>2. CASE h.needs_save /\ t \in database.guilds
        <3>1. Saved(database, h) = [database EXCEPT !.bank = rows]
            BY <2>1, <2>2 DEF Saved
        <3>2. database = [guilds |-> database.guilds, bank |-> database.bank,
                          guild |-> database.guild, rank |-> database.rank]
            BY <1>3 DEF IsDatabase
        <3> HIDE DEF rows, h
        <3>3. Saved(database, h).bank = rows
            BY <3>1, <3>2
        <3>4. rows[t] = h.bank
            BY <1>4, <2>1 DEF rows
        <3> QED BY <1>6, <2>1, <2>2, <3>3, <3>4 DEF h
    <2>3. CASE ~(h.needs_save /\ t \in database.guilds)
        <3>1. Saved(database, h) = database
            BY <2>1, <2>3 DEF Saved
        <3> QED BY <1>6, <2>1, <2>3, <3>1
    <2> QED BY <2>2, <2>3
<1> HIDE DEF bank
<1>8. ASSUME NEW o \in Object
      PROVE  /\ object'[o].tag = object[o].tag /\ object'[o].members = object[o].members
             /\ object'[o].bank = object[o].bank
             /\ object[o].tag \in Old =>
                   object'[o].needs_save = FALSE /\ bank[object[o].tag] = object[o].bank
    <2> DEFINE h == object[o]
               g == [h EXCEPT !.needs_save = FALSE]
    <2>1. IsGuild(h)
        BY <1>3
    <2>2. g.tag = h.tag /\ g.members = h.members /\ g.bank = h.bank /\ g.needs_save = FALSE
        <3> HIDE DEF h
        <3> QED BY <2>1, MarkKeepsGuild
    <2> HIDE DEF g
    <2>3. object'[o] = IF h.tag # None /\ cache[h.tag] = o THEN g ELSE h
        BY <1>1 DEF g, Loaded
    <2>4. ASSUME h.tag \in Old
          PROVE  object'[o].needs_save = FALSE /\ bank[h.tag] = h.bank
        <3>1. h.tag \in Tag /\ h.tag # None /\ cache[h.tag] = o /\ h.needs_save \in BOOLEAN
            BY <1>2, <1>3, <2>4 DEF Settling, Sole, Typed, Old
        <3>2. h.tag \in database.guilds
            BY <1>2, <1>3, <2>4, <3>1 DEF Referred, Settling, Listing
        <3>3. h.needs_save = FALSE => h.bank = database.bank[h.tag]
            BY <1>2, <1>3, <2>4 DEF Settling, Banked
        <3>4. bank[h.tag] = IF h.needs_save /\ h.tag \in database.guilds THEN h.bank
                            ELSE database.bank[h.tag]
            BY <1>7, <3>1
        <3>5. bank[h.tag] = h.bank
            BY <3>1, <3>2, <3>3, <3>4
        <3> QED BY <2>2, <2>3, <3>1, <3>5
    <2> QED BY <2>2, <2>3, <2>4
<1>9. \A t \in Old \ database.guilds : bank[t] = database.bank[t]
    BY <1>6, <1>7 DEF Old
<1>10. bank = [t \in Tag |-> bank[t]]
    BY DEF bank
<1>11. n.db.rank \in [Character -> Nat]
    BY <1>2, <1>4, <1>5
<1>12. \A d \in Character :
          \/ n.db.guild[d] = m.db.guild[d] /\ n.db.rank[d] = m.db.rank[d]
          \/ d \in W /\ n.db.guild[d] = None
          \/ d \in W /\ m.guild[d] # None /\ n.db.guild[d] = m.object[m.guild[d]].tag
    BY <1>2, <1>5
<1>13. n.guild = m.guild /\ n.rank = m.rank /\ n.cache = m.cache
    BY <1>1, <1>2
<1>14. \A o \in Object : /\ n.object[o].tag = m.object[o].tag
                         /\ n.object[o].members = m.object[o].members
                         /\ n.object[o].bank = m.object[o].bank
                         /\ m.object[o].tag \in Old =>
                               /\ n.object[o].needs_save = FALSE
                               /\ n.db.bank[m.object[o].tag] = m.object[o].bank
    BY <1>2, <1>5, <1>8
<1>15. /\ n.db.guilds = m.db.guilds /\ n.db.bank = [t \in Tag |-> n.db.bank[t]]
       /\ \A t \in Old \ m.db.guilds : n.db.bank[t] = m.db.bank[t]
    BY <1>2, <1>5, <1>9, <1>10
<1>16. m.guild \in [Character -> Object \union {None}] /\ Settling(m, W)
    BY <1>2, <1>3
<1>17. Settling(n, W)
    <2>1. Saves(m, n, W)
        BY Zenon, <1>11, <1>12, <1>13, <1>14, <1>15 DEF Saves
    <2> QED BY <1>16, <2>1, SaveSettles
<1>18. World' = World /\ DraftsFounding'
    BY <1>1 DEF World, InWorld, GuildInv, DraftsFounding
<1>19. KeepsGold(m, n)
    <2> SUFFICES ASSUME NEW t \in Old PROVE Gold(n, t) = Gold(m, t)
        BY DEF KeepsGold
    <2>1. t \in Tag /\ cache[t] \in Object \union {None}
        BY <1>3 DEF Old
    <2>2. cache[t] = None => bank[t] = database.bank[t]
        BY <1>6, <2>1
    <2> QED BY <1>1, <1>2, <1>5, <1>8, <2>1, <2>2 DEF Gold
<1> QED BY <1>17, <1>18, <1>19 DEF m, n, W

\* What characters who join change: those of a set J refer to the object o.
LEMMA AddMembersFields ==
    ASSUME NEW m, NEW o \in Object, NEW names, NEW given, Sound(m),
           m.rank \in [Character -> Nat], given \in [Character -> Nat],
           NEW J, J = {c \in Character : c \in ToSet(names) /\ InWorld(c)}
    PROVE  Joins(m, AddMembers(m, o, names, given), J, o)
<1> DEFINE pointers == [c \in Character |-> IF c \in ToSet(names) /\ InWorld(c) THEN o ELSE m.guild[c]]
           ranks == [c \in Character |-> IF c \in ToSet(names) /\ InWorld(c) THEN given[c] ELSE m.rank[c]]
           here == SelectSeq(names, InWorld)
           q == m.object[o].members
                \o [i \in DOMAIN here |-> [name |-> here[i], rank |-> given[here[i]]]]
           l == WithList(m, o, q)
           n == AddMembers(m, o, names, given)
<1>1. n = [l EXCEPT !.guild = pointers, !.rank = ranks]
    BY DEF AddMembers, WithList, Sound, IsMemory
<1>2. /\ pointers = [c \in Character |-> IF c \in J THEN o ELSE m.guild[c]]
      /\ ranks \in [Character -> Nat] /\ \A c \in Character \ J : ranks[c] = m.rank[c]
    BY DEF Sound, IsMemory
<1> HIDE DEF pointers, ranks, q, here, n
<1>3. Sound(l)
    BY ListSound DEF WithList
<1>4. /\ l.cache = m.cache /\ l.db = m.db
      /\ \A p \in Object \ {o} : l.object[p] = m.object[p]
      /\ l.object[o].tag = m.object[o].tag
    BY ListFields
<1> HIDE DEF l
<1>5. n = [guild |-> pointers, rank |-> ranks, object |-> l.object, cache |-> l.cache, db |-> l.db]
    BY <1>1, <1>3 DEF Sound, IsMemory
<1>6. n.guild = pointers /\ n.rank = ranks /\ n.object = l.object /\ n.cache = l.cache /\ n.db = l.db
    BY <1>5
<1>7. Joins(m, n, J, o)
    BY <1>2, <1>4, <1>6 DEF Joins
<1> QED BY <1>7 DEF n

\* A guild that is founded: none of those that are settled.
LEMMA CreateSettles ==
    ASSUME GuildInv, NEW c \in Character, NEW t \in Tag, Guild_Create(c, t)
    PROVE  Settling(Memory', World') /\ DraftsFounding' /\ KeepsGold(Memory, Memory')
<1> USE GuildAssumption
<1> DEFINE names == guild_create[c].members
           row == [database EXCEPT !.guilds = @ \union {t}, !.bank[t] = 0]
           given == [d \in Character |-> IF d = c THEN 0 ELSE MaxRank]
           m == [Memory EXCEPT !.db = row]
           old == Memory
           W == World
<1>1. PICK o \in Object :
          /\ ~Loaded(o)
          /\ Abandon(c, Release(AddMembers(Load(m, t, o), o, names, given)))
    BY DEF Guild_Create
<1>2. place' = place /\ create_cache[t] = c /\ cache[t] = None
    BY DEF Guild_Create
<1>3. /\ IsDatabase(database) /\ Sound(old) /\ Settling(old, W) /\ DraftsFounding /\ IInv
      /\ database.rank \in [Character -> Nat] /\ guild_rank \in [Character -> Nat]
      /\ database.bank = [u \in Tag |-> database.bank[u]]
    BY DEF GuildInv, IInv, Sound, IsMemory, Settling, Typed, Memory
<1>4. t \in Founding /\ t \notin Old
    <2>1. guild_create[c].tag = t
        BY <1>2 DEF GuildInv, IInv, Drafts
    <2> QED BY <1>3, <2>1 DEF DraftsFounding, Old
<1>5. /\ row.guilds = database.guilds \union {t} /\ row.bank = [database.bank EXCEPT ![t] = 0]
      /\ row.guild = database.guild /\ row.rank = database.rank /\ IsDatabase(row)
    <2> DEFINE bank == [database.bank EXCEPT ![t] = 0]
               tags == database.guilds \union {t}
               mid == [database EXCEPT !.guilds = tags]
    <2>2. row = [mid EXCEPT !.bank = bank]
        BY <1>3 DEF IsDatabase
    <2>3. tags \subseteq Tag
        BY <1>3 DEF IsDatabase
    <2> HIDE DEF row, bank, tags
    <2>4. mid = [guilds |-> tags, bank |-> database.bank, guild |-> database.guild,
                 rank |-> database.rank]
        BY <1>3 DEF IsDatabase
    <2> HIDE DEF mid
    <2>5. row = [guilds |-> tags, bank |-> bank, guild |-> database.guild,
                 rank |-> database.rank]
        BY <2>2, <2>4
    <2>6. /\ row.guilds = tags /\ row.bank = bank
          /\ row.guild = database.guild /\ row.rank = database.rank
        BY <2>5
    <2> QED BY <1>3, <2>3, <2>5, <2>6 DEF IsDatabase, tags, bank
<1> HIDE DEF row
<1>6. /\ m.guild = guild /\ m.rank = guild_rank /\ m.object = object /\ m.cache = cache
      /\ m.db = row /\ Sound(m)
      /\ old.guild = guild /\ old.rank = guild_rank /\ old.object = object /\ old.cache = cache
      /\ old.db = database
    <2>1. m = [guild |-> guild, rank |-> guild_rank, object |-> object, cache |-> cache,
               db |-> row]
        BY DEF Memory
    <2> HIDE DEF m
    <2> QED BY <1>3, <1>5, <2>1 DEF Sound, IsMemory, Memory, Alive, Used
<1> HIDE DEF m, old, W, given, names
<1>7. Settling(m, W)
    <2>1. /\ m.db.bank = [u \in Tag |-> m.db.bank[u]]
          /\ \A u \in Old : m.cache[u] = old.cache[u] /\ m.db.bank[u] = old.db.bank[u]
        BY <1>3, <1>4, <1>5, <1>6 DEF Old
    <2>2. m.db.guilds \intersect Old = old.db.guilds \intersect Old
        BY <1>4, <1>5, <1>6
    <2>3. /\ m.guild = old.guild /\ m.rank = old.rank /\ m.object = old.object
          /\ m.db.guild = old.db.guild /\ m.db.rank = old.db.rank
        BY <1>5, <1>6
    <2> QED BY SMTT(40), <1>3, <2>1, <2>2, <2>3, FoundingSettles
<1> DEFINE l == Load(m, t, o)
           a == AddMembers(l, o, names, given)
           n == Release(a)
<1>8. m.object[o].tag = None /\ m.cache[t] = None
    BY <1>1, <1>2, <1>6 DEF Loaded
<1>21. KeepsGold(old, m) /\ old.db.guilds \subseteq m.db.guilds
    <2> SUFFICES ASSUME NEW u \in Old PROVE Gold(m, u) = Gold(old, u)
        BY <1>5, <1>6 DEF KeepsGold
    <2>1. u # t /\ u \in Tag
        BY <1>4 DEF Old
    <2>2. row.bank[u] = database.bank[u]
        BY <1>3, <1>5, <2>1
    <2> QED BY <1>6, <2>2 DEF Gold
<1>22. KeepsGold(m, l) /\ l.db = m.db
    BY ZenonT(60), <1>6, <1>8, LoadGold, LoadFields
<1>9. Sound(l)
    BY <1>6, <1>8, LoadSound
<1>10. Settling(l, W)
    BY <1>6, <1>7, <1>8, LoadSettles
<1>11. l.object[o].tag = t /\ l.rank = guild_rank
    <2> DEFINE g == [tag |-> t, members |-> Listed(m.db, t), bank |-> m.db.bank[t],
                     needs_save |-> FALSE]
    <2> HIDE DEF l
    <2>1. g.tag = t
        OBVIOUS
    <2> HIDE DEF g
    <2>2. l.rank = m.rank /\ l.object[o] = g
        BY <1>6, LoadFields DEF l, g
    <2> QED BY <1>6, <2>1, <2>2
<1>12. Abandon(c, n)
    BY <1>1
<1> HIDE DEF l
<1>13. PICK J \in SUBSET W : J = {d \in Character : d \in ToSet(names) /\ InWorld(d)}
    BY DEF W, World
<1>14. given \in [Character -> Nat]
    BY DEF given
<1>15. Joins(l, a, J, o)
    BY <1>3, <1>9, <1>11, <1>13, <1>14, AddMembersFields
<1>16. Sound(a)
    BY <1>4, <1>9, <1>11, AddMembersSound
<1> HIDE DEF a
<1>17. Settling(a, W)
    <2>1. l.object[o].tag \notin Old /\ Alive(l) /\ l.guild \in [Character -> Object \union {None}]
        BY <1>4, <1>9, <1>11 DEF Sound, IsMemory
    <2> QED BY <1>10, <1>15, <2>1, JoinSettles
<1>18. Sound(n) /\ Settling(n, W) /\ KeepsGold(a, n)
    BY <1>16, <1>17, ReleaseSound, ReleaseSettles, ReleaseGold
<1> HIDE DEF n
<1>19. /\ Settling(Memory', W) /\ DraftsFounding'
       /\ KeepsGold(n, Memory') /\ Memory'.db = n.db
    BY <1>3, <1>12, <1>18, AbandonSettles
<1>23. KeepsGold(l, a) /\ a.db = l.db
    <2> SUFFICES ASSUME NEW u \in Old PROVE Gold(a, u) = Gold(l, u)
        BY <1>15 DEF KeepsGold, Joins
    <2>1. l.cache[u] # None => l.cache[u] \in Object /\ l.object[l.cache[u]].tag = u
        BY <1>9 DEF Sound, IsMemory, Alive, Old
    <2>2. l.cache[u] # None => l.cache[u] \in Object \ {o}
        BY <1>4, <1>11, <2>1
    <2> QED BY <1>15, <2>2 DEF Gold, Joins
<1>24. KeepsGold(old, Memory')
    <2> DEFINE k == Memory'
    <2> HIDE DEF k
    <2>1. KeepsGold(old, l) /\ old.db.guilds \subseteq l.db.guilds
        BY <1>21, <1>22, GoldTwice
    <2>2. KeepsGold(old, a) /\ old.db.guilds \subseteq a.db.guilds
        BY <1>23, <2>1, GoldTwice
    <2>3. KeepsGold(old, n)
        BY <1>18, <2>2, GoldTwice
    <2>4. KeepsGold(old, k)
        BY <1>19, <2>3, GoldTwice DEF k
    <2> QED BY <2>4 DEF k
<1>20. World' = W
    BY <1>2 DEF World, InWorld, W
<1> QED BY <1>19, <1>20, <1>24 DEF old

\* Nothing is loaded when the server starts.
LEMMA InitSettles == Init => Settling(Memory, World) /\ DraftsFounding
<1> USE GuildAssumption
<1> SUFFICES ASSUME Init PROVE Settling(Memory, World) /\ DraftsFounding
    OBVIOUS
<1> DEFINE m == Memory
<1>1. /\ m.guild = [c \in Character |-> None] /\ m.rank = [c \in Character |-> 0]
      /\ m.object = [o \in Object |-> Unloaded] /\ m.cache = [t \in Tag |-> None]
      /\ m.db = database
    BY DEF Memory, Init
<1>2. /\ database.rank \in [Character -> Nat] /\ database.bank = [t \in Tag |-> database.bank[t]]
      /\ Consistent(database, Old)
    BY DEF Init, Database, Consistent, Old
<1> HIDE DEF m
<1>3. \A o \in Object : m.object[o].tag = None
    BY <1>1 DEF Unloaded
<1>4. Typed(m) /\ Sole(m) /\ Banked(m)
    BY <1>1, <1>2, <1>3 DEF Typed, Sole, Banked, Old
<1>5. Listing(m) /\ Expected(m, World)
    BY <1>1 DEF Listing, Expected, Old
<1>6. DraftsFounding
    BY DEF Init, DraftsFounding, NoDraft
<1> QED BY <1>1, <1>2, <1>4, <1>5, <1>6 DEF Settling, m

\* Every step keeps the guilds that were not founded since the start settled, if nobody acts
\* on those who have gone.
LEMMA GuildInvStep ==
    ASSUME GuildInv, ActsOnStale = FALSE, [Next]_vars
    PROVE  /\ GuildInv'
           /\ \/ KeepsGold(Memory, Memory')
              \/ \E c \in Character : \/ \E gold \in 1..GuildBankMax : Guild_Buy(c, gold)
                                      \/ \E j \in Character : Guild_Use(c, j)
<1> USE GuildAssumption
<1>1. IInv'
    BY GuildStep DEF GuildInv
<1>2. Sound(Memory) /\ Settling(Memory, World) /\ DraftsFounding
      /\ guild \in [Character -> Object \union {None}]
    BY DEF GuildInv, IInv, Sound, IsMemory, Memory
<1> DEFINE Settles == Settling(Memory', World') /\ DraftsFounding'
           Kept == KeepsGold(Memory, Memory')
<1> DEFINE Same == UNCHANGED <<guild, guild_rank, object, cache, database>>
<1>3. ASSUME Same, World \subseteq World', DraftsFounding'
      PROVE  Settles /\ Kept
    <2>1. Memory' = Memory
        BY <1>3 DEF Memory
    <2>2. Kept
        BY <2>1 DEF KeepsGold
    <2> QED BY <1>2, <1>3, <2>1, <2>2, WiderSettles
<1>4. ASSUME Same, UNCHANGED <<place, guild_create>>
      PROVE  Settles /\ Kept
    BY <1>2, <1>3, <1>4 DEF World, InWorld, DraftsFounding
<1>5. ASSUME NEW c \in Character, Arrive(c) PROVE Settles /\ Kept
    BY <1>2, <1>5, ArriveSettles DEF Arrive, DraftsFounding
<1>6. ASSUME NEW c \in Character, Enter(c) PROVE Settles /\ Kept
    <2>1. Same /\ DraftsFounding'
        BY <1>2, <1>6 DEF Enter, DraftsFounding
    <2>2. World \subseteq World'
        BY <1>6 DEF Enter, World, InWorld, GuildInv, IInv, Drafts
    <2> QED BY <1>3, <2>1, <2>2
<1>7. ASSUME NEW c \in Character, Logout(c) PROVE Settles /\ Kept
    BY <1>7, LogoutSettles
<1>8. ASSUME NEW c \in Character, Warp(c) PROVE Settles /\ Kept
    BY <1>4, <1>8 DEF Warp
<1>9. ASSUME NEW c \in Character, Guild_Accept(c) PROVE Settles /\ Kept
    <2>1. Same /\ UNCHANGED place
        BY <1>9 DEF Guild_Accept
    <2>2. DraftsFounding'
        <3> SUFFICES ASSUME NEW d \in Character
                     PROVE  guild_create'[d].tag \in Founding \union {None}
            BY DEF DraftsFounding
        <3> DEFINE f == create_cache[guild_invite[c]]
                   g == guild_create[f]
                   k == [g EXCEPT !.members = Append(@, c)]
        <3>1. /\ guild_create = [e \in Character |-> guild_create[e]]
              /\ f # None => g = [tag |-> g.tag, members |-> g.members]
            BY <1>9 DEF Guild_Accept, GuildInv, IInv, Drafts
        <3>2. guild_create' = guild_create \/ (f # None /\ guild_create' = [guild_create EXCEPT ![f] = k])
            BY <1>9 DEF Guild_Accept
        <3> HIDE DEF f, g
        <3>3. f # None => k.tag = g.tag
            <4> SUFFICES ASSUME f # None PROVE k.tag = g.tag
                OBVIOUS
            <4>1. g = [tag |-> g.tag, members |-> g.members]
                BY <3>1
            <4>2. k = [tag |-> g.tag, members |-> Append(g.members, c)]
                BY SMTT(40), <4>1
            <4> HIDE DEF k
            <4> QED BY <4>2
        <3> HIDE DEF k
        <3>4. \/ guild_create'[d] = guild_create[d]
              \/ d = f /\ f # None /\ guild_create'[d] = k
            BY <3>1, <3>2
        <3>5. guild_create[d].tag \in Founding \union {None}
            BY <1>2 DEF DraftsFounding
        <3> QED BY <3>3, <3>4, <3>5 DEF g
    <2>3. World \subseteq World'
        BY <2>1 DEF World, InWorld
    <2> QED BY <1>3, <2>1, <2>2, <2>3
<1>10. ASSUME NEW c \in Character, Guild_Remove(c) PROVE Settles /\ Kept
    <2> DEFINE m == DelMember(Memory, guild[c], c)
    <2>1. /\ guild[c] \in Object /\ InWorld(c) /\ Becomes(Release(m))
          /\ UNCHANGED <<place, guild_create>>
        BY <1>2, <1>10 DEF Guild_Remove
    <2>2. /\ Sound(m) /\ Settling(m, World) /\ KeepsGold(Memory, m)
          /\ m.db.guilds = database.guilds
        BY <1>2, <2>1, DelMemberSound, ExpelSettles
    <2> HIDE DEF m
    <2> QED BY <1>2, <2>1, <2>2, ReleaseStepSettles
<1>11. ASSUME NEW c \in Character, Guild_Junk(c) PROVE Settles /\ Kept
    <2>1. guild[c] # None /\ guild[c] \in Object /\ UNCHANGED <<place, guild_create>>
        BY <1>2, <1>11 DEF Guild_Junk
    <2>2. PICK m \in Disband(Memory, guild[c]) : Becomes(Release(m))
        BY <1>11 DEF Guild_Junk
    <2>3. \A d \in Character : GetMember(guild[c], d) # 0 =>
              place[d] = "Away" \/ (InWorld(d) /\ guild[d] = guild[c])
        BY <1>11 DEF Guild_Junk, MayExpel
    <2>4. Settling(m, World) /\ KeepsGold(Memory, m) /\ m.db.guilds = database.guilds
        BY <2>1, <2>3, DisbandSettles
    <2>5. Sound(m)
        BY <1>2, <2>1, DisbandSound
    <2> QED BY <1>2, <2>1, <2>2, <2>4, <2>5, ReleaseStepSettles
<1>12. ASSUME NEW c \in Character, NEW d \in Character, Guild_Kick(c, d)
       PROVE  Settles /\ Kept
    <2> DEFINE m == DelMember(Memory, guild[c], d)
    <2>1. /\ guild[c] \in Object /\ Becomes(Release(m))
          /\ UNCHANGED <<place, guild_create>>
          /\ place[d] = "Away" \/ (InWorld(d) /\ guild[d] = guild[c])
        BY <1>2, <1>12 DEF Guild_Kick, MayExpel
    <2>2. /\ Sound(m) /\ Settling(m, World) /\ KeepsGold(Memory, m)
          /\ m.db.guilds = database.guilds
        BY <1>2, <2>1, DelMemberSound, ExpelSettles
    <2> HIDE DEF m
    <2> QED BY <1>2, <2>1, <2>2, ReleaseStepSettles
<1>13. ASSUME NEW c \in Character, Guild_Agree(c) PROVE Settles /\ Kept
    BY <1>13, AgreeSettles
<1>14. ASSUME NEW c \in Character, NEW t \in Tag, NEW near \in SUBSET Character,
              Guild_Request(c, t, near)
       PROVE  Settles /\ Kept
    BY <1>14, RequestSettles
<1>15. ASSUME NEW c \in Character, NEW t \in Tag, Guild_Create(c, t)
       PROVE  Settles /\ Kept
    BY <1>15, CreateSettles
<1>16. ASSUME NEW c \in Character, NEW t \in Tag, Guild_Tell(c, t)
       PROVE  Settles /\ Kept
    BY <1>16, TellSettles DEF Guild_Tell
<1>17. ASSUME NEW c \in Character, NEW d \in Character, Guild_Player(c, d)
       PROVE  Settles /\ Kept
    BY <1>4, <1>17 DEF Guild_Player
<1>18. ASSUME NEW c \in Character, NEW d \in Character, Guild_Use(c, d)
       PROVE  Settles
    BY <1>18, UseSettles
<1>19. ASSUME NEW c \in Character, NEW d \in Character, NEW r \in 0..(MaxRank + 1), Guild_Rank(c, d, r)
       PROVE  Settles /\ Kept
    BY <1>19, RankSettles
<1>20. ASSUME NEW c \in Character, NEW gold \in 1..GuildBankMax, Guild_Buy(c, gold)
       PROVE  Settles
    BY <1>20, BuySettles
<1>21. ASSUME TimedSave PROVE Settles /\ Kept
    BY <1>21, TimedSaveSettles
<1>22. ASSUME UNCHANGED vars PROVE Settles /\ Kept
    BY <1>4, <1>22 DEF vars
<1>23. Settles => GuildInv'
    BY <1>1 DEF GuildInv
<1> HIDE DEF Settles, Kept
<1>24. /\ Settles
       /\ \/ Kept
          \/ \E c \in Character : \/ \E gold \in 1..GuildBankMax : Guild_Buy(c, gold)
                                  \/ \E j \in Character : Guild_Use(c, j)
    BY <1>5, <1>6, <1>7, <1>8, <1>9, <1>10, <1>11, <1>12, <1>13, <1>14, <1>15, <1>16, <1>17,
       <1>18, <1>19, <1>20, <1>21, <1>22 DEF Next, Act
<1> QED BY <1>23, <1>24 DEF Kept

\* What every theorem of this part rests on.
LEMMA GuildInvAlways ==
    ASSUME ActsOnStale = FALSE
    PROVE  Spec => []GuildInv
<1>1. Init => GuildInv
    BY GuildInit, InitSettles DEF GuildInv
<1>2. GuildInv /\ [Next]_vars => GuildInv'
    BY GuildInvStep
<1> QED BY <1>1, <1>2, PTL DEF Spec

\* Where nobody acts on members who have gone, the members of a guild share one object, the
\* one GuildManager's cache finds: none of them acts on a copy of it.
THEOREM MembersShareOneGuild ==
    ASSUME ActsOnStale = FALSE
    PROVE  Spec => []OneGuildPerTag
<1>1. GuildInv => OneGuildPerTag
    <2> SUFFICES ASSUME GuildInv, NEW o \in Object, Settled(o) PROVE cache[object[o].tag] = o
        BY DEF OneGuildPerTag
    <2>1. object[o].tag \in Old
        BY DEF Settled, Loaded, Old, GuildInv, IInv, Sound, IsMemory, Memory
    <2> QED BY <2>1 DEF GuildInv, Settling, Sole, Memory
<1> QED BY <1>1, GuildInvAlways, PTL

\* Where nobody acts on members who have gone, who has a guild is listed by it, with its
\* rank, and the guild has a row: it is not deleted before its last member has left.
THEOREM MembersAreListed ==
    ASSUME ActsOnStale = FALSE
    PROVE  Spec => []MembersListed
<1>1. GuildInv => MembersListed
    <2> SUFFICES ASSUME GuildInv, NEW c \in Character, guild[c] # None, Settled(guild[c])
                 PROVE  /\ object[guild[c]].tag \in database.guilds
                        /\ \E i \in DOMAIN object[guild[c]].members :
                              LET e == object[guild[c]].members[i] IN
                              e.name = c /\ Clamp(e.rank) = Clamp(guild_rank[c])
        BY DEF MembersListed
    <2> DEFINE m == Memory
               o == guild[c]
               s == object[o].members
    <2>1. /\ m.guild = guild /\ m.rank = guild_rank /\ m.object = object /\ m.db = database
          /\ o \in Object /\ object[o].tag \in Old /\ Listing(m) /\ s \in Seq(Entry)
        BY DEF Settled, Loaded, Old, GuildInv, IInv, Sound, IsMemory, Settling, Typed, Memory
    <2> HIDE DEF m
    <2>2. object[o].tag \in database.guilds /\ Lists(m, o, c, guild_rank[c])
        BY <2>1 DEF Listing
    <2>3. PICK i \in 1..Len(s) : s[i].name = c /\ Clamp(s[i].rank) = Clamp(guild_rank[c])
        BY Zenon, <2>1, <2>2 DEF Lists
    <2> HIDE DEF s
    <2>4. i \in DOMAIN s
        BY <2>1
    <2> QED BY <2>2, <2>3, <2>4 DEF s
<1> QED BY <1>1, GuildInvAlways, PTL

\* Where nobody acts on members who have gone, what the timed save commits is what the
\* server could start from.
THEOREM CommitsAreConsistent ==
    ASSUME ActsOnStale = FALSE
    PROVE  Spec => CommitsConsistent
<1>1. GuildInv' => Consistent(database', Tag \ Founding)
    <2> SUFFICES ASSUME GuildInv' PROVE Consistent(database', Old)
        BY DEF Old
    <2>1. Settling(Memory', World') /\ Memory'.db = database'
        BY DEF GuildInv, Memory
    <2> QED BY <2>1 DEF Settling
<1>2. GuildInv' => [TimedSave => Consistent(database', Tag \ Founding)]_vars
    BY <1>1
<1> QED BY <1>2, GuildInvAlways, PTL DEF CommitsConsistent

\* The gold of a guild, as the property has it, is that of the object the cache finds.
LEMMA BankIsGold ==
    ASSUME GuildInv, NEW t \in Old
    PROVE  Bank(t) = Gold(Memory, t)
<1> USE GuildAssumption
<1> DEFINE all == {object[o] : o \in Object}
           p == cache[t]
<1>1. /\ t \in Tag /\ t # None
      /\ p # None => p \in Object /\ object[p].tag = t
      /\ \A o \in Object : object[o].tag = t => p = o
    BY DEF GuildInv, IInv, Sound, IsMemory, Alive, Settling, Sole, Memory, Old
<1>2. Gold(Memory, t) = IF p # None THEN object[p].bank ELSE database.bank[t]
    BY DEF Gold, Memory
<1> HIDE DEF p
<1>3. CASE p # None
    <2>1. p \in Object /\ object[p].tag = t /\ Loaded(p)
        BY <1>1, <1>3 DEF Loaded
    <2>2. object[p] \in all /\ object[p].tag = t
        BY <2>1
    <2>3. \A g \in all : g.tag = t => g = object[p]
        BY <1>1
    <2> HIDE DEF all
    <2>4. (CHOOSE g \in all : g.tag = t) = object[p]
        BY <2>2, <2>3
    <2>5. \E o \in Object : Loaded(o) /\ object[o].tag = t
        BY <2>1
    <2> QED BY <1>2, <1>3, <2>4, <2>5 DEF Bank, all
<1>4. CASE p = None
    <2>1. ~ \E o \in Object : Loaded(o) /\ object[o].tag = t
        BY <1>1, <1>4
    <2> QED BY <1>2, <1>4, <2>1 DEF Bank
<1> QED BY <1>3, <1>4

\* Where nobody acts on members who have gone, gold enters and leaves the bank of a guild
\* through deposits and recruiting alone: loading it, saving it and unloading it lose none.
THEOREM BankIsKept ==
    ASSUME ActsOnStale = FALSE
    PROVE  Spec => BankKept
<1> DEFINE BankRight == \A t \in Old : Bank(t) = Gold(Memory, t)
           BankStep == \A t \in (database.guilds \intersect database'.guilds) \ Founding :
                 Bank(t)' = Bank(t)
                 \/ \E c \in Character : \/ \E gold \in 1..GuildBankMax : Guild_Buy(c, gold)
                                         \/ \E j \in Character : Guild_Use(c, j)
<1>1. GuildInv => BankRight
    BY BankIsGold
<1>2. GuildInv /\ BankRight /\ BankRight' /\ [Next]_vars => BankStep
    <2> SUFFICES ASSUME GuildInv, BankRight, BankRight', [Next]_vars,
                        NEW t \in (database.guilds \intersect database'.guilds) \ Founding,
                        KeepsGold(Memory, Memory')
                 PROVE  Bank(t)' = Bank(t)
        BY GuildInvStep
    <2> DEFINE m == Memory
               n == Memory'
    <2>1. m.db.guilds = database.guilds /\ n.db.guilds = database'.guilds
        BY DEF Memory
    <2>2. t \in Old
        BY DEF GuildInv, IInv, Sound, IsMemory, IsDatabase, Memory, Old
    <2>3. Bank(t) = Gold(m, t) /\ Bank(t)' = Gold(n, t)
        BY <2>2 DEF Gold, Old
    <2> HIDE DEF m, n
    <2> QED BY <2>1, <2>2, <2>3 DEF KeepsGold, m, n
<1>3. GuildInv /\ BankRight /\ BankRight' /\ [Next]_vars => [BankStep]_vars
    BY <1>2
<1> HIDE DEF BankRight, BankStep
<1>4. Spec => [][BankStep]_vars
    BY <1>1, <1>3, GuildInvAlways, PTL DEF Spec
<1> QED BY <1>4 DEF BankStep, BankKept
=============================================================================
