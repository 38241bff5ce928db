-------------------------------- MODULE Guild --------------------------------
(***************************************************************************)
(* Guilds: the database holds a row for every guild and, in the row of     *)
(* every character, the tag of its guild.  While members are loaded they   *)
(* share an object, a Guild, which lists the members; GuildManager's cache *)
(* finds it by its tag and does not keep it alive.  Destroying the last    *)
(* reference to a Guild saves it, or deletes it when it lists nobody.      *)
(*                                                                         *)
(* Left out: names of guilds (a lookup by name acts as one by tag), gold   *)
(* of characters, descriptions and names of ranks, the ranks commands and  *)
(* quests set.  Any two characters in the world may meet at a guild master.*)
(***************************************************************************)
EXTENDS Naturals, FiniteSets, SequencesExt

CONSTANTS
    NCharacters,            \* characters are numbered in the order of their names
    Tag,
    Object,                 \* places for Guild objects
    GuildCreateMembers, GuildBankMax, RecruitCost,
    GuildKickRank, GuildPromoteRank, GuildPromoteSameRank, GuildDemoteRank,
    GuildRecruitRank, GuildDisbandRank, GuildEditRank,
    GuildMultipleFounders,
    MaxRank,                \* 9 in the code: the rank of new members
    Founding,               \* the tags new guilds may have
    ActsOnStale,            \* whether members are expelled or ranked whose character
                            \* does not have the guild that lists them, or is not there
    None

Character == 1..NCharacters
Rank == 0..MaxRank
Member == [name : Character, rank : 0..(MaxRank + 1)]

ASSUME GuildAssumption ==
    /\ NCharacters \in Nat \ {0} /\ MaxRank \in Nat \ {0} /\ GuildBankMax \in Nat
    /\ None \notin Object /\ None \notin Tag /\ None \notin Character
    /\ Founding \subseteq Tag /\ ActsOnStale \in BOOLEAN

VARIABLES
    place,           \* where a character is: "Away", at the "Menu" or in the "World"
    guild,           \* Character::guild, an object
    guild_rank,
    guild_join, guild_invite,
    guild_create,    \* Character::guild_create: the tag and who has agreed
    object,          \* the Guild objects
    cache, create_cache,
    database         \* rows of guilds, and what rows of characters say of them

vars == <<place, guild, guild_rank, guild_join, guild_invite, guild_create,
          object, cache, create_cache, database>>

Guild == [tag : Tag \union {None}, members : Seq(Member), bank : 0..GuildBankMax,
          needs_save : BOOLEAN]
Unloaded == [tag |-> None, members |-> <<>>, bank |-> 0, needs_save |-> FALSE]
NoDraft == [tag |-> None, members |-> <<>>]

InWorld(c) == place[c] = "World"
Loaded(o) == object[o].tag # None
Clamp(r) == IF r > MaxRank THEN MaxRank ELSE r

\* What the methods of Guild and GuildManager change.
Memory == [guild |-> guild, rank |-> guild_rank, object |-> object, cache |-> cache,
           db |-> database]

Becomes(m) ==
    /\ guild' = m.guild /\ guild_rank' = m.rank /\ object' = m.object
    /\ cache' = m.cache /\ database' = m.db

-----------------------------------------------------------------------------
\* The order of ranks, then of names.
Before(m, n) == m.rank < n.rank \/ (m.rank = n.rank /\ m.name < n.name)

\* The members a guild has in the database, each at the place it has in that order.
Rows(db, t) == {[name |-> c, rank |-> Clamp(db.rank[c])] : c \in {d \in Character : db.guild[d] = t}}
Place(R, e) == Cardinality({d \in R : Before(d, e)}) + 1
Listed(db, t) ==
    LET R == Rows(db, t) IN [i \in 1..Cardinality(R) |-> CHOOSE e \in R : Place(R, e) = i]

\* Mutant: the guild is not put into the cache.
Load_Uncached(m, t, o) ==
    [m EXCEPT !.object[o] = [tag |-> t, members |-> Listed(m.db, t),
                             bank |-> m.db.bank[t], needs_save |-> FALSE]]

\* GuildManager::GetGuild when the cache has no such guild but the database has one.
Load(m, t, o) ==
    [m EXCEPT !.object[o] = [tag |-> t, members |-> Listed(m.db, t),
                             bank |-> m.db.bank[t], needs_save |-> FALSE],
              !.cache[t] = o]

Exists(t) == cache[t] # None \/ t \in database.guilds

\* Guild::Save.
Saved(db, g) ==
    IF g.needs_save /\ g.tag \in db.guilds THEN [db EXCEPT !.bank[g.tag] = g.bank] ELSE db

\* The rows of guilds are deleted, and no character is in them any more.
Deleted(db, T) ==
    [guilds |-> db.guilds \ T, bank |-> [t \in Tag |-> IF t \in T THEN 0 ELSE db.bank[t]],
     guild |-> [c \in Character |-> IF db.guild[c] \in T THEN None ELSE db.guild[c]],
     rank |-> [c \in Character |-> IF db.guild[c] \in T THEN 0 ELSE db.rank[c]]]

\* Objects nobody refers to any more, and those of them that list nobody.
Dying(m) == {o \in Object : m.object[o].tag # None /\ \A c \in Character : m.guild[c] # o}
Deserted(m) == {o \in Dying(m) : m.object[o].members = <<>>}
Tags(m, O) == {m.object[o].tag : o \in O}

\* The rows of guilds, after those among the dying that have members are saved.
DyingSaved(m) ==
    LET last(t) == {o \in Dying(m) \ Deserted(m) : m.object[o].tag = t /\ m.object[o].needs_save}
    IN  [m.db EXCEPT !.bank =
            [t \in Tag |-> IF t \in m.db.guilds /\ last(t) # {}
                           THEN m.object[CHOOSE o \in last(t) : TRUE].bank ELSE @[t]]]

\* Mutant: objects are forgotten without their destructor.
Release_Leak(m) == m

\* Mutant: the destructor leaves the entry in the cache.
Release_Entry(m) ==
    [m EXCEPT !.object = [o \in Object |-> IF o \in Dying(m) THEN Unloaded ELSE @[o]]]

\* Guild::~Guild, for the objects nobody refers to any more: a guild is saved, or deleted
\* when nobody is on its list.
Release(m) ==
    [m EXCEPT !.object = [o \in Object |-> IF o \in Dying(m) THEN Unloaded ELSE @[o]],
              !.cache = [t \in Tag |-> IF t \in Tags(m, Dying(m)) THEN None ELSE @[t]],
              !.db = Deleted(DyingSaved(m), Tags(m, Deserted(m)))]

\* Mutant: the database is asked even if the guild is loaded.
Glance_Database(m, t) ==
    IF t \in m.db.guilds /\ Listed(m.db, t) = <<>>
    THEN [m EXCEPT !.db = Deleted(m.db, {t})] ELSE m

\* A Guild that nobody is loaded for is looked up and dropped at the end of a handler.
Glance(m, t) ==
    IF m.cache[t] = None /\ t \in m.db.guilds /\ Listed(m.db, t) = <<>>
    THEN [m EXCEPT !.db = Deleted(m.db, {t})] ELSE m

\* Guild::AddMember.
AddMember(m, o, c, r) ==
    [m EXCEPT !.guild[c] = o, !.rank[c] = r,
              !.object[o].members = Append(@, [name |-> c, rank |-> r])]

\* The same for those of a sequence of names who are in the world.
AddMembers(m, o, names, given) ==
    LET joined == {c \in ToSet(names) : InWorld(c)}
        list == SelectSeq(names, InWorld)
    IN  [m EXCEPT !.guild = [c \in Character |-> IF c \in joined THEN o ELSE @[c]],
                  !.rank = [c \in Character |-> IF c \in joined THEN given[c] ELSE @[c]],
                  !.object[o].members =
                      @ \o [i \in DOMAIN list |-> [name |-> list[i], rank |-> given[list[i]]]]]

\* Guild::DelMember for a set: who is in the world loses its guild, whichever that is, and
\* has its row written with the next save.
DelMembers(m, S) ==
    [m EXCEPT !.guild = [c \in Character |-> IF c \in S /\ InWorld(c) THEN None ELSE @[c]],
              !.rank = [c \in Character |-> IF c \in S /\ InWorld(c) THEN 0 ELSE @[c]],
              !.db.guild = [c \in Character |-> IF c \in S /\ ~InWorld(c) THEN None ELSE @[c]],
              !.db.rank = [c \in Character |-> IF c \in S /\ ~InWorld(c) THEN 0 ELSE @[c]]]

Unlisted(m, o, c) ==
    [m EXCEPT !.object[o].members = RemoveFirstMatch(@, LAMBDA e : e.name = c)]

\* Mutant: only the list of members forgets him.
DelMember_ListOnly(m, o, c) == Unlisted(m, o, c)

DelMember(m, o, c) == DelMembers(Unlisted(m, o, c), {c})

GetMember(o, c) == SelectInSeq(object[o].members, LAMBDA e : e.name = c)

\* Guild::SetMemberRank.
SetMemberRank(o, c, r) ==
    /\ object' = [object EXCEPT ![o].members[GetMember(o, c)].rank = r]
    /\ guild_rank' = IF InWorld(c) THEN [guild_rank EXCEPT ![c] = r] ELSE guild_rank
    /\ UNCHANGED <<guild, cache, database>>

\* Guild::Disband walks a copy of the list.  When the last member that is loaded has
\* been removed, the object is destroyed under it: for whom of the others the walk still
\* has an effect is undefined.
Disband(m, o) ==
    LET list == m.object[o].members
        users == {c \in Character : m.guild[c] = o}
        names == {e.name : e \in ToSet(list)}
        destroyed == \A c \in users : InWorld(c) /\ c \in names
        end == IF destroyed
               THEN CHOOSE i \in DOMAIN list :
                       users \subseteq {list[j].name : j \in 1..i}
                       /\ ~(users \subseteq {list[j].name : j \in 1..(i - 1)})
               ELSE Len(list)
        first == {list[j].name : j \in 1..end}
        Walked(S) == [DelMembers(m, S) EXCEPT !.object[o].members = SubSeq(list, end + 1, Len(list))]
    IN  {Walked(first \union more) : more \in SUBSET (names \ first)}

-----------------------------------------------------------------------------
\* Rows as a commit leaves them: members have a guild that exists, and one that does not
\* has no gold.  When the server dies, what was written since is lost, and it starts again
\* with such rows: a crash leads to an initial state and is no action of its own.
Consistent(db, T) ==
    \A t \in T \ db.guilds : db.bank[t] = 0 /\ \A c \in Character : db.guild[c] # t

\* The rank of who has no guild is not looked at.
Unranked(db) == \A c \in Character : db.guild[c] = None => db.rank[c] = 0

Database == [guilds : SUBSET Tag, bank : [Tag -> 0..GuildBankMax],
             guild : [Character -> Tag \union {None}], rank : [Character -> 0..(MaxRank + 1)]]

Init ==
    /\ place = [c \in Character |-> "Away"]
    /\ guild = [c \in Character |-> None] /\ guild_rank = [c \in Character |-> 0]
    /\ guild_join = [c \in Character |-> None] /\ guild_invite = [c \in Character |-> None]
    /\ guild_create = [c \in Character |-> NoDraft]
    /\ object = [o \in Object |-> Unloaded]
    /\ cache = [t \in Tag |-> None] /\ create_cache = [t \in Tag |-> None]
    /\ database \in Database /\ Consistent(database, Tag) /\ Unranked(database)

\* Character::Character, for the list of characters of an account.
Arrive(c) ==
    LET t == database.guild[c]
        found == IF t = None THEN None ELSE cache[t]
    IN
    /\ place[c] = "Away"
    /\ place' = [place EXCEPT ![c] = "Menu"]
    /\ guild_rank' = [guild_rank EXCEPT ![c] = IF t = None THEN 0 ELSE database.rank[c]]
    /\ \/ /\ found = None /\ t \in database.guilds
          /\ \E o \in Object :
                /\ ~Loaded(o)
                /\ LET m == Load(Memory, t, o) IN object' = m.object /\ cache' = m.cache
                /\ guild' = [guild EXCEPT ![c] = o]
       \/ /\ found # None \/ t \notin database.guilds
          /\ guild' = [guild EXCEPT ![c] = found]
          /\ UNCHANGED <<object, cache>>
    /\ UNCHANGED <<guild_join, guild_invite, guild_create, create_cache, database>>

\* World::Login.
Enter(c) ==
    /\ place[c] = "Menu"
    /\ place' = [place EXCEPT ![c] = "World"]
    /\ UNCHANGED <<guild, guild_rank, guild_join, guild_invite, guild_create, object,
                   cache, create_cache, database>>

\* What Character::Save writes of the guild.
Written(db, S) ==
    [db EXCEPT !.guild = [c \in Character |-> IF c \notin S THEN @[c]
                             ELSE IF guild[c] = None THEN None ELSE object[guild[c]].tag],
               !.rank = [c \in Character |-> IF c \in S THEN guild_rank[c] ELSE @[c]]]

\* Guild_Create::~Guild_Create, which also takes the guild of that tag out of the cache,
\* at the end of a handler.
Abandon(c, m) ==
    LET g == guild_create[c] IN
    /\ guild_create' = [guild_create EXCEPT ![c] = NoDraft]
    /\ IF g.tag = None THEN Becomes(m) /\ UNCHANGED create_cache
       ELSE /\ create_cache' = [create_cache EXCEPT ![g.tag] = None]
            /\ Becomes([m EXCEPT !.cache[g.tag] = None])

\* Player::Logout and Character::Logout: only a character in the world is saved.  Then
\* it is destroyed, and with it what it refers to.
Logout(c) ==
    LET db == IF InWorld(c) THEN Written(database, {c}) ELSE database
        m == [Memory EXCEPT !.db = db, !.guild[c] = None, !.rank[c] = 0]
    IN  /\ place[c] # "Away"
        /\ place' = [place EXCEPT ![c] = "Away"]
        /\ Abandon(c, Release(m))
        /\ guild_join' = [guild_join EXCEPT ![c] = None]
        /\ guild_invite' = [guild_invite EXCEPT ![c] = None]

\* Character::Warp, as far as guilds go.
Warp(c) ==
    /\ InWorld(c)
    /\ guild_join' = [guild_join EXCEPT ![c] = None]
    /\ guild_invite' = [guild_invite EXCEPT ![c] = None]
    /\ UNCHANGED <<place, guild, guild_rank, guild_create, object, cache, create_cache, database>>

\* world_timed_save: every character, and GuildManager::SaveAll, which knows the cached.
\* What was written since the last time is committed.
TimedSave ==
    LET cached == {t \in Tag : cache[t] # None} IN
    /\ database' = [Written(database, {c \in Character : InWorld(c)}) EXCEPT !.bank =
                      [t \in Tag |-> IF t \in cached THEN Saved(database, object[cache[t]]).bank[t]
                                                     ELSE @[t]]]
    /\ object' = [o \in Object |-> IF Loaded(o) /\ cache[object[o].tag] = o
                                   THEN [object[o] EXCEPT !.needs_save = FALSE] ELSE object[o]]
    /\ UNCHANGED <<place, guild, guild_rank, guild_join, guild_invite, guild_create,
                   cache, create_cache>>

-----------------------------------------------------------------------------
\* Guild_Request: a guild is to be founded.  The characters near, a set, are invited.
Guild_Request(c, t, near) ==
    LET others == {d \in near : d # c /\ guild[d] = None}
        old == guild_create[c]
    IN  /\ InWorld(c) /\ guild[c] = None /\ GuildCreateMembers > 0
        /\ IF Exists(t)
           THEN /\ Becomes(Glance(Memory, t))
                /\ UNCHANGED <<guild_create, create_cache, guild_invite>>
           ELSE /\ t \in Founding
                /\ guild_create' = [guild_create EXCEPT ![c] = [tag |-> t, members |-> <<c>>]]
                /\ create_cache' = [u \in Tag |-> IF u = old.tag THEN None
                                                  ELSE IF u = t THEN c ELSE create_cache[u]]
                /\ cache' = IF old.tag = None THEN cache ELSE [cache EXCEPT ![old.tag] = None]
                /\ guild_invite' = [d \in Character |-> IF d \in others THEN t ELSE guild_invite[d]]
                /\ UNCHANGED <<guild, guild_rank, object, database>>
        /\ UNCHANGED <<place, guild_join>>

\* An invited character agrees, whatever has become of the founder that invited it.
Guild_Accept(c) ==
    LET t == guild_invite[c] IN
    /\ InWorld(c) /\ t # None
    /\ guild_create' = IF create_cache[t] = None THEN guild_create
                       ELSE [guild_create EXCEPT ![create_cache[t]].members = Append(@, c)]
    /\ guild_invite' = [guild_invite EXCEPT ![c] = None]
    /\ UNCHANGED <<place, guild, guild_rank, guild_join, object, cache, create_cache, database>>

\* Guild_Create, with GuildManager::CreateGuild: an INSERT that fails if the tag is taken,
\* and the members who are in the world join.
Guild_Create(c, t) ==
    LET names == guild_create[c].members
        row == [database EXCEPT !.guilds = @ \union {t}, !.bank[t] = 0]
        given == [d \in Character |-> IF d = c THEN 0 ELSE MaxRank]
    IN  /\ InWorld(c) /\ guild[c] = None /\ create_cache[t] = c
        /\ Len(guild_create[c].members) >= GuildCreateMembers
        /\ t \notin database.guilds /\ cache[t] = None
        /\ \E o \in Object :
              /\ ~Loaded(o)
              /\ Abandon(c, Release(AddMembers(Load([Memory EXCEPT !.db = row], t, o), o,
                                               names, given)))
        /\ UNCHANGED <<place, guild_join, guild_invite>>

\* Guild_Tell and Guild_Report.
Guild_Tell(c, t) ==
    /\ InWorld(c)
    /\ Becomes(Glance(Memory, t))
    /\ UNCHANGED <<place, guild_join, guild_invite, guild_create, create_cache>>

\* Guild_Player: c asks r to let it join.
Guild_Player(c, r) ==
    /\ InWorld(c) /\ guild[c] = None
    /\ InWorld(r) /\ guild[r] # None /\ guild_rank[r] <= GuildRecruitRank
    /\ guild_join' = [guild_join EXCEPT ![c] = object[guild[r]].tag]
    /\ UNCHANGED <<place, guild, guild_rank, guild_invite, guild_create, object, cache,
                   create_cache, database>>

\* Guild_Use: c lets j join.
Guild_Use(c, j) ==
    LET o == guild[c]
        g == object[o]
        m == AddMember(Memory, o, j, MaxRank)
        paid == [m.object[o] EXCEPT !.bank = @ - RecruitCost, !.needs_save = TRUE]
    IN  /\ InWorld(c) /\ o # None /\ guild_rank[c] <= GuildRecruitRank
        /\ InWorld(j) /\ guild[j] = None /\ guild_join[j] = g.tag
        /\ g.bank >= RecruitCost /\ Len(g.members) < RecruitCost
        /\ Becomes([m EXCEPT !.object[o] = paid])
        /\ UNCHANGED <<place, guild_join, guild_invite, guild_create, create_cache>>

\* What is taken of a deposit.
Accepted(g, gold) == IF g.bank + gold > GuildBankMax THEN GuildBankMax - g.bank ELSE gold

\* Mutant: the guild is not marked for saving.
Guild_Buy_Unmarked(c, gold) ==
    LET o == guild[c] IN
    /\ InWorld(c) /\ o # None /\ Accepted(object[o], gold) > 0
    /\ object' = [object EXCEPT ![o].bank = @ + Accepted(object[o], gold)]
    /\ UNCHANGED <<place, guild, guild_rank, guild_join, guild_invite, guild_create,
                   cache, create_cache, database>>

\* Guild_Buy, with Guild::AddBank.
Guild_Buy(c, gold) ==
    LET o == guild[c] IN
    /\ InWorld(c) /\ o # None /\ Accepted(object[o], gold) > 0
    /\ object' = [object EXCEPT ![o].bank = @ + Accepted(object[o], gold), ![o].needs_save = TRUE]
    /\ UNCHANGED <<place, guild, guild_rank, guild_join, guild_invite, guild_create,
                   cache, create_cache, database>>

\* Guild_Agree: a new description or new names of ranks.
Guild_Agree(c) ==
    /\ InWorld(c) /\ guild[c] # None /\ guild_rank[c] <= GuildEditRank
    /\ object' = [object EXCEPT ![guild[c]].needs_save = TRUE]
    /\ UNCHANGED <<place, guild, guild_rank, guild_join, guild_invite, guild_create,
                   cache, create_cache, database>>

\* The environment: whom a guild expels or promotes.
MayExpel(o, c) == ActsOnStale \/ place[c] = "Away" \/ (InWorld(c) /\ guild[c] = o)
MayRank(o, c) == ActsOnStale \/ (InWorld(c) /\ guild[c] = o)

\* Guild_Remove.
Guild_Remove(c) ==
    /\ InWorld(c) /\ guild[c] # None
    /\ Becomes(Release(DelMember(Memory, guild[c], c)))
    /\ UNCHANGED <<place, guild_join, guild_invite, guild_create, create_cache>>

Guild_Kick(c, d) ==
    LET o == guild[c] IN
    /\ InWorld(c) /\ o # None /\ guild_rank[c] <= GuildKickRank
    /\ GetMember(o, d) # 0 /\ object[o].members[GetMember(o, d)].rank > guild_rank[c]
    /\ MayExpel(o, d)
    /\ Becomes(Release(DelMember(Memory, o, d)))
    /\ UNCHANGED <<place, guild_join, guild_invite, guild_create, create_cache>>

\* Guild_Junk.
Guild_Junk(c) ==
    LET o == guild[c] IN
    /\ InWorld(c) /\ o # None /\ guild_rank[c] <= GuildDisbandRank
    /\ \A d \in Character : GetMember(o, d) # 0 => MayExpel(o, d)
    /\ \E m \in Disband(Memory, o) : Becomes(Release(m))
    /\ UNCHANGED <<place, guild_join, guild_invite, guild_create, create_cache>>

MayBeGiven(mine, old, new) ==
    \/ new = 0 /\ mine = 0 /\ GuildMultipleFounders
    \/ /\ new # 0
       /\ mine <= (IF new <= old THEN GuildPromoteRank ELSE GuildDemoteRank)
       /\ mine = 0 \/ mine < old
       /\ new > mine \/ (mine <= GuildPromoteSameRank /\ mine <= new)

\* Guild_Rank: a client may ask for a rank of one more than there are.
Guild_Rank(c, d, r) ==
    LET o == guild[c]
        old == object[o].members[GetMember(o, d)].rank
    IN  /\ InWorld(c) /\ o # None /\ GetMember(o, d) # 0
        /\ old # 0 /\ MayBeGiven(guild_rank[c], old, r)
        /\ MayRank(o, d)
        /\ SetMemberRank(o, d, r)
        /\ UNCHANGED <<place, guild_join, guild_invite, guild_create, create_cache>>

Act(c) ==
    \/ Arrive(c) \/ Enter(c) \/ Logout(c) \/ Warp(c)
    \/ Guild_Accept(c) \/ Guild_Remove(c) \/ Guild_Junk(c) \/ Guild_Agree(c)
    \/ \E t \in Tag : \/ \E near \in SUBSET Character : Guild_Request(c, t, near)
                      \/ Guild_Create(c, t) \/ Guild_Tell(c, t)
    \/ \E d \in Character : \/ Guild_Player(c, d) \/ Guild_Use(c, d) \/ Guild_Kick(c, d)
                            \/ \E r \in 0..(MaxRank + 1) : Guild_Rank(c, d, r)
    \/ \E gold \in 1..GuildBankMax : Guild_Buy(c, gold)

Next == (\E c \in Character : Act(c)) \/ TimedSave

Spec == Init /\ [][Next]_vars

-----------------------------------------------------------------------------
TypeOK ==
    /\ place \in [Character -> {"Away", "Menu", "World"}]
    /\ guild \in [Character -> Object \union {None}]
    /\ guild_rank \in [Character -> 0..(MaxRank + 1)]
    /\ guild_join \in [Character -> Tag \union {None}]
    /\ guild_invite \in [Character -> Tag \union {None}]
    /\ guild_create \in [Character -> [tag : Tag \union {None}, members : Seq(Character)]]
    /\ object \in [Object -> Guild]
    /\ cache \in [Tag -> Object \union {None}]
    /\ create_cache \in [Tag -> Character \union {None}]
    /\ database \in Database

\* What the caches point to is alive and has the tag it is found by: the conversions of
\* their weak_ptr never throw, and Guild_Accept finds a founder who is in the world.
CachesAlive ==
    /\ \A t \in Tag : cache[t] # None => Loaded(cache[t]) /\ object[cache[t]].tag = t
    /\ \A t \in Tag : create_cache[t] # None =>
          LET c == create_cache[t] IN
          InWorld(c) /\ guild_create[c].tag = t

\* A Guild is loaded as long as a character refers to it, and no longer.
LoadedWhileUsed ==
    \A o \in Object : Loaded(o) <=> \E c \in Character : guild[c] = o

\* Founding a guild takes it out of the cache at once, so what follows is about the
\* others: guilds that were in the database before the server started.
Settled(o) == Loaded(o) /\ object[o].tag \notin Founding

\* Members share one object, the cached one: none of them acts on a copy of the guild.
OneGuildPerTag == \A o \in Object : Settled(o) => cache[object[o].tag] = o

\* Who has a guild is listed by it, with its rank, and has one the database knows: a
\* guild is not deleted before its last member has gone.
MembersListed ==
    \A c \in Character : guild[c] # None /\ Settled(guild[c]) =>
        /\ object[guild[c]].tag \in database.guilds
        /\ \E i \in DOMAIN object[guild[c]].members :
              LET e == object[guild[c]].members[i] IN
              e.name = c /\ Clamp(e.rank) = Clamp(guild_rank[c])

\* The bank of a guild, in the object or else in its row.
Bank(t) == IF \E o \in Object : Loaded(o) /\ object[o].tag = t
           THEN (CHOOSE g \in {object[o] : o \in Object} : g.tag = t).bank
           ELSE database.bank[t]

\* Gold enters and leaves the bank of a guild only through deposits and recruiting:
\* unloading and loading a guild changes nothing.
BankKept ==
    [][\A t \in (database.guilds \intersect database'.guilds) \ Founding :
         Bank(t)' = Bank(t)
         \/ \E c \in Character : \/ \E gold \in 1..GuildBankMax : Guild_Buy(c, gold)
                                 \/ \E j \in Character : Guild_Use(c, j)]_vars

\* What the timed save commits is what the server could start from: who has a guild has
\* one that exists, and a guild that is gone has left no gold.
CommitsConsistent == [][TimedSave => Consistent(database', Tag \ Founding)]_vars
=============================================================================
