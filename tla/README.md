# EOSERV in TLA+

Specifications, model-checking configurations and machine-checked proofs of the
game server in `src/` (EOSource-Revived, a C++ server for Endless Online). File
and line numbers are those of the commit in `src/`; paths such as `Guild.cpp:388`
are below `src/src/`.

1. [The system](#1-the-system)
2. [Modules](#2-modules)
3. [What the runs check](#3-what-the-runs-check)
4. [What is proved](#4-what-is-proved)
5. [Where code and documentation disagree](#5-where-code-and-documentation-disagree)
6. [Not modelled](#6-not-modelled)
7. [Plan](#7-plan)

## 1. The system

The server is one process with one thread. `EOServer::Tick` (eoserver.cpp) runs
forever: accept at most one connection, `select` on all sockets, read into and
write from ring buffers, cut complete packets out of them (`EOClient::Tick`),
bury clients that are closed, and tick the timers. Everything else is a callback
of a timer: `server_pump_queue` takes one action from the queue of each client and
calls its handler, `server_ping_all` pings them, `world_timed_save` commits to the
database, and NPCs, spells, doors, spikes, arenas and the other events of the
world each have their own.

So nothing here is a data race. What is hard is the *order* of these steps over the
clients, and state that is reached through raw pointers and caches which several
parts have to keep consistent by hand: between two steps of one actor any other may
log out, warp, be kicked, or have its object destroyed. An action of the
specifications is therefore one callback, one handler or one step of the main
loop, and Next is their disjunction.

| component | state it keeps | operations | talks to | what is hard | correct if |
|---|---|---|---|---|---|
| Client sessions (`eoclient`, `player`, handlers `Init`, `Login`, `Account`, `Character`, `Welcome`, `Connection`) | state of the connection, its player, the characters loaded and chosen, packet queue, open ping | accept, dispatch, log in, create and delete characters, enter the world, ping, close, bury | World (login check, list of characters), database, timers | a closed client lives on until it is buried; packets queued before a close; menus in unusual orders; exceptions half way through a handler | handlers find the pointers they follow; one client per account; the world lists exactly who plays |
| Admission (`eoserver`, `socket`) | log of addresses, clients | accept, reject, close, bury | sessions | a log erased while it is read; clients that are closed but still count | limits of addresses and connections, the wait between them; nobody is kept out for ever |
| Sequence numbers (`eoclient`, `packet`, `handlers/Init`) | two starts and a counter for each side | count, change the start with a ping and its answer | sessions, the player's program | packets of both directions cross, and a pong is checked when received but handled later | an honest client is never closed |
| Trading (`handlers/Trade`, `character`) | fields of both characters | request, accept, offer, agree, exchange, many ways to end | inventory, maps, parties of quests | no trade object: each end must clear both sides | trades are mutual; offers are backed; what was agreed is what is exchanged |
| Parties (`party`, `handlers/Party`) | a pointer in each character and a list in each party | request, accept, leave, remove, disband | characters, quests (shared rewards) | the same fact kept twice; who is removed is looked up in the whole world | pointers and lists agree and outlive nothing |
| Guilds (`guild`, `handlers/Guild`) | shared objects, two caches of weak pointers, rows | found, invite, recruit, leave, expel, rank, bank, disband, save, load | database, characters, timed save | destruction of the last reference saves or deletes the guild, wherever it happens; rows of members are saved later than rows of guilds | one object per guild; members and list agree; the bank survives unloading |
| Characters (`character`) | position, statistics, inventory, links to everything else | load, save, log in and out, warp, items | all | destructor undoes every relation | in the parts above |
| World (`world`) | list of characters, maps, timers, ids | log in, log out, timed save, scripted events | all | the list is walked by timers | the list holds living characters |
| Timers (`timer`) | set of events, list of a tick | register, unregister, tick | every component | callbacks register and destroy events of the tick that runs them | no event runs after its destruction or before its time; due events run |
| Database (`database`) | connection, transaction and its log | query, begin, commit, roll back, reconnect and replay | guilds, characters, accounts | a connection lost at any point of a transaction | committed as a whole, or not at all; every query ends |
| Sockets (`socket`, `eoclient`) | two ring buffers for each client, a third during an upload | receive, send, upload, cut packets, close | sessions | wrapping, partial sends, overflow, a buffer that is replaced | packets arrive whole and in order |
| Items and gold (`handlers/Item`, `Bank`, `Locker`, `Shop`, `Chest`, `map`) | inventory, bank, locker, chests, floor | drop, get, deposit, buy, craft | character, map | limits on each side of a transfer; products of integers | nothing is created, and nothing lost but by the limits |
| Maps (`map`, `handlers/Walk`, `Door`, `Chair`, `Warp`) | who and what is where, doors | enter, leave, walk, open, reload | all | reload while characters are on it | a character is on one map |
| NPCs, pets, combat (`npc`, `handlers/Attack`, `Spell`) | opponents and their damage, bosses and their children, whom a character talks to, spell timers | spawn, act, attack, cast, die, reload | timers, characters, maps | the same fact kept by both sides; an opponent, a pet or a priest that has gone | both sides agree; pointers to the living; shares add up |
| Quests (`quest`, `eoplus`) | a context for each quest of a character: its state and progress; states that could not be resumed; the depth of the calls | enter a state, do its actions, check its rules, reset, save, resume, reload | characters, parties, trade | every change an action makes checks the rules again from inside of it; a quest may reset or move itself, throw, or be missing | contexts outlive their use; the depth is counted back; no reward twice |
| Events (`arena`, devil gate, PVP, capture the flag) | who is in, a counter, scores, phase | join, start, score, end | maps, timers | leaving by logout, warp or death | the counter counts those who are in; each player is sent back once |
| Marriage (`handlers/Priest`, `Law`, `world`) | two dialogues, the names of fiances and partners, the ceremony of a priest | engage, request, accept, say "I do", divorce | NPCs, characters, timers | one of them leaves or logs out half way | both or neither are married |
| Small handlers (board, jukebox, barber, citizen, paperdoll, book) | little | one step each | characters | little | arithmetic of gold |
| Chat and commands | none | one step each | all | reach into every component | as those components |
| Packet encoding, game data, expressions, configuration | none | pure functions | all | arithmetic at the bounds | decode what was encoded |
| Console, window, service, list server | none of the game | input and output | – | – | – |

`PROJECT.json` lists each part with its files and status, and under `hazards` what
in this code a test would hardly reach, at its line, with the property that watches
it.

## 2. Modules

| module | models | its state in the code |
|---|---|---|
| `Session` | life of a connection with the handlers of the menus | `EOClient::{state,player,id,needpong,login_attempts,queue}`, `Player::{client,characters,character}`, `World::characters`, tables of accounts and characters |
| `Trade` | trading | `Character::{trading,trade_partner,trade_agree,trade_inventory,inventory,mapid}` |
| `Admission` (on `Connections`) | which connections are let in | `EOServer::connection_log`, `Server::clients` |
| `Party` | parties | `Character::{party,party_trust_send,party_trust_recv,party_send_type}`, `Party::{leader,members}` |
| `Quests` (on `Party`) | the interpreter of quests: what their scripts do to characters, to each other and to parties | `Character::{quests,quests_inactive,mapid,inventory}`, `Quest_Context::{state,state_name,progress}`, `EOPlus::recursive_depth`, `World::quests`, the quest column of characters |
| `Sequence` | sequence numbers of both sides | `EOClient::{seq_start,upcoming_seq_start,seq,needpong,queue}`; the player's program is external |
| `SequenceBytes` | numbers in packets, and the two values a start travels in; operators only, used by `Sequence` | `PacketProcessor`, `EOClient::seq_start` |
| `Guild` | guilds | `Guild`, `Character::{guild,guild_rank,guild_join,guild_invite,guild_create}`, `GuildManager::{cache,create_cache}`, rows of guilds and characters |
| `Items` | items and gold between all the places they can be in | `Character::{inventory,paperdoll,goldbank,bank,bankmax,petinv_open}`, `NPC::inventory` of pets, `Map_Chest::items`, `Map::items`; `net` counts what the game brings in and takes out |
| `Combat` | NPCs with those who fight them, bosses and their children, pets, and whom characters talk to | `Character::{map,unregister_npc,pet,npc}`, `NPC::{alive,hp,killowner,damagelist,totaldamage,parent,marriage}`, `Map::npcs` |
| `Wedding` (on `Combat`) | engagement, ceremonies, divorce | `Character::{fiance,partner}`, `NPC_Marriage` |
| `Arena` (on `Combat`) | the arena of a map | `Map::arena`, `Arena::occupants`, `Character::{arena,next_arena}` |
| `Realm` | `Combat`, `Wedding` and `Arena` together: priests are NPCs that are reloaded, weddings read the maps of characters, arenas are left by deaths, warps and logouts | – |
| `Timer` | the timer with what hangs on it: casting, doors, evacuations, timed spikes, check-ins with the server list | `Timer::{timers,execlist,changed}`, `TimeEvent`, `Character::{spell_event,spell_ready,spell_target}`, `Map_Warp::open`, `map_evacuate_struct` |
| `Alarms` | what `Timer` promises: the abstract specification | – |
| `Database` | `Database::RawQuery` over connections that are lost | `Database::{connected,in_transaction,transaction_log}`; MySQL is external |
| `Store` | what `Database` promises: the abstract specification | – |
| `Tables` | what statements do to rows; operators only, used by both | the tables of `install.sql` |
| `Stream` | bytes between handlers and sockets, both ways | `Client::{send_buffer,recv_buffer}`, `EOClient::{send_buffer2,upload_fh,upload_pos,packet_state,length,data}`; the player's program is external |
| `Characters` | what `Items` and `Party` share: the set of characters | – |
| `Ring` | a ring buffer; operators only, used by `Stream` | `Client::{send_buffer_gpos,send_buffer_ppos,send_buffer_used}` and those of `recv_buffer` |
| `Channel` | what each direction of `Stream` promises: the abstract specification | – |

`MC*` modules add what only TLC needs (symmetry, constraints, sets of requests);
`*Proofs` modules hold theorems: `CharacterProofs` those about `Items` and `Party`,
`WireProofs` those about `Stream` and `Sequence`, the others those about the module they
are named after and the modules it is built on. The names of definitions are those of the code:
`Guild_Kick` is the handler of that name, `Character::Logout` is `Logout`. Operators
named `X_Word` before an `X`, commented "Mutant", are wrong versions of `X` used to
confirm that the properties notice them; no specification uses them.

Conventions and abstractions:

* **One step per handler.** A handler runs to its end before anything else does, so
  it is one action with all it calls; a helper of the code that several handlers
  call is an operator, composed in the order of the calls where the order matters
  (`Party`'s `LeaveOwn` before `Gather`, `Guild`'s `Release` after everything a
  handler held is dropped).
* **Early returns** that change nothing are stuttering steps and therefore not
  actions, except where the step consumes something (a packet of the queue).
* **Dangling pointers** are values: in `Trade`, a partner that was deleted becomes
  `Dangling`, and a character allocated later may turn out to have its address; in
  `Party`, `Char` are addresses, so a new character inherits what others still point
  to. In `Guild`, `Object` are addresses; weak pointers that expired would show as
  an entry of an object that is not loaded.
* **Time** is "may elapse" where its length does not matter (pings, delays of
  queued actions) and a bounded age where it does (`Admission`).
* **Positions** are dropped: characters that have to be near each other may be. The
  map is kept where a handler compares it (`Trade`).
* **Session**: packets are one of the kinds the menus know, plus `Play` for every
  handler of the game. A handler's refusals that differ only in the reply are one
  disjunct.
* **Items**: one map with one chest and one tile, and characters who stand there.
  `Added` and `Removed` are `AddItem` and `DelItem`, with their silent refusals: no
  handler looks at what they return. Where the code asks `CanHoldItem`, which knows
  weights, any part may be taken. Left out are items that are never dropped or taken
  off (lore, cursed, the flags of the event), MaxMap beside MaxTile, protection
  of administrators, and everything an item does when it is used but to disappear.
  `Int32` is a product of two ints: the build defines overflow (`-fwrapv`,
  Makefile.all:15). An order the code draws from a list (`DropAll`) is one order
  here, as only the uids on the floor differ by it.
* **Guild**: every character has an account of its own, so it is loaded ("Menu")
  and then in the "World". Left out are names of guilds (a lookup by name acts as
  one by tag), gold of characters, texts, the ranks that commands and quests set.
  `TimedSave` commits the transaction that has been open since the last one
  (`world.cpp:1101`); a crash loses what was written after it and forgets all
  objects, which is a state of `Init` again: `Init` starts from *any* rows a commit
  can leave (`Consistent`), and `CommitsConsistent` checks that commits leave no
  others. So crash and recovery are covered without an action of their own.
* **Combat**: one map with NPCs of its own and another without. Objects are
  addresses, and what nobody can find any more is `Free`: it was deleted, or leaked
  (a pet that is taken back), and its address may be used again. Characters fight
  alone: parties, `LimitDamage` and the arithmetic of damage are left out, who has to
  be near may be. `KillOwned` excludes the children of a boss, which `NPC::Spawn`
  brings back without a look at who owned them. Bosses are NPCs of the map's file: a
  temporary one would leave the pointers of its children behind (`ASSUME`
  `KindsAreApart`).
* **Wedding**: names are characters, gold, clothes, levels and rings are left out: who
  may be refused for them may be. The partners of a ceremony are raw pointers:
  `Dangling` once the character is deleted. The commands and quests that set a
  partner are left out.
* **Arena**: one arena, no rewards (a quest or a level rule that warped who is given
  one would leave `Arena::Attack` with a pointer that was cleared), and all maps exist.
* **Quests**: a handler is one action, and what the interpreter does inside of it is an
  operator on a record `Memory`: the tables of quests, all contexts made meanwhile, the
  pointers that are `held` on the stack, where everybody is and what they have, the
  depth, and whether an exception was `thrown`. Functions of the code that call each other
  are RECURSIVE operators on that record, loops over actions, rules, quests and members
  are folds. A context is `Live` as long as the table or the stack has it; using another
  is `corrupt`. Scripts are a constant: `MCQuest` has two that use every action that is
  modelled, and every rule but `lostitems`, the opposite of `gotitems`. Left out are reading scripts (and so unknown names of states
  other than those a saved row may have), dialogs beyond the inputs a state waits for,
  quests that are disabled, restrictions on who may start one, and the kinds of actions and
  rules that touch nothing else of the model (experience, spells, clothes, statistics).
  There is one kind of item, and the trade that `Warp` closes is in `Trade`.
  A `setqueststate` on a quest that resets itself on the way would go on with a bare
  pointer (`quest.cpp:590`); the scripts of `MCQuest` do not do it. Answering the dialog
  of a quest that was reset follows a null pointer (`handlers/Quest.cpp:432`);
  `Quest_Accept` is for quests that are there.
* **Timer**: an age is counted in units since an event was registered or was last due,
  and time stands still during a tick. Packet handlers run between ticks and inside
  one, where `server_pump_queue` is called. Events live at addresses, walked in their
  order; a new one takes any that is free. A door may be closed early by the event of
  a door that a reload has replaced. Callbacks throw nothing.
* **Database**: statements are those whose effects the properties tell apart, those of
  a table with a key and those of `pets`, which has none. A value is one of two.
  `RawQuery` is split where the connection can be lost, each with its own place in
  `call.at`. Only MySQL; SQLite has no connection to lose.
* **Stream**: a byte is the packet it belongs to and its place there, so order, loss
  and tearing show. Lengths are scaled: the header of a file takes 2 (6 in the code), a
  buffer 4 and `Chunk` is 3 (8192). After `Close` what is in the buffer still goes out
  until the client is buried, as in the code. A second upload during one throws
  (`eoclient.cpp`) and is left out.

Constants that stand for a circumstance rather than a size:

| constant | when TRUE | why it is a parameter |
|---|---|---|
| `QuestsThrow` (`Session`) | a quest may throw while a character enters the world | depends on the scripts; some properties hold only without |
| `TakesOffers` (`Trade`) | quests or fishing take items that are on offer | those two do not ask `HasItem` (`quest.cpp:755`, `map.cpp:2274`) |
| `AddQuantity` (`Trade`) | offers of an item add up | a setting of the server |
| `StrayKicks` (`Party`) | a leader removes somebody outside of the party | the official client does not; the handler lets it (`Party.cpp:96`) |
| `KillShare` (`Quests`) | a kill counts for the whole party | a setting; when it is off a kill in a party counts for nobody (`npc.cpp:2229`) |
| `ReloadsAgain` (`Quests`) | quests are reloaded a second time while somebody is online | states put aside by the first reload are resumed by the second (section 5) |
| `Founding` (`Guild`), a set of tags | guilds with these tags are founded while the server runs | founding takes the guild out of the cache, and most of what holds for other guilds fails for it (section 5) |
| `ActsOnStale` (`Guild`) | members are expelled or ranked whose character is at the menu, away, or has another guild than the one that lists them | the code does not ask, and lists and characters then disagree (section 5) |
| `ShareMode` (`Combat`) | – | who is paid for a kill, a setting (`misc.ini:71`) |
| `RemoteReloads` (`Combat`) | administrators reload maps they are not on | pets are taken back on the map of the administrator, and not on the one that is reloaded (section 5) |
| `ReusesMemory` (`Combat`) | a character may be loaded where one was deleted that a wedding still points to | depends on the allocator; a stranger is then married (section 5) |
| `DivorcesStale` (`Wedding`) | who is divorced may be at the menu | the row is written, and written over when that character is saved (section 5) |

## 3. What the runs check

Every passing run is exhaustive over its instance. For every property there is at
least one mutated definition under `mutants` that breaks it under the same
configuration: the instance is large enough for the property to fail.

| run | instance | shows |
|---|---|---|
| `session` | 2 clients, accounts, characters; one packet waiting in all queues together | handlers find a player and a living character (`SessionLinked`); one client per account; the world is what the sessions say; what is loaded is what the database holds; ids are unique; a closed client does nothing (`ClosedNeverServes`) |
| `session_live` | 1 client, a queue that can overflow, throwing quests | a client that answers no ping, or floods its queue, is destroyed (`BadClientsFreed`) |
| `trade` | 3 characters, 1 item, 2 maps, amounts to 2, `MaxItem` 3, `MaxTrade` 2, overflow at 4 | pairing, no offers left over, offers backed, agreement is current, an exchange moves what was agreed and creates nothing (`ExchangeIsFair`) |
| `admission` | 3 addresses (one local), 3 places, fair | the limit of an address; an address that keeps trying is let in again and again |
| `party` | 4 characters who ask in a circle, 2 parties, no stray kicks; then 2 of them, 2 quests that reset, start and move each other, one item, 2 maps, depth 5 | a pointer never outlives its party; the two records agree; handlers leave no context used after its end and count the depth back (`HandlersUnwind`); what ends does so once, and a daily reward is taken once a day, over logouts, reloads and quests that are missing (`RewardedOnce`) |
| `sequence` | starts 0, 300 and 1757 with every way to split them, numbers repeat after 4, 4 packets in each direction and the queue | an honest client is never closed for its number |
| `guild` | 2 characters, a tag of the database and one that is founded, 2 objects, bank to 2, ranks 0 to 2, from any consistent rows | what the caches hold is alive, objects are loaded while used; one cached object per guild of the database, which lists its members; the bank changes only by deposits and recruiting; commits are consistent |
| `items` | 2 characters, one with a pet; gold and a ring, up to 3 of both together; every limit at 1 or 2, overflow at 4; a chest of 2 places with one spawn; a shop that sells, buys and makes rings | of nothing is there more than was brought in, and what vanishes vanishes at a limit (`ItemsConserved`); lockers, bank, bag and chest keep to their sizes (`LimitsKept`) |
| `realm` | 2 characters, one with a pet; a boss with a protected child, a temporary NPC, a priest and a clerk of the law; 2 addresses for pets; 2 maps, one with an arena of 2 marks; 2 hp; shares by damage | both records of a fight agree (`OpponentsMatch`); shares add up (`FairShare`); kills belong to somebody who can lose them (`KillOwned`); children fall with their boss; pets are where their owners are; who talks to an NPC talks to a living one (`ServedByLiving`); marriages are mutual; the arena counts who is in it |
| `timer` | 1 character, 4 addresses of which one is the pump's, a door, an evacuation of 2 steps, spikes, check-ins; a tick late by 1 at most | nothing deleted is reached, and who counts on the timer has exactly one event there (`EventsMatch`); `Timer` implements `Alarms`, and no spell comes early (`AlarmsRing`) |
| `database` | 2 rows with keys of 2 values, 1 pet, 2 attempts to connect, transactions of 2 statements, 2 lost connections or crashes | between queries the connection is in the transaction the server thinks it is in (`TransactionMatches`); `Database` implements `Store` (`StoreKept`) |
| `stream` | packets of 2 and 3 bytes one way and 3 and 4 the other, files of 1 to 3, buffers of 4 and 2 | packets are whole on their way, through wraps, partial sends and replaced buffers (`PacketsWhole`); both directions implement `Channel` (`PacketsDelivered`) |

**Bounds, and why they are enough.** The handlers relate at most two actors (a
third is there in `Trade` and `Party`, to interfere with two: an invitation to one
who trades with another, a member kicked from somebody else's party). Sessions are
symmetric in clients; two suffice for every race over an account, a name, an id or
the last place. Queues need to hold a packet at the time of a close and one more
than their limit to overflow: `session_live` does both, while `session` keeps one
packet waiting at a time, because what a queue holds matters only when it reaches
its front. Amounts reach the limit, one above it and the overflow. Addresses in
`admission` are three so that an expired entry, one hidden behind it and one
beyond can be in the log together. In `items` every limit is at most 2, so that each
can be reached and exceeded; `MCItems!Few` stops at states in which something was lost
(the properties are checked on the steps into them), because less of an item enables
nothing that more of it does not. The guild's objects number two so that a second
copy of one guild can exist; rows start anywhere, so histories longer than the
model's are covered by their result. `MCGuild!Small` drafts one guild at a time, has
nobody wait to be recruited meanwhile, and
keeps founded ones without gold and recruits: what two drafts and recruiting do to
the caches is covered by the proofs, and what they do to a founded guild's bank and
list is not claimed.

In `realm` two characters suffice for a kill that is shared, stolen or left by one of
them, for a wedding and for the last two of an arena. Two NPCs fight, one of each kind
whose rules differ, and a third may be spawned, so that a boss has a child in the
list before it, one after it, and one that is erased while the list is walked. What
would multiply without meeting is kept apart by `MCRealm`: `Few` has at most `Limit`
fights and NPCs that are hurt or dead at a time (the last only while everybody is on
the map, and less while somebody talks), and `Peace` has engagements only while all
NPCs are as they are loaded, and games without fights and engagements. Both are
constraints on states, so every step out of such a state is still checked. In
`timer` a second character would only repeat the first: what two events do to each
other is done by those of spell, door, evacuation and check-in. Doubled spikes
stand for an event nobody deletes. In `party`, `MCQuest!Calm` lets four form parties as
long as nobody has a quest, and then two go on, one of whom stays at home with one quest:
that one is there to share rewards and kills. The depth of 5 is reached by the script that
punishes greed with a loop; one below zero shows that it leaks. In `database` two faults are one during a replay
that an earlier one has caused; the attempts are 2 where the code has 10, so that they run out. In
`stream` a buffer of 4 wraps with each second packet, and of the files one leaves a place free, one
fills its buffer to the last place and one makes it grow.

**Named bounds.** `MaxQueued` (MCSession), `MaxEntries` and `Requests` (Party: how
often one is listed, who asks whom), `MaxFlight` and `Period` (Sequence;
the code repeats after 10), `Amounts`, `MaxInt` (Trade, Items), `Object` (Guild),
`MaxNet` (Items: how much of an item the game brings in), `MaxTotal` (Combat: damage
counted for one NPC), `Limit` (MCRealm), `MaxLag` and `Address` (Timer), `MaxDepth` (Quests;
1000 in the code), `MaxLeak` (how far below zero the depth is followed), `MaxItem`, `MaxLog`,
`MaxPets`, `MaxFaults` (Database), `MaxNet` (Stream: bytes on their way to the server).

**Fairness.** `Session!FairSpec` is fair to `Bury`, `ServerPing` and `Pump` of each
client: the main loop buries on every turn, and the timers of pings and pumps are
registered with infinite lifetime in `EOServer::Initialize` (eoserver.cpp). Packets are not
assumed to arrive. `Admission!FairSpec` lets time pass and connections end and be
buried, and is strongly fair to an address that has no connection and keeps trying:
it is a claim about those who go on trying, and acceptance can be disabled for a
moment by full places. `Timer!Spec` is weakly fair to the steps of the tick, which the
main loop calls for ever, and to the requests of check-ins, which time out; it is strongly fair
to `Advance`, as time passes between ticks though it stands still in them.
`Database!Spec` is weakly fair to the steps of `RawQuery` alone, which runs without a
pause: that the database can be reached again is not assumed, and a query then ends with the
server. `Stream!Spec` is weakly fair to sending, receiving and ticking, which assumes
that the player's program takes what it is sent: sockets block, and one that does not
holds up everybody (section 5). The other modules state no fairness and check no liveness.

**Refinement.** `AlarmsRing`, `StoreKept` and `PacketsDelivered` check with
`INSTANCE ... WITH` that `Timer`, `Database` and both directions of `Stream`
implement `Alarms`, `Store` and `Channel`, fairness included. What the abstract
modules require to happen is written without ENABLED, which TLC cannot evaluate
under a substitution. `Alarms` knows neither lists nor addresses: it says that alarms
ring when they are overdue, and that others are left alone when one rings. `Store`
knows no connection: a transaction is stored as a whole, each statement outside of
one at least once, and every statement ends. `Channel` is a queue in which files go
ahead.

**Deadlock** is checked except for `sequence` and `stream` (a closed client and its
server stop for good) and `guild` (a world in which nothing can be
founded and nobody has a guild may have nothing left to do).

## 4. What is proved

All theorems hold for every value of the constants that satisfies the modules'
ASSUMEs, and are checked by TLAPS to the last leaf.

| theorem | says | argument |
|---|---|---|
| `SessionTypes` | `Spec => []TypeOK` | every handler |
| `SessionsLinked`, `AccountsOnOneClient`, `LoadedIsOwned` | `SessionLinked`, `OneClientPerAccount`, `LoadedMatchesDatabase` | inductive together: that a chosen character is loaded needs that nobody else with the account deletes it, that needs one client per account, and what is loaded is compared with the rows of the same account |
| `PlayerIdsUnique` | `UniquePlayerIds` | a pigeonhole argument: of n+1 numbers one is not an id of n clients, so the lowest free id exists and is new; clients not live have id 0 |
| `WorldSafety` | if `~QuestsThrow`: `WorldMatchesSessions`, and no character is played twice | from the same invariant; twice would need two clients of the owner's account |
| `ClosedClientsRest` | `ClosedNeverServes` | every handler needs an open client |
| `TradeTypes`, `TradeSafety` | `TypeOK`; `TradesArePaired` and `NoOfferOutsideTrade` | inductive together, since handlers follow and write through `trade_partner`: types need the pairing |
| `OffersAreBacked` | if nothing takes offers: `OffersBacked` | strengthened by what an inventory can hold; needs `HasItem` to subtract the offer |
| `AgreementsAreCurrent` | `AgreementIsCurrent` | an action property from the pairing |
| `ExchangesAreFair` | if nothing takes offers: `ExchangeIsFair` | the invariant of `OffersAreBacked`, and that the total of an item over all characters moves with what one or two of them hold |
| `ExchangeConserves` | the arithmetic of an exchange of backed offers | a lemma about `AddItem` and `DelItem` alone |
| `AddressLimited` (in `SessionProofs`) | `AddressLimit` | counts with cardinalities of finite sets: a rejected client never stays |
| `ItemsTyped`, `LimitsAreKept` | `TypeOK` of `Items`, and `LimitsKept` | inductive together |
| `ItemsAreConserved` | `ItemsConserved`, for any recipes, spawns and limits | argument below |
| `MembershipIsKnown` | `MembershipKnown` whoever is kicked | lemmas for `Leave`, `Join`, `Found`, `Disband` on the record of all parties, composed per handler |
| `MembersAgree` | if `~StrayKicks`: `MembersMatch` | the same lemmas with the stronger invariant |
| `PacketsAreWhole` | `PacketsWhole`, for every length of packets, files and buffers | invariant below |
| `PacketsInTurn` | the safety part of `PacketsDelivered`: both directions of `Stream` implement `Channel!Safe` | the same invariant, and one step of a channel, or none, for each step |
| `NothingIsForgotten` | the action properties of `PacketsDelivered` | from the steps of the channels |
| `NumbersDecode` | `Number` inverts `ENumber` below 253⁴ | digit by digit; one lemma of division with a symbolic divisor |
| `StartsDecode` | the client computes every start from what it is sent | bounds of the parts, then `NumbersDecode` for a char and a short |
| `NumbersAreRight` | `NeverWrongNumber`, for every period and number of packets under way | invariant below |
| `CachesHoldLiving` | `CachesAlive`, whatever is founded or expelled | invariant below |
| `LoadedExactlyWhileUsed` | `LoadedWhileUsed` | invariant below |
| `MembersShareOneGuild`, `MembersAreListed`, `CommitsAreConsistent`, `BankIsKept` | if members are expelled and ranked only while list and character agree (`ActsOnStale = FALSE`): `OneGuildPerTag`, `MembersListed`, `CommitsConsistent`, `BankKept` | invariant below |
| `OpponentsAgree`, `KillsAreOwned`, `TalkIsToLiving`, `ArenaIsCounted` | `OpponentsMatch`, `KillOwned`, `ServedByLiving`, `OccupantsCounted` | invariant below |
| `KillsAreShared` | if the share is one of the three `misc.ini` explains (`ShareMode` below 3) and a kill is worth a number: `FairShare` | invariant below |
| `ChildrenFallWithBosses` | `ChildrenFall` | invariant below |
| `PetsKeepUp` | if maps are not reloaded from afar (`RemoteReloads = FALSE`): `PetsFollow` | the same invariant, in which a pet is gone only by such a reload |
| `MarriagesAreMutual` | if divorces are of those who are still married, memory is not used again under a ceremony, and there is one priest: `MarriagesMutual` | invariant below |
| `TransactionIsKept` | `TransactionMatches` | invariant below |
| `StoreIsSafe` | the safety part of `StoreKept`: `Database` implements `Store!Safe` | the same invariant, and one step of the store, or none, for each step |
| `EventsAreMatched` | `EventsMatch` | invariant below |
| `SpellsAreNotEarly`, `AlarmsAreKept` | the safety part of `AlarmsRing`: `NotEarly`, and `Timer` implements `Alarms!Safe` | the same invariant, and one step of the alarms, or none, for each step |

The invariant of `GuildProofs` is `IInv == Sound(Memory) /\ Referred(Memory) /\
Drafts /\ Apart`: what the caches name is loaded under that tag and what characters
name is loaded (`Sound`), what is loaded is named by a character (`Referred`), the
cache of drafts names founders in the world with that draft (`Drafts`), and a
character that is not loaded names nothing (`Apart`). It is
needed because the methods change five things at a time and destructors run at the
end of a handler: between `Release` and the end `Referred` does not hold. So there
is a lemma per method on the record `Memory` (what it keeps `Sound`), one for
`Release` (it restores `Referred`), and then one step per handler.

What is said of banks, lists and rows is `Settling`: one object per guild of the
database, the one in the cache (`Sole`), which lists those who have it with their ranks
(`Listing`) and those who are away and will find it there when they come back
(`Expected`); a bank that is that of the row unless it is marked (`Banked`); and no row
of a member or of gold for a guild that does not exist (`Consistent`). `BankIsKept` follows the gold of a guild from its row to its object and
back when the object is freed. The hypothesis is the one the `guild` run makes too
(section 2): the code does not ask, and section 5 says what it does without it.

`WireProofs` is about what goes over a connection. That of `Stream` begins with the
buffers: `Contents(Put(r, b)) = Contents(r) \o b` if there is room (`PutRing`), and what
`Take` leaves follows what `Peek` gave (`TakeRing`), for every size and wherever the buffer
turns round. The buffer of a file does not turn (`IsUpload`): its place `i` holds byte `i`
of the file until it is sent, and the first place stays free, so that a file as long as its
buffer writes its last byte beyond it. The invariant is `StreamInv == OutInv /\ InInv` and
types. `OutInv` says that what the player's program has read last, the buffer and what waits
are one stream in order (`Plain`), or, during an upload, that as much of the file was read as
has left its buffer and that what waits begins with a packet (`Filed`); `InInv` that the part of a packet that was
taken, the buffer and the net are one stream, and that the server waits for as many bytes as
the packet lacks (`IsPart`). `PacketsWhole` alone is not inductive: it does not say where buffers
begin, nor that a part that was taken is one of a packet. From the invariant follows
that `Begun`, the packets of which the first byte is there, changes like the queue of
`Channel`: sending adds one, an upload puts one before, what the socket takes is the front
(`HalfLeft`: of a packet of which some was read the name is still owed), and growing, filling and swapping
buffers change nothing. `Begun` is a recursive function, and what it does to a concatenation is
proved by a least counterexample.

Of the sequence numbers `WireProofs` describes the packets under way. There is at most one ping between a
server that waits for a pong and its client, itself or as its answer (`OnePing`); the
packets on their way count on from what the server has counted, those from the answer on
from the new start (`NumbersGoOn`); and while the connection is being made either side
is at the place the other expects (`Greeting`). Since the server moves to the next start when it *handles* the pong, and
the client when it sends it, what lies between the two in the queue is what matters.

`CharacterProofs` begins with `Items`, whose invariant is inductive as it stands:
`Inv == TypeOK /\ LimitsKept`. It is seldom the handlers that keep a size: it is what they
call, so there are lemmas on what `Added` and `Removed` bound, what putting into a chest,
taking from it and spawning in it do with its entries and their slots, and what dropping
and lifting do with the floor. `ItemsConserved` compares a sum over every place an item
can be in with `net`. A sum changes by what one of its terms does (`SumFunction` over the
characters, over the floor and over the entries of the chest), so each handler has its
balance: what it brought in, less the change of what one character holds, of the floor and
of the chest, is what was lost (`LostMore`). Then the loss is zero, or one of the limits
that the property names has cut it. Three handlers act on sequences in folds: a character drops
all it has when it dies, things are made out of recipes and what those need, and all the
spawns of a chest appear that are due. The folds are unrolled into the stages they go
through, and what holds of the first stage and from one to the next, holds of the last.
The proof met what the small instance does not reach: one request follows every recipe
there is for an item (`Shop.cpp:21`), and what an int cannot hold is refused for what the
pet has, too; the property names both now. And an ingredient that a recipe names twice is
looked for twice, each time alone, before any is taken (`Shop.cpp:27` and `41`), so the
second may find less than it takes: `net` counts what was there.

The invariant of `RealmProofs` is `Kept(Memory)`: both records of a fight agree
(`Matched`), what is on a map is in memory (`Placed`), pets are where their owners are
(`Followed`), whoever talks to an NPC is on its map (`Talking`), kills belong to opponents
(`Owned`), the NPCs of a file are on its map (`Rooted`), and the counter of the arena is
the number of its marks (`Counted`). None of them is inductive alone: a death rewards
an owner, who must be in the world, erases what characters remember, sends away pets and
children, and may warp its victim into or out of the arena. Within a handler two hold
only in part, for pets that have died and are still listed and for NPCs that are about to
die: `Sane(S, P, E)` is the invariant but for those, and there is a lemma for
each method (`Forget`, `Delete`, `Die`, `Spawn`, `Killed`, `Warp`, `Logout`, ...) on what it
keeps of it, one for lists that are walked while they are erased from, and a
step for each handler. Weddings add that those who are led through a ceremony are two and
not married yet (`Courted`); for it each method also says that it starts no ceremony. The hypothesis of one priest is of substance: of two
at once one could marry a character to two (section 5).

`FairShare` needs what `total` has to do with `damage`: it is the sum of what each
character has done, or more for NPCs that are spared hits (`Tallied`), whatever that sum is
taken over, since who has done nothing counts nothing. `Attack` and `Logout` change the sum
and one of its terms by the same number; every other method keeps both or forgets both
(`Tidy`), which is proved along the same methods as `Kept`. From there the shares are
arithmetic: each is rounded up by less than one, so together they are worth the kill and at most
one short of a point more for each opponent. ShareMode 3 is excluded because there the code
pays everybody the whole (section 5).

`ChildrenFall` needs more than one would think. A boss that dies erases temporary children
from the list it walks, and so steps over what comes next and reads the end of the list
twice. It meets every child of the file all the same, since these come first in the list,
in the order of the file, and are never erased (`Begins`): up to there the walk reads
the list as it was. `Reared(Memory)` says that, that the parent of a child is a boss (so that one
that respawns because its parent lives has a boss that does), and that while a child lives
so does a boss; a map that is loaded has all its NPCs alive. It is proved along
the same methods again, most of which bring no child to life and let no boss die (`Rears`).

The invariant of `DatabaseProofs` is a trace: what the open transaction has written is
what its log makes, one statement after the other, of the tables it was begun over
(`Trace`), and a replay that has come to a place of the log is at that place of the
trace (`Back`). A COMMIT whose answer was lost is the exception: its log is replayed over
tables that hold the transaction already. Then, row by row, the replay agrees
with the trace, or is about to be refused, or is about to delete, or stays where the
transaction ends (`Follows`), so at the end of the log every row with a key is as it was
written, which is what the store promises. The trace is there because
an induction over the log would be out of reach; it grows with every statement instead.

The invariant of `TimerProofs` is `Sound(Memory, {}) /\ Waiting(Memory)`. Events are in memory
exactly while they are registered, the second argument being those that are not because
they have come to the end of their life and are being called (`Held`); a character that casts and
its event find each other and agree on the time since it was asked for (`Casts`,
`Registered`); and a door that is open, an evacuation and the chain of check-ins have their
events, of the last two kinds just one (`Waiting`). `EventsMatch` alone is not
inductive: it says neither how long an event lives, nor that memory holds no others than those
that are registered, without which a new event could be taken for an old one. An event that
has come to its end is unregistered before its callback and deleted after it; in between it is
the second argument of `Sound`, and the lemmas about callbacks say that it is still there. The
list that is walked may be anything in the invariant: that a tick looks each
event up in `timers` before it calls it (`Ahead`) is all the proof needs of it. The fold over
those who are jailed goes over a finite set, by a least counterexample again.

**Assumptions on constants** are the ASSUMEs of the modules, which TLC evaluates in every
run: that model values are apart from each other and from records, that bounds are
numbers, and for `Realm` which NPCs are of which kind. `Stream` has
buffers of a power of two, which the code asserts, packets longer than the two bytes that say their
length, and files that fit in a buffer that was doubled 16 times (2 GiB for the 32 KiB of the code).
`Items` has finitely many characters and items, a MaxItem that an int can hold, prices and
the sizes of boxes that are not negative, and shops and chests whose data name items.

Model-checked only:

* Liveness, and with it the refinements as a whole (`BadClientsFreed`,
  `PersistentGetsIn`, `AlarmsRing`, `StoreKept`, `PacketsDelivered`): fairness is out of
  reach of TLAPS as ENABLED is. The safety parts of `AlarmsRing`, `StoreKept` and
  `PacketsDelivered` are proved.
* `HandlersUnwind` and `RewardedOnce`, whose evaluator is recursive: `Quests` stays out of
  the prover's reach as it is written, and every other invariant of the runs is proved.

The induction theorems of the library take an operator as a parameter, which the installed
provers cannot instantiate. Where a proof needs a sum over a finite set it goes by a
least counterexample instead: of the sets over which the function of partial sums does not
exist, one has the fewest elements, and it cannot exist either (`TradeProofs`, `RealmProofs`,
`TimerProofs`, `CharacterProofs`). So does the walk of a boss, whose steps are numbered. No module
with a theorem uses RECURSIVE operators.

## 5. Where code and documentation disagree

The models follow the code where it does something else than a document, a comment or
the name of a setting says. The circumstance constants of section 2 switch some of
these on and off.

* A quest that throws while a character logs in leaves it in `World::characters` after
  its client is deleted: with `QuestsThrow`, `WorldMatchesSessions` fails (`Session`).
* Reading the log of connections erases an entry and steps over the next one
  (`eoserver.cpp:166`), so that address need not wait: `Admission!Accept`.
* `~Guild_Create` takes the guild it has just founded out of the cache
  (`guild.cpp:79`); the next look loads a copy without members, whose end deletes the
  guild: `Guild!Founding`.
* Expelling or ranking somebody who is at the menu or away does not reach the object
  that is loaded, or the row (`guild.cpp:356`); and as `DelMember` does not ask which
  guild a character has, one that is still in a guild's rows (its own row is written
  only with the next save) can lose the guild it has joined since: `ActsOnStale`.
* MaxPlayers (`server.ini:29`) is compared when an account logs in (`Login.cpp:60`),
  and the character enters the world much later without another look:
  `Session!Welcome_Msg`.
* MaxItem, "Maximum amount of an item you can hold" (`limits.ini:15`), cuts what is
  added to an entry of the inventory, and not what makes a new one
  (`character.cpp:915`): `Items!Added`.
* A pet brings up to MaxPetItem of an item (`limits.ini:20`), and the handler of
  lockers counts with MaxBank: adding to a larger amount destroys what is above
  (`Locker.cpp:109`): `Items!Deposit`.
* What is dropped on a full tile is gone (`Item.cpp:687`): `Items!Item_Drop`.
* A shop ends its search at the first entry that cannot be bought, whichever it is
  (`Shop.cpp:69`): `Items!Bought`.
* MaxConnections (`server.ini:21`) is looked at only where accepting has failed
  (`socket.cpp:664`): `Admission!Accept` has no such guard.
* A leader may remove any player in a party, of whichever party (`Party.cpp:96`):
  `Party!Packet_Remove` with `StrayKicks`.
* Agreeing to found a guild counts entries, and a founder that another founder of the
  same tag had invited agrees to its own (`Guild.cpp:96`), against `guilds.ini:17`;
  who has joined a guild meanwhile is taken out of it by the founding.
* The number of members is compared with RecruitCost (`Guild.cpp:388`), and nothing
  reads GuildMaxMembers (`guilds.ini:13`): `Guild!Guild_Use`.
* A rank one above the last name can be given (`Guild.cpp:681`): `Guild!Guild_Rank`
  for `MaxRank + 1`.
* Each reload of a map adds an event for its timed spikes and deletes none
  (`map.cpp:621`), so they hurt twice as often after the first: `Timer!Reload`.
* With ShareMode 3 each opponent is paid the whole for each of them (`npc.cpp:1924`), where
  `misc.ini` speaks of a fair share; `Combat!Reward`. `FairShare` holds for the others.
* The command that reloads a map takes pets back on the map of the administrator;
  those on the reloaded map leave their owners with a pointer to what was deleted: with
  `RemoteReloads`, `PetsFollow` fails.
* A boss that dies erases children from the list it walks (`npc.cpp:2196`), and steps over
  one for each that is temporary: `Combat!Met`.
* An arena delays newcomers when its block number of players is in it (`arena.cpp:49`), and
  not only when there are more (`arenas.ini:19`). A command does not ask, so
  `Arena!Spawns` has no such guard.
* A wedding goes on when nobody says "I do": states 5 and 8 only wait for it
  (`world.cpp:206`ff). Engagements may change during a ceremony. A second request to a
  priest forgets the ceremony it leads (`Priest.cpp:96`); one of two priests at once
  could marry one character to two.
* `world.cpp:58` reads whether a partner is online from its object, which may be
  deleted: with `ReusesMemory` a stranger who was loaded there is married.
* A divorce from somebody at the menu is written to the row and lost with the next
  save of that character (`Law.cpp:104`): `DivorcesStale`. One from a deleted
  character is refused (`Law.cpp:87`).
* A file that fills its buffer to the last place is read to one place after the
  buffer's last (`eoclient.cpp:316`, where the comment above it says otherwise), and its
  last byte is not sent: `Stream!PutBeyond`, and `Full` in `PacketsWhole`.
* A file that is sent while a packet is half sent comes in its middle: `torn`.
* Sockets of players block: `socket.cpp:679` sets the flags of the listening socket.
  The fairness of `Stream` assumes a program that reads.
* A connection that is lost after a statement and before its answer has it executed
  again (`database.cpp:372`): a row without a key may be there twice. `Store` promises
  no more.
* The counter that stops scripts that call themselves loses one for each action of a
  state that leads to another, since the `return` leaves the lambda only
  (`context.cpp:87`): it falls below zero for all characters and allows deeper calls from
  then on, and the old state's actions go on after the change: `Quests!Counted`.
* `startquest` for a quest that was reset puts its new context nowhere, as the entry
  without one is still there (`quest.cpp:554`), and `resetquest` asks whether the quest
  it is an action of has a count, not the one that is reset (`quest.cpp:572`):
  `Quests!StartQuest`, `Restarts`.
* A reload puts states aside in a set that is never cleared and takes no second state of a
  quest (`world.cpp:2506`), so the next one resumes what the first has put there: with
  `ReloadsAgain`, `RewardedOnce` fails.
* A quest whose saved state loops keeps its character out of the world, as every login
  throws (`character.cpp:1780`): `Quests!EnterWorld`.

## 6. Not modelled

* The parts listed as `not_modelled` or `partly` in `PROJECT.json`, each with its
  reason; those the plan takes up next are in section 7.
* Wording and layout of packets, logging, and what a client shows.
* What commands of administrators do to the modelled parts (kicking, warping and
  jailing act as a close or a `Warp`; setting a guild rank or a partner is left out).
* In `Session`, `Guild` and `Trade` characters are loaded and saved in one step. A
  query that fails there would need the product with `Database`; that module says what
  they may count on.
* Of `Database`: SQLite, whose rows are collected in a static variable; a statement
  that always kills its connection; a deadlock reported by MySQL, which rolls back
  the whole transaction while `in_transaction` stays TRUE (`database.cpp:376`); the
  commit in `World`'s destructor, which throws if a rehash has switched TimedSave on.
* Of `Timer`: a thread that cannot be started (`sln.cpp:109`), and the clock, which the
  thread of a check-in reads while the main one sets it.
* Of `Stream`: a packet that says it is 0 bytes long, after which `EOClient::Tick` reads
  no further; lengths of files above what two bytes say; a reload that throws as an
  upload is running (`map.cpp:3680`).
* Of `Combat`: `Spell.cpp:371`, which walks NPCs while those it kills are erased; a pet
  that kills and then reads the deleted NPC's damage (`npc.cpp`, `NPC::Act`); parties,
  where a temporary NPC leaks unless KillNPCPartyShare is on; `DelSpell`, which does
  not cancel the spell that is being cast; `Quest.cpp:316`, which reads a victim it
  may not have set.
* Loops that never end: over old items on the floor (`world.cpp:1050`), and over the
  characters of a map that is evacuated if it is the jail's (`map.cpp:198`).
* Liveness under fairness and ENABLED stay with TLC, as does what a recursively
  defined function computes for every input (section 4).

## 7. Plan

What is left, in order of what matters most to the game:

1. More of `Quests`: warps of a party, tests of another quest's state, spells and
   opponents, and its composition with `Trade`, whose ends check the rules of both sides
   while one of them is still trading (`Trade.cpp:210`).
2. `Map`: entering, leaving, walking and reloading with positions; capture the flag and
   PVP on `Combat`, as `Arena` is.
