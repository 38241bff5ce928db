------------------------------- MODULE Session -------------------------------
(***************************************************************************)
(* The life of a client connection: accepted, initialised, logged in to an *)
(* account, a character chosen, playing, closed and finally destroyed, and *)
(* the packet queue that every request passes through on the way.          *)
(*                                                                         *)
(* The server is one thread.  EOServer::Tick reads packets, buries dead    *)
(* clients and runs the timers; the timers ping the clients and pump one   *)
(* action from each client's queue.  What interleaves is the order of      *)
(* these steps over the clients, so each is an action here.  The clock is  *)
(* abstracted: a timer or a delay may elapse whenever it is waited for.    *)
(***************************************************************************)
EXTENDS Naturals, Sequences, FiniteSets

CONSTANTS
    Conn,              \* EOClient objects that may exist at one time
    Account,           \* account names
    Char,              \* character names
    Absent,            \* the null pointer
    MaxPlayers,        \* config MaxPlayers
    MaxCharacters,     \* config MaxCharacters
    PacketQueueMax,    \* config PacketQueueMax
    MaxLoginAttempts,  \* config MaxLoginAttempts, 0 for unlimited
    QuestsThrow        \* whether a quest script may throw as a character logs in

ASSUME ConnFinite == IsFiniteSet(Conn)
ASSUME CharFinite == IsFiniteSet(Char)
ASSUME AbsentIsNobody == Absent \notin Account /\ Absent \notin Char
ASSUME LimitsAreNumbers ==
    {MaxPlayers, MaxCharacters, PacketQueueMax, MaxLoginAttempts} \subseteq Nat
ASSUME QuestsThrowIsBoolean == QuestsThrow \in BOOLEAN

VARIABLES
    sock,      \* "free": not in Server::clients; "open"; "closing": closed,
               \* kept two seconds to flush; "dead": closed by force
    state,     \* EOClient::state
    pid,       \* EOClient::id, which a player takes over at login
    player,    \* the account of EOClient::player, or Absent
    attached,  \* whether player->client points back to this client
    loaded,    \* player->characters
    chosen,    \* player->character, or Absent
    needpong,  \* EOClient::needpong
    attempts,  \* EOClient::login_attempts
    queue,     \* EOClient::queue
    world,     \* World::characters, as pairs of a connection and a character
    accounts,  \* rows of the accounts table
    owner      \* the account column of each character row, Absent if no row

account_vars == <<player, attached, loaded, chosen>>
database     == <<accounts, owner>>
vars == <<sock, state, pid, account_vars, needpong, attempts, queue, world, database>>

States  == {"Uninitialized", "Initialized", "LoggedIn", "Playing"}
Packets == {"Init", "Account_Request", "Account_Create", "Login", "Character_Create",
            "Character_Remove", "Welcome_Request", "Welcome_Msg", "Play", "Ping"}
Actions == [packet : Packets, auto_queue : BOOLEAN]

Live == {c \in Conn : sock[c] # "free"}          \* Server::clients
Open == {c \in Conn : sock[c] = "open"}          \* those that are Connected()

(***************************************************************************)
(* Dispatch.                                                               *)
(***************************************************************************)

\* The states each handler is registered for.
AllowStates(packet) ==
    CASE packet = "Init" -> {"Uninitialized"}
      [] packet \in {"Account_Request", "Account_Create", "Login"} -> {"Menu"}
      [] packet \in {"Character_Create", "Character_Remove", "Welcome_Request"}
            -> {"Character_Menu"}
      [] packet = "Welcome_Msg" -> {"Logging_In"}
      [] packet = "Play" -> {"Playing"}
      [] packet = "Ping" -> {"Uninitialized", "Menu", "Character_Menu",
                             "Logging_In", "Playing", "OutOfBand"}

AllowState(c) ==
    CASE state[c] = "Uninitialized" -> "Uninitialized"
      [] state[c] = "Initialized" -> "Menu"
      [] state[c] = "LoggedIn" ->
            IF chosen[c] = Absent THEN "Character_Menu" ELSE "Logging_In"
      [] state[c] = "Playing" -> "Playing"

\* Mutants: Character_Remove registered for the whole LoggedIn state, and
\* Welcome_Request for Playing too.
StateCheck_LateRemove(c, packet) ==
    \/ AllowState(c) \in AllowStates(packet)
    \/ packet = "Character_Remove" /\ state[c] = "LoggedIn"
StateCheck_Rechoose(c, packet) ==
    \/ AllowState(c) \in AllowStates(packet)
    \/ packet = "Welcome_Request" /\ state[c] = "Playing"

StateCheck(c, packet) == AllowState(c) \in AllowStates(packet)

\* Playing handlers go to the back of the queue once, with their own delay.
Requeues(action) ==
    /\ action.auto_queue
    /\ "Playing" \in AllowStates(action.packet)
    /\ "OutOfBand" \notin AllowStates(action.packet)

\* Mutant: the pump serves clients that are closed but not yet buried.
Pumps_Closed(c) ==
    /\ c \in Live
    /\ queue[c] # <<>>
    /\ Len(queue[c]) <= PacketQueueMax

Pumps(c) ==
    /\ c \in Open
    /\ queue[c] # <<>>
    /\ Len(queue[c]) <= PacketQueueMax

\* The pump takes the front action of c, and Handle runs its handler.
Handles(c, packet) ==
    /\ Pumps(c)
    /\ Head(queue[c]).packet = packet
    /\ StateCheck(c, packet)
    /\ ~Requeues(Head(queue[c]))
    /\ queue' = [queue EXCEPT ![c] = Tail(@)]

\* Mutant: closing waits for the queue to drain.
Close_Drained(c) ==
    sock' = [sock EXCEPT ![c] = IF @ = "open" /\ queue[c] = <<>> THEN "closing" ELSE @]

Close(c) == sock' = [sock EXCEPT ![c] = IF @ = "open" THEN "closing" ELSE @]

ForceClose(c) == sock' = [sock EXCEPT ![c] = IF @ = "open" THEN "dead" ELSE @]

-----------------------------------------------------------------------------
(***************************************************************************)
(* Connections.                                                            *)
(***************************************************************************)

\* Mutant: the number of clients, plus one.
FreePlayerID_Count == Cardinality(Live) + 1

\* World::GeneratePlayerID: the lowest id that no client has.
FreePlayerID ==
    CHOOSE i \in 1..(Cardinality(Live) + 1) :
        /\ \A c \in Live : pid[c] # i
        /\ \A j \in 1..(i - 1) : \E c \in Live : pid[c] = j

\* Server::Poll accepts whatever the listening socket offers.
Poll(c) ==
    /\ c \notin Live
    /\ sock' = [sock EXCEPT ![c] = "open"]
    /\ pid' = [pid EXCEPT ![c] = FreePlayerID]
    /\ UNCHANGED <<state, account_vars, needpong, attempts, queue, world, database>>

\* EOClient::Execute queues a packet that has arrived whole.  Bound: a queue is
\* at most one over the limit, which is enough to overflow it.
Execute(c, packet) ==
    /\ c \in Open
    /\ Len(queue[c]) <= PacketQueueMax
    /\ queue' = [queue EXCEPT ![c] = Append(@, [packet |-> packet, auto_queue |-> TRUE])]
    /\ UNCHANGED <<sock, state, pid, account_vars, needpong, attempts, world, database>>

\* A reserved packet or a wrong sequence number, a kick or a ban closes the
\* connection, and so does an exception thrown by a handler.
Disconnect(c) ==
    /\ c \in Open
    /\ Close(c)
    /\ UNCHANGED <<state, pid, account_vars, needpong, attempts, queue, world, database>>

\* A socket error, or a send buffer that is full.
ConnectionLost(c) ==
    /\ c \in Open
    /\ ForceClose(c)
    /\ UNCHANGED <<state, pid, account_vars, needpong, attempts, queue, world, database>>

\* Mutant: the ping is repeated instead of giving up.
ServerPing_Patient(c) ==
    /\ c \in Live
    /\ needpong' = [needpong EXCEPT ![c] = TRUE]
    /\ UNCHANGED <<sock, state, pid, account_vars, attempts, queue, world, database>>

\* server_ping_all
ServerPing(c) ==
    /\ c \in Live
    /\ IF needpong[c] THEN Close(c) /\ UNCHANGED needpong
                      ELSE needpong' = [needpong EXCEPT ![c] = TRUE] /\ UNCHANGED sock
    /\ UNCHANGED <<state, pid, account_vars, attempts, queue, world, database>>

\* Server::BuryTheDead.  ~EOClient logs the player out, which deletes the
\* characters.  ~Character leaves the world if the character got online, which
\* is when its client got to play (Character::Logout).
Bury(c) ==
    /\ sock[c] \in {"closing", "dead"}
    /\ sock' = [sock EXCEPT ![c] = "free"]
    /\ world' = IF state[c] = "Playing" THEN world \ {<<c, chosen[c]>>} ELSE world
    /\ state' = [state EXCEPT ![c] = "Uninitialized"]
    /\ pid' = [pid EXCEPT ![c] = 0]
    /\ player' = [player EXCEPT ![c] = Absent]
    /\ attached' = [attached EXCEPT ![c] = FALSE]
    /\ loaded' = [loaded EXCEPT ![c] = {}]
    /\ chosen' = [chosen EXCEPT ![c] = Absent]
    /\ needpong' = [needpong EXCEPT ![c] = FALSE]
    /\ attempts' = [attempts EXCEPT ![c] = 0]
    /\ queue' = [queue EXCEPT ![c] = <<>>]
    /\ UNCHANGED database

-----------------------------------------------------------------------------
(***************************************************************************)
(* The pump.                                                               *)
(***************************************************************************)

QueueOverflow(c) ==
    /\ c \in Open
    /\ Len(queue[c]) > PacketQueueMax
    /\ Close(c)
    /\ UNCHANGED <<state, pid, account_vars, needpong, attempts, queue, world, database>>

\* A packet that arrives in a state its handler does not allow is dropped.
Drop(c) ==
    /\ Pumps(c)
    /\ ~StateCheck(c, Head(queue[c]).packet)
    /\ queue' = [queue EXCEPT ![c] = Tail(@)]
    /\ UNCHANGED <<sock, state, pid, account_vars, needpong, attempts, world, database>>

Requeue(c) ==
    /\ Pumps(c)
    /\ StateCheck(c, Head(queue[c]).packet)
    /\ Requeues(Head(queue[c]))
    /\ queue' = [queue EXCEPT ![c] =
                    Append(Tail(@), [packet |-> Head(@).packet, auto_queue |-> FALSE])]
    /\ UNCHANGED <<sock, state, pid, account_vars, needpong, attempts, world, database>>

-----------------------------------------------------------------------------
(***************************************************************************)
(* Handlers.                                                               *)
(***************************************************************************)

\* Too many connections of one computer close the client by force, and the
\* handler goes on; a bad hdid, a ban or a refused version ends it.
Init_Init(c) ==
    /\ Handles(c, "Init")
    /\ \/ Close(c) /\ UNCHANGED state
       \/ ForceClose(c) /\ UNCHANGED state
       \/ ForceClose(c) /\ state' = [state EXCEPT ![c] = "Initialized"]
       \/ UNCHANGED sock /\ state' = [state EXCEPT ![c] = "Initialized"]
    /\ UNCHANGED <<pid, account_vars, needpong, attempts, world, database>>

\* Refuses, or tells whether the name is taken; closes when registration is off.
Account_Request(c) ==
    /\ Handles(c, "Account_Request")
    /\ Close(c) \/ UNCHANGED sock
    /\ UNCHANGED <<state, pid, account_vars, needpong, attempts, world, database>>

Account_Create(c, a) ==
    /\ Handles(c, "Account_Create")
    /\ accounts' = accounts \cup {a}
    /\ UNCHANGED <<sock, state, pid, account_vars, needpong, attempts, world, owner>>

\* Mutant: clients that are closing do not count.
PlayerOnline_Open(a) == \E c \in Open : player[c] = a

PlayerOnline(a) == \E c \in Live : player[c] = a

\* A malformed name or password gets a reply, a banned name is closed.
Login_Refused(c) ==
    /\ Handles(c, "Login")
    /\ Close(c) \/ UNCHANGED sock
    /\ UNCHANGED <<state, pid, account_vars, needpong, attempts, world, database>>

Login_Busy(c) ==
    /\ Handles(c, "Login")
    /\ Cardinality(world) >= MaxPlayers
    /\ Close(c)
    /\ UNCHANGED <<state, pid, account_vars, needpong, attempts, world, database>>

\* LoginCheck: no such account or a wrong password, or already logged in.
Login_Failed(c) ==
    /\ Handles(c, "Login")
    /\ Cardinality(world) < MaxPlayers
    /\ IF MaxLoginAttempts = 0
       THEN UNCHANGED <<attempts, sock>>
       ELSE /\ attempts' = [attempts EXCEPT ![c] = @ + 1]
            /\ IF attempts[c] + 1 >= MaxLoginAttempts THEN Close(c) ELSE UNCHANGED sock
    /\ UNCHANGED <<state, pid, account_vars, needpong, world, database>>

\* World::Login loads the account's characters; the whitelist may still refuse.
Login_Accepted(c, a) ==
    /\ Handles(c, "Login")
    /\ Cardinality(world) < MaxPlayers
    /\ a \in accounts
    /\ ~PlayerOnline(a)
    /\ player' = [player EXCEPT ![c] = a]
    /\ loaded' = [loaded EXCEPT ![c] = {ch \in Char : owner[ch] = a}]
    /\ \/ Close(c) /\ UNCHANGED <<attached, state>>
       \/ /\ attached' = [attached EXCEPT ![c] = TRUE]
          /\ state' = [state EXCEPT ![c] = "LoggedIn"]
          /\ UNCHANGED sock
    /\ UNCHANGED <<pid, chosen, needpong, attempts, world, database>>

Character_Create(c, ch) ==
    /\ Handles(c, "Character_Create")
    /\ Cardinality(loaded[c]) < MaxCharacters
    /\ owner[ch] = Absent
    /\ owner' = [owner EXCEPT ![ch] = player[c]]
    /\ loaded' = [loaded EXCEPT ![c] = @ \cup {ch}]
    /\ UNCHANGED <<sock, state, pid, player, attached, chosen, needpong, attempts,
                   world, accounts>>

Character_Remove(c, ch) ==
    /\ Handles(c, "Character_Remove")
    /\ ch \in loaded[c]
    /\ owner' = [owner EXCEPT ![ch] = Absent]
    /\ loaded' = [loaded EXCEPT ![c] = @ \ {ch}]
    /\ UNCHANGED <<sock, state, pid, player, attached, chosen, needpong, attempts,
                   world, accounts>>

Welcome_Request(c, ch) ==
    /\ Handles(c, "Welcome_Request")
    /\ ch \in loaded[c]
    /\ chosen' = [chosen EXCEPT ![c] = ch]
    /\ UNCHANGED <<sock, state, pid, player, attached, loaded, needpong, attempts,
                   world, database>>

\* The character enters the world; without a map to enter it is closed.  World::
\* Login lists the character before Character::Login runs its quests, and what
\* they throw closes the client before its state is set.
Welcome_Msg(c) ==
    /\ Handles(c, "Welcome_Msg")
    /\ \/ Close(c) /\ UNCHANGED <<state, world>>
       \/ /\ world' = world \cup {<<c, chosen[c]>>}
          /\ state' = [state EXCEPT ![c] = "Playing"]
          /\ UNCHANGED sock
       \/ /\ QuestsThrow
          /\ world' = world \cup {<<c, chosen[c]>>}
          /\ Close(c)
          /\ UNCHANGED state
    /\ UNCHANGED <<pid, account_vars, needpong, attempts, database>>

\* The handlers of the game itself, modelled by the other modules.
Play(c) ==
    /\ Handles(c, "Play")
    /\ UNCHANGED <<sock, state, pid, account_vars, needpong, attempts, world, database>>

Connection_Ping(c) ==
    /\ Handles(c, "Ping")
    /\ needpong' = [needpong EXCEPT ![c] = FALSE]
    /\ UNCHANGED <<sock, state, pid, account_vars, attempts, world, database>>

\* A menu handler finds the request in error and only replies.
Menu_Reply(c) ==
    /\ \E packet \in {"Account_Create", "Character_Create", "Character_Remove",
                      "Welcome_Request"} : Handles(c, packet)
    /\ UNCHANGED <<sock, state, pid, account_vars, needpong, attempts, world, database>>

-----------------------------------------------------------------------------
Init ==
    /\ sock = [c \in Conn |-> "free"]
    /\ state = [c \in Conn |-> "Uninitialized"]
    /\ pid = [c \in Conn |-> 0]
    /\ player = [c \in Conn |-> Absent]
    /\ attached = [c \in Conn |-> FALSE]
    /\ loaded = [c \in Conn |-> {}]
    /\ chosen = [c \in Conn |-> Absent]
    /\ needpong = [c \in Conn |-> FALSE]
    /\ attempts = [c \in Conn |-> 0]
    /\ queue = [c \in Conn |-> <<>>]
    /\ world = {}
    /\ accounts \in SUBSET Account
    /\ owner \in [Char -> accounts \cup {Absent}]

Pump(c) ==
    \/ QueueOverflow(c) \/ Drop(c) \/ Requeue(c)
    \/ Init_Init(c) \/ Account_Request(c)
    \/ \E a \in Account : Account_Create(c, a) \/ Login_Accepted(c, a)
    \/ Login_Refused(c) \/ Login_Busy(c) \/ Login_Failed(c)
    \/ \E ch \in Char : \/ Character_Create(c, ch) \/ Character_Remove(c, ch)
                        \/ Welcome_Request(c, ch)
    \/ Welcome_Msg(c) \/ Play(c) \/ Connection_Ping(c) \/ Menu_Reply(c)

Network(c) ==
    \/ Poll(c) \/ Disconnect(c) \/ ConnectionLost(c)
    \/ \E packet \in Packets : Execute(c, packet)

Next == \E c \in Conn : Network(c) \/ ServerPing(c) \/ Bury(c) \/ Pump(c)

Spec == Init /\ [][Next]_vars

\* EOServer::Tick buries the dead on every turn of the main loop, and the
\* timers that ping the clients and pump the queues run forever.
FairSpec ==
    /\ Spec
    /\ \A c \in Conn : WF_vars(Bury(c)) /\ WF_vars(ServerPing(c)) /\ WF_vars(Pump(c))

-----------------------------------------------------------------------------
(***************************************************************************)
(* Properties.                                                             *)
(***************************************************************************)

TypeOK ==
    /\ sock \in [Conn -> {"free", "open", "closing", "dead"}]
    /\ state \in [Conn -> States]
    /\ pid \in [Conn -> Nat]
    /\ player \in [Conn -> Account \cup {Absent}]
    /\ attached \in [Conn -> BOOLEAN]
    /\ loaded \in [Conn -> SUBSET Char]
    /\ chosen \in [Conn -> Char \cup {Absent}]
    /\ needpong \in [Conn -> BOOLEAN]
    /\ attempts \in [Conn -> Nat]
    /\ queue \in [Conn -> Seq(Actions)]
    /\ world \subseteq Conn \X Char
    /\ accounts \subseteq Account
    /\ owner \in [Char -> Account \cup {Absent}]

\* Handlers of the menus and of the game use client->player and player->client
\* without a test: no client is in such a state without a player attached to it,
\* and a chosen character is always one the player still holds.
SessionLinked ==
    \A c \in Conn :
        /\ state[c] \in {"LoggedIn", "Playing"} => player[c] # Absent /\ attached[c]
        /\ state[c] = "Playing" => chosen[c] # Absent
        /\ chosen[c] # Absent => chosen[c] \in loaded[c]

\* Two clients never hold the same account, whatever way the first one is going
\* away: World::LoginCheck tests this against clients not yet buried.
OneClientPerAccount ==
    \A c, d \in Conn : player[c] = player[d] /\ player[c] # Absent => c = d

\* World::characters holds exactly the characters being played.  The world's
\* timers follow these pointers, long after the handler that stored them.
WorldMatchesSessions ==
    \A c \in Conn, ch \in Char :
        <<c, ch>> \in world <=> state[c] = "Playing" /\ chosen[c] = ch

\* A character is in the world once: two copies of it would save over each other.
NoCharacterTwice ==
    \A e, f \in world : e[2] = f[2] => e = f

\* What a session has loaded is what the database says the account owns, so no
\* character in the world has lost its row, and no save revives one.
LoadedMatchesDatabase ==
    \A c \in Conn : player[c] # Absent => loaded[c] = {ch \in Char : owner[ch] = player[c]}

\* The ids clients know each other by are distinct, closed clients included.
UniquePlayerIds ==
    \A c, d \in Live : pid[c] = pid[d] => c = d

\* From the moment it is closed until it is buried, whatever it still has queued,
\* a client does nothing: its session, the world and the database see no more of it.
ClosedNeverServes ==
    [][\A c \in Conn : sock[c] \in {"closing", "dead"} /\ sock'[c] # "free" =>
          <<state[c], player[c], loaded[c], chosen[c], queue[c]>>'
            = <<state[c], player[c], loaded[c], chosen[c], queue[c]>>]_vars

\* A client that leaves a ping unanswered does not keep its slot, its account or
\* its character, nor does one that overfills its queue: it is closed and destroyed.
BadClientsFreed ==
    \A c \in Conn :
        /\ needpong[c] ~> ~needpong[c]
        /\ Len(queue[c]) > PacketQueueMax ~> sock[c] = "free"
=============================================================================
