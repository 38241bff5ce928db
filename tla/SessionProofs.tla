---------------------------- MODULE SessionProofs ----------------------------
(***************************************************************************)
(* Proofs about Session, for every number of clients, accounts and         *)
(* characters and every configured limit, and about Admission, which lets  *)
(* the clients in.                                                         *)
(***************************************************************************)
EXTENDS Session, Connections, FiniteSetTheorems, WellFoundedInduction, TLAPS

-----------------------------------------------------------------------------
(***************************************************************************)
(* Player ids.                                                             *)
(***************************************************************************)

\* A set of natural numbers that is not empty has a least element.
LEMMA LeastElement ==
    ASSUME NEW T, T \subseteq Nat, T # {}
    PROVE  \E i \in T : \A j \in T : i <= j
<1>1. PICK i \in T : \A j \in T : ~ (<<j, i>> \in OpToRel(<, Nat))
    BY NatLessThanWellFounded, WFMin
<1>2. \A j \in T : i <= j
    <2> SUFFICES ASSUME NEW j \in T PROVE i <= j
        OBVIOUS
    <2>1. ~ (<<j, i>> \in {ss \in Nat \X Nat : ss[1] < ss[2]})
        BY <1>1 DEF OpToRel
    <2>2. <<j, i>> \in Nat \X Nat
        OBVIOUS
    <2> QED BY <2>1, <2>2
<1> QED BY <1>2

\* World::GeneratePlayerID finds a number that no client of the server has.
LEMMA FreePlayerIDIsFree ==
    ASSUME TypeOK
    PROVE  FreePlayerID \in Nat /\ \A c \in Live : pid[c] # FreePlayerID
<1> DEFINE n == Cardinality(Live)
           Unused == {i \in 1..(n + 1) : \A c \in Live : pid[c] # i}
<1>1. IsFiniteSet(Live) /\ n \in Nat
    <2>1. Live \subseteq Conn BY DEF Live
    <2> QED BY <2>1, ConnFinite, FS_Subset, FS_CardinalityType
<1> HIDE DEF n
<1>2. Unused # {}
    <2> SUFFICES ASSUME Unused = {} PROVE FALSE
        OBVIOUS
    <2> DEFINE f == [i \in 1..(n + 1) |-> CHOOSE c \in Live : pid[c] = i]
    <2>1. \A i \in 1..(n + 1) : f[i] \in Live /\ pid[f[i]] = i
        OBVIOUS
    <2>2. f \in [1..(n + 1) -> Live]
        BY <2>1
    <2>3. IsFiniteSet(1..(n + 1)) /\ Cardinality(1..(n + 1)) = n + 1
        BY <1>1, FS_Interval
    <2>4. Cardinality(Live) < Cardinality(1..(n + 1))
        BY <1>1, <2>3 DEF n
    <2> HIDE DEF f
    <2>5. PICK x \in 1..(n + 1), y \in 1..(n + 1) : x # y /\ f[x] = f[y]
        BY <1>1, <2>2, <2>3, <2>4, FS_PigeonHole
    <2> QED BY <2>1, <2>5
<1>3. PICK i \in Unused : \A j \in Unused : i <= j
    <2>1. Unused \subseteq Nat BY <1>1
    <2> QED BY <1>2, <2>1, LeastElement
<1>4. /\ i \in 1..(n + 1)
      /\ \A c \in Live : pid[c] # i
      /\ \A j \in 1..(i - 1) : \E c \in Live : pid[c] = j
    <2> SUFFICES ASSUME NEW j \in 1..(i - 1) PROVE \E c \in Live : pid[c] = j
        OBVIOUS
    <2>1. j \in 1..(n + 1) /\ j < i
        BY <1>1
    <2>2. j \notin Unused
        BY <1>1, <1>3, <2>1
    <2> QED BY <2>1, <2>2
<1>5. FreePlayerID \in 1..(n + 1) /\ \A c \in Live : pid[c] # FreePlayerID
    BY <1>4 DEF FreePlayerID, n
<1> QED BY <1>1, <1>5

-----------------------------------------------------------------------------
(***************************************************************************)
(* Type correctness.                                                       *)
(***************************************************************************)

\* The first action taken from a queue, and the ways the pump changes a queue.
LEMMA QueueTypes ==
    ASSUME NEW q \in Seq(Actions)
    PROVE  /\ q # <<>> => Tail(q) \in Seq(Actions) /\ Head(q) \in Actions
           /\ \A a \in Actions : Append(q, a) \in Seq(Actions)
OBVIOUS

\* Every step keeps the queues queues.
LEMMA QueueStepTypes ==
    ASSUME TypeOK, [Next]_vars
    PROVE  queue' \in [Conn -> Seq(Actions)]
<1> USE DEF TypeOK
<1>1. CASE UNCHANGED vars
    BY <1>1 DEF vars
<1>2. ASSUME NEW c \in Conn, NEW packet \in Packets, Execute(c, packet)
      PROVE  queue' \in [Conn -> Seq(Actions)]
    BY <1>2, [packet |-> packet, auto_queue |-> TRUE] \in Actions, QueueTypes
    DEF Execute, Actions
<1>3. ASSUME NEW c \in Conn, Requeue(c)
      PROVE  queue' \in [Conn -> Seq(Actions)]
    <2> DEFINE again == [packet |-> Head(queue[c]).packet, auto_queue |-> FALSE]
    <2>1. queue[c] \in Seq(Actions) /\ queue[c] # <<>>
        BY <1>3 DEF Requeue, Pumps
    <2>2. again \in Actions
        BY <2>1, QueueTypes DEF Actions
    <2>3. Append(Tail(queue[c]), again) \in Seq(Actions)
        BY <2>1, <2>2, QueueTypes
    <2> QED BY <1>3, <2>3 DEF Requeue
<1>4. ASSUME NEW c \in Conn, Pumps(c), queue' = [queue EXCEPT ![c] = Tail(@)]
      PROVE  queue' \in [Conn -> Seq(Actions)]
    BY <1>4, QueueTypes DEF Pumps
<1>5. ASSUME NEW c \in Conn, queue' = [queue EXCEPT ![c] = <<>>]
      PROVE  queue' \in [Conn -> Seq(Actions)]
    BY <1>5
<1>6. ASSUME NEW c \in Conn, NEW packet \in Packets, Handles(c, packet)
      PROVE  queue' \in [Conn -> Seq(Actions)]
    BY <1>4, <1>6 DEF Handles
<1>7. ASSUME NEW c \in Conn, Network(c)
      PROVE  queue' \in [Conn -> Seq(Actions)]
    BY <1>2, <1>7 DEF Network, Poll, Disconnect, ConnectionLost
<1>8. ASSUME NEW c \in Conn, Pump(c)
      PROVE  queue' \in [Conn -> Seq(Actions)]
    BY <1>3, <1>4, <1>6, <1>8
    DEF Pump, QueueOverflow, Drop, Init_Init, Account_Request, Account_Create, Login_Accepted,
        Login_Refused, Login_Busy, Login_Failed, Character_Create, Character_Remove,
        Welcome_Request, Welcome_Msg, Play, Connection_Ping, Menu_Reply, Packets
<1>9. ASSUME NEW c \in Conn, ServerPing(c) \/ Bury(c)
      PROVE  queue' \in [Conn -> Seq(Actions)]
    BY <1>5, <1>9 DEF ServerPing, Bury
<1> QED BY <1>1, <1>7, <1>8, <1>9 DEF Next

\* Closing is the only thing a step that does not bury or accept does to a socket.
Closes(c) == sock'[c] = sock[c] \/ (sock[c] = "open" /\ sock'[c] \in {"closing", "dead"})

\* Such steps of the network, of the ping timer and of most handlers leave the
\* sessions and the world alone: all they do to these is close a client.
Quiet ==
    /\ UNCHANGED <<state, pid, account_vars, world, database>>
    /\ sock' \in [Conn -> {"free", "open", "closing", "dead"}]
    /\ \A c \in Conn : Closes(c)

LEMMA CloseCloses ==
    ASSUME TypeOK, NEW c \in Conn, Close(c) \/ ForceClose(c) \/ UNCHANGED sock
    PROVE  /\ sock' \in [Conn -> {"free", "open", "closing", "dead"}]
           /\ \A d \in Conn : Closes(d)
           /\ \A d \in Conn : d # c => sock'[d] = sock[d]
BY DEF Close, ForceClose, Closes, TypeOK

LEMMA QuietSteps ==
    ASSUME TypeOK, NEW c \in Conn,
           \/ \E packet \in Packets : Execute(c, packet)
           \/ Disconnect(c) \/ ConnectionLost(c) \/ ServerPing(c)
           \/ QueueOverflow(c) \/ Drop(c) \/ Requeue(c)
           \/ Account_Request(c) \/ Login_Refused(c) \/ Login_Busy(c) \/ Login_Failed(c)
           \/ Play(c) \/ Connection_Ping(c) \/ Menu_Reply(c)
    PROVE  /\ Quiet
           /\ needpong' \in [Conn -> BOOLEAN]
           /\ attempts' \in [Conn -> Nat]
<1>1. UNCHANGED <<state, pid, account_vars, world, database>>
    BY DEF Execute, Disconnect, ConnectionLost, ServerPing, QueueOverflow, Drop, Requeue,
           Account_Request, Login_Refused, Login_Busy, Login_Failed, Play, Connection_Ping,
           Menu_Reply
<1>2. Close(c) \/ ForceClose(c) \/ UNCHANGED sock
    BY DEF Execute, Disconnect, ConnectionLost, ServerPing, QueueOverflow, Drop, Requeue,
           Account_Request, Login_Refused, Login_Busy, Login_Failed, Play, Connection_Ping,
           Menu_Reply
<1>3. needpong' \in [Conn -> BOOLEAN]
    <2>1. CASE \E b \in BOOLEAN : needpong' = [needpong EXCEPT ![c] = b]
        BY <2>1 DEF TypeOK
    <2>2. CASE UNCHANGED needpong
        BY <2>2 DEF TypeOK
    <2> QED
        BY <2>1, <2>2
        DEF Execute, Disconnect, ConnectionLost, ServerPing, QueueOverflow, Drop, Requeue,
            Account_Request, Login_Refused, Login_Busy, Login_Failed, Play, Connection_Ping,
            Menu_Reply
<1>4. attempts' \in [Conn -> Nat]
    <2>1. CASE Login_Failed(c)
        BY <2>1, attempts[c] + 1 \in Nat DEF TypeOK, Login_Failed
    <2>2. CASE UNCHANGED attempts
        BY <2>2 DEF TypeOK
    <2> QED
        BY <2>1, <2>2
        DEF Execute, Disconnect, ConnectionLost, ServerPing, QueueOverflow, Drop, Requeue,
            Account_Request, Login_Refused, Login_Busy, Play, Connection_Ping, Menu_Reply
<1> QED BY <1>1, <1>2, <1>3, <1>4, CloseCloses DEF Quiet

LEMMA QuietKeepsTypes ==
    ASSUME TypeOK, Quiet, needpong' \in [Conn -> BOOLEAN], attempts' \in [Conn -> Nat],
           queue' \in [Conn -> Seq(Actions)]
    PROVE  TypeOK'
BY DEF TypeOK, Quiet, account_vars, database

\* Every step preserves the types.
LEMMA TypesPreserved == TypeOK /\ [Next]_vars => TypeOK'
<1> SUFFICES ASSUME TypeOK, [Next]_vars PROVE TypeOK'
    OBVIOUS
<1>q. queue' \in [Conn -> Seq(Actions)]
    BY QueueStepTypes
<1>1. CASE UNCHANGED vars
    BY <1>1 DEF TypeOK, vars, account_vars, database
<1>2. ASSUME NEW c \in Conn, Poll(c) PROVE TypeOK'
    BY <1>2, FreePlayerIDIsFree DEF TypeOK, Poll, account_vars, database
<1>3. ASSUME NEW c \in Conn, Bury(c) PROVE TypeOK'
    <2>1. world' \subseteq Conn \X Char /\ owner' = owner /\ accounts' = accounts
        BY <1>3 DEF TypeOK, Bury, database
    <2> QED BY <1>3, <1>q, <2>1 DEF TypeOK, Bury, States
<1>4. ASSUME NEW c \in Conn, Init_Init(c) PROVE TypeOK'
    <2>1. sock' \in [Conn -> {"free", "open", "closing", "dead"}]
        BY <1>4, CloseCloses DEF Init_Init
    <2>2. state' \in [Conn -> States]
        BY <1>4 DEF TypeOK, Init_Init, States
    <2> QED BY <1>4, <1>q, <2>1, <2>2 DEF TypeOK, Init_Init, account_vars, database
<1>5. ASSUME NEW c \in Conn, NEW a \in Account, Account_Create(c, a) PROVE TypeOK'
    BY <1>5, <1>q DEF TypeOK, Account_Create, account_vars
<1>6. ASSUME NEW c \in Conn, NEW a \in Account, Login_Accepted(c, a) PROVE TypeOK'
    <2>1. sock' \in [Conn -> {"free", "open", "closing", "dead"}]
        BY <1>6, CloseCloses DEF Login_Accepted
    <2>2. state' \in [Conn -> States] /\ attached' \in [Conn -> BOOLEAN]
        BY <1>6 DEF TypeOK, Login_Accepted, States
    <2>3. player' \in [Conn -> Account \cup {Absent}] /\ loaded' \in [Conn -> SUBSET Char]
        BY <1>6 DEF TypeOK, Login_Accepted
    <2> QED BY <1>6, <1>q, <2>1, <2>2, <2>3 DEF TypeOK, Login_Accepted, database
<1>7. ASSUME NEW c \in Conn, NEW ch \in Char,
             Character_Create(c, ch) \/ Character_Remove(c, ch) \/ Welcome_Request(c, ch)
      PROVE  TypeOK'
    <2>1. loaded' \in [Conn -> SUBSET Char]
        <3>1. loaded[c] \cup {ch} \in SUBSET Char /\ loaded[c] \ {ch} \in SUBSET Char
            BY DEF TypeOK
        <3> QED BY <1>7, <3>1 DEF TypeOK, Character_Create, Character_Remove, Welcome_Request
    <2>2. chosen' \in [Conn -> Char \cup {Absent}]
        BY <1>7 DEF TypeOK, Character_Create, Character_Remove, Welcome_Request
    <2>3. owner' \in [Char -> Account \cup {Absent}]
        BY <1>7 DEF TypeOK, Character_Create, Character_Remove, Welcome_Request, database
    <2> QED BY <1>7, <1>q, <2>1, <2>2, <2>3
        DEF TypeOK, Character_Create, Character_Remove, Welcome_Request, database
<1>8. ASSUME NEW c \in Conn, Welcome_Msg(c) PROVE TypeOK'
    <2>1. sock' \in [Conn -> {"free", "open", "closing", "dead"}]
        BY <1>8, CloseCloses DEF Welcome_Msg
    <2>2. chosen[c] \in Char
        BY <1>8 DEF TypeOK, Welcome_Msg, Handles, StateCheck, AllowState, AllowStates, States
    <2>3. state' \in [Conn -> States] /\ world' \subseteq Conn \X Char
        BY <1>8, <2>2 DEF TypeOK, Welcome_Msg, States
    <2> QED BY <1>8, <1>q, <2>1, <2>3 DEF TypeOK, Welcome_Msg, account_vars, database
<1>9. CASE \E c \in Conn : Network(c) \/ ServerPing(c) \/ Pump(c)
    BY <1>q, <1>2, <1>4, <1>5, <1>6, <1>7, <1>8, <1>9, QuietSteps, QuietKeepsTypes
    DEF Network, Pump
<1> QED BY <1>1, <1>3, <1>9 DEF Next

\* Every variable of the model holds a value of its type in every state, for any
\* number of clients and any limits.
THEOREM SessionTypes == Spec => []TypeOK
<1>1. Init => TypeOK
    BY DEF Init, TypeOK, States
<1> QED BY <1>1, TypesPreserved, PTL DEF Spec

-----------------------------------------------------------------------------
(***************************************************************************)
(* Sessions.  The properties are not inductive by themselves: that a login *)
(* finds no other client of the account needs players to be on clients the *)
(* server still lists, and that the world matches the sessions needs to    *)
(* know at which stage of a session each pointer is set.                   *)
(***************************************************************************)

SessionStages ==
    \A c \in Conn :
        /\ state[c] \in {"LoggedIn", "Playing"} => player[c] # Absent /\ attached[c]
        /\ state[c] = "Playing" => chosen[c] # Absent
        /\ chosen[c] # Absent =>
              state[c] \in {"LoggedIn", "Playing"} /\ chosen[c] \in loaded[c]
        /\ player[c] # Absent =>
              \/ state[c] \in {"LoggedIn", "Playing"}
              \/ sock[c] \in {"closing", "dead"}
        /\ sock[c] = "free" => player[c] = Absent

SessionInv ==
    /\ SessionStages
    /\ OneClientPerAccount
    /\ LoadedMatchesDatabase

\* What the guard of each handler says of the session.
LEMMA HandlerStates ==
    ASSUME TypeOK, NEW c \in Conn, NEW packet \in Packets, Handles(c, packet)
    PROVE  /\ sock[c] = "open"
           /\ packet = "Init" => state[c] = "Uninitialized"
           /\ packet \in {"Account_Request", "Account_Create", "Login"} => state[c] = "Initialized"
           /\ packet \in {"Character_Create", "Character_Remove", "Welcome_Request"} =>
                 state[c] = "LoggedIn" /\ chosen[c] = Absent
           /\ packet = "Welcome_Msg" => state[c] = "LoggedIn" /\ chosen[c] # Absent
BY DEF Handles, Pumps, Open, StateCheck, AllowState, AllowStates, TypeOK, States, Packets

LEMMA QuietKeepsSessions ==
    ASSUME TypeOK, SessionInv, Quiet
    PROVE  SessionInv'
<1>1. SessionStages'
    BY DEF SessionInv, SessionStages, Quiet, Closes, account_vars
<1>2. OneClientPerAccount' /\ LoadedMatchesDatabase'
    BY DEF SessionInv, OneClientPerAccount, LoadedMatchesDatabase, Quiet, account_vars, database
<1> QED BY <1>1, <1>2 DEF SessionInv

LEMMA QuietKeepsIdsAndWorld ==
    ASSUME TypeOK, Quiet
    PROVE  /\ UniquePlayerIds => UniquePlayerIds'
           /\ WorldMatchesSessions => WorldMatchesSessions'
<1>1. Live' = Live
    BY DEF TypeOK, Quiet, Closes, Live
<1> QED BY <1>1 DEF Quiet, UniquePlayerIds, WorldMatchesSessions, account_vars

LEMMA SessionsPreserved == TypeOK /\ SessionInv /\ [Next]_vars => SessionInv'
<1> SUFFICES ASSUME TypeOK, SessionInv, [Next]_vars PROVE SessionInv'
    OBVIOUS
<1> USE DEF SessionInv
<1>1. CASE UNCHANGED vars
    BY <1>1 DEF SessionStages, OneClientPerAccount, LoadedMatchesDatabase, vars,
                account_vars, database
<1>2. ASSUME NEW c \in Conn, Poll(c) PROVE SessionInv'
    <2>1. SessionStages'
        BY <1>2 DEF TypeOK, Poll, Live, SessionStages, account_vars
    <2> QED BY <1>2, <2>1 DEF Poll, OneClientPerAccount, LoadedMatchesDatabase, account_vars,
                              database
<1>3. ASSUME NEW c \in Conn, Bury(c) PROVE SessionInv'
    <2>1. SessionStages'
        BY <1>3 DEF TypeOK, Bury, SessionStages
    <2>2. OneClientPerAccount'
        BY <1>3 DEF TypeOK, Bury, OneClientPerAccount
    <2>3. LoadedMatchesDatabase'
        BY <1>3 DEF TypeOK, Bury, LoadedMatchesDatabase, database
    <2> QED BY <2>1, <2>2, <2>3
<1>4. ASSUME NEW c \in Conn, Init_Init(c) PROVE SessionInv'
    <2>1. \A d \in Conn : Closes(d)
        BY <1>4, CloseCloses DEF Init_Init
    <2>2. state[c] = "Uninitialized" /\ sock[c] = "open"
        BY <1>4, HandlerStates DEF Init_Init, Packets
    <2>3. \A d \in Conn : state'[d] = state[d] \/ (d = c /\ state'[d] = "Initialized")
        BY <1>4 DEF TypeOK, Init_Init
    <2>4. SessionStages'
        BY <1>4, <2>1, <2>2, <2>3 DEF Init_Init, SessionStages, Closes, account_vars
    <2> QED BY <1>4, <2>4 DEF Init_Init, OneClientPerAccount, LoadedMatchesDatabase,
                              account_vars, database
<1>5. ASSUME NEW c \in Conn, NEW a \in Account, Account_Create(c, a) PROVE SessionInv'
    BY <1>5 DEF Account_Create, SessionStages, OneClientPerAccount, LoadedMatchesDatabase,
                account_vars
<1>6. ASSUME NEW c \in Conn, NEW a \in Account, Login_Accepted(c, a) PROVE SessionInv'
    <2>1. state[c] = "Initialized" /\ sock[c] = "open"
        BY <1>6, HandlerStates DEF Login_Accepted, Packets
    <2>2. a # Absent /\ \A d \in Conn : player[d] # a
        BY <1>6, AbsentIsNobody DEF Login_Accepted, PlayerOnline, Live, SessionStages
    <2>3. SessionStages'
        BY <1>6, <2>1, <2>2 DEF TypeOK, Login_Accepted, SessionStages, Close
    <2>4. OneClientPerAccount'
        BY <1>6, <2>2 DEF TypeOK, Login_Accepted, OneClientPerAccount
    <2>5. LoadedMatchesDatabase'
        BY <1>6 DEF TypeOK, Login_Accepted, LoadedMatchesDatabase, database
    <2> QED BY <2>3, <2>4, <2>5
<1>7. ASSUME NEW c \in Conn, NEW ch \in Char, Character_Create(c, ch) PROVE SessionInv'
    <2>1. state[c] = "LoggedIn" /\ chosen[c] = Absent
        BY <1>7, HandlerStates DEF Character_Create, Packets
    <2>2. player[c] # Absent
        BY <2>1 DEF SessionStages
    <2>3. SessionStages'
        BY <1>7 DEF TypeOK, Character_Create, SessionStages
    <2>4. LoadedMatchesDatabase'
        BY <1>7, <2>2 DEF TypeOK, Character_Create, LoadedMatchesDatabase, OneClientPerAccount
    <2> QED BY <1>7, <2>3, <2>4 DEF Character_Create, OneClientPerAccount
<1>8. ASSUME NEW c \in Conn, NEW ch \in Char, Character_Remove(c, ch) PROVE SessionInv'
    <2>1. state[c] = "LoggedIn" /\ chosen[c] = Absent
        BY <1>8, HandlerStates DEF Character_Remove, Packets
    <2>2. player[c] # Absent
        BY <2>1 DEF SessionStages
    <2>3. SessionStages'
        BY <1>8, <2>1 DEF TypeOK, Character_Remove, SessionStages
    <2>4. owner[ch] = player[c]
        BY <1>8, <2>2 DEF Character_Remove, LoadedMatchesDatabase
    <2>5. LoadedMatchesDatabase'
        BY <1>8, <2>2, <2>4
        DEF TypeOK, Character_Remove, LoadedMatchesDatabase, OneClientPerAccount
    <2> QED BY <1>8, <2>3, <2>5 DEF Character_Remove, OneClientPerAccount
<1>9. ASSUME NEW c \in Conn, NEW ch \in Char, Welcome_Request(c, ch) PROVE SessionInv'
    <2>1. state[c] = "LoggedIn" /\ chosen[c] = Absent
        BY <1>9, HandlerStates DEF Welcome_Request, Packets
    <2>2. SessionStages'
        BY <1>9, <2>1 DEF TypeOK, Welcome_Request, SessionStages
    <2> QED BY <1>9, <2>2 DEF Welcome_Request, OneClientPerAccount, LoadedMatchesDatabase,
                              database
<1>10. ASSUME NEW c \in Conn, Welcome_Msg(c) PROVE SessionInv'
    <2>1. state[c] = "LoggedIn" /\ chosen[c] # Absent
        BY <1>10, HandlerStates DEF Welcome_Msg, Packets
    <2>2. \A d \in Conn : Closes(d)
        BY <1>10, CloseCloses DEF Welcome_Msg
    <2>3. \A d \in Conn : state'[d] = state[d] \/ (d = c /\ state'[d] = "Playing")
        BY <1>10 DEF TypeOK, Welcome_Msg
    <2>4. SessionStages'
        BY <1>10, <2>1, <2>2, <2>3 DEF Welcome_Msg, SessionStages, Closes, account_vars
    <2> QED BY <1>10, <2>4 DEF Welcome_Msg, OneClientPerAccount, LoadedMatchesDatabase,
                               account_vars, database
<1>11. CASE \E c \in Conn : Network(c) \/ ServerPing(c) \/ Pump(c)
    BY <1>2, <1>4, <1>5, <1>6, <1>7, <1>8, <1>9, <1>10, <1>11, QuietSteps,
       QuietKeepsSessions
    DEF Network, Pump
<1> QED BY <1>1, <1>3, <1>11 DEF Next

LEMMA IdsPreserved == TypeOK /\ UniquePlayerIds /\ [Next]_vars => UniquePlayerIds'
<1> SUFFICES ASSUME TypeOK, UniquePlayerIds, [Next]_vars PROVE UniquePlayerIds'
    OBVIOUS
<1>1. CASE UNCHANGED vars
    BY <1>1 DEF UniquePlayerIds, Live, vars
<1>2. ASSUME NEW c \in Conn, Poll(c) PROVE UniquePlayerIds'
    <2>1. Live' = Live \cup {c}
        BY <1>2 DEF TypeOK, Poll, Live
    <2>2. \A d \in Live : pid'[d] = pid[d] /\ pid'[d] # pid'[c]
        BY <1>2, FreePlayerIDIsFree DEF TypeOK, Poll, Live
    <2> QED BY <2>1, <2>2 DEF UniquePlayerIds
<1>3. ASSUME NEW c \in Conn, Bury(c) PROVE UniquePlayerIds'
    <2>1. Live' \subseteq Live /\ c \notin Live'
        BY <1>3 DEF TypeOK, Bury, Live
    <2>2. \A d \in Live' : pid'[d] = pid[d]
        BY <1>3, <2>1 DEF TypeOK, Bury, Live
    <2> QED BY <2>1, <2>2 DEF UniquePlayerIds
<1>4. ASSUME NEW c \in Conn, UNCHANGED pid,
             Close(c) \/ ForceClose(c) \/ UNCHANGED sock
      PROVE  UniquePlayerIds'
    <2>1. Live' = Live
        BY <1>4, CloseCloses DEF TypeOK, Closes, Live
    <2> QED BY <1>4, <2>1 DEF UniquePlayerIds
<1>6. ASSUME NEW c \in Conn, Init_Init(c) \/ Welcome_Msg(c) PROVE UniquePlayerIds'
    BY <1>4, <1>6 DEF Init_Init, Welcome_Msg
<1>7. ASSUME NEW c \in Conn, NEW a \in Account, Account_Create(c, a) \/ Login_Accepted(c, a)
      PROVE  UniquePlayerIds'
    BY <1>4, <1>7 DEF Account_Create, Login_Accepted
<1>8. ASSUME NEW c \in Conn, NEW ch \in Char,
             Character_Create(c, ch) \/ Character_Remove(c, ch) \/ Welcome_Request(c, ch)
      PROVE  UniquePlayerIds'
    BY <1>4, <1>8 DEF Character_Create, Character_Remove, Welcome_Request
<1>9. CASE \E c \in Conn : Network(c) \/ ServerPing(c) \/ Pump(c)
    BY <1>2, <1>6, <1>7, <1>8, <1>9, QuietSteps, QuietKeepsIdsAndWorld DEF Network, Pump
<1> QED BY <1>1, <1>3, <1>9 DEF Next

\* As long as no quest throws while a character logs in.
LEMMA WorldPreserved ==
    ASSUME ~QuestsThrow
    PROVE  TypeOK /\ SessionInv /\ WorldMatchesSessions /\ [Next]_vars => WorldMatchesSessions'
<1> SUFFICES ASSUME TypeOK, SessionInv, WorldMatchesSessions, [Next]_vars
             PROVE  WorldMatchesSessions'
    OBVIOUS
<1>1. CASE UNCHANGED vars
    BY <1>1 DEF WorldMatchesSessions, vars, account_vars
<1>2. ASSUME NEW c \in Conn, Bury(c) PROVE WorldMatchesSessions'
    <2>1. world' = world \ {e \in world : e[1] = c}
        BY <1>2 DEF TypeOK, Bury, WorldMatchesSessions
    <2>2. \A d \in Conn, ch \in Char :
             <<d, ch>> \in world' <=> <<d, ch>> \in world /\ d # c
        BY <2>1
    <2> QED BY <1>2, <2>2 DEF TypeOK, Bury, WorldMatchesSessions
<1>3. ASSUME NEW c \in Conn, Init_Init(c) PROVE WorldMatchesSessions'
    <2>1. state[c] = "Uninitialized"
        BY <1>3, HandlerStates DEF Init_Init, Packets
    <2>2. \A d \in Conn : state'[d] = "Playing" <=> state[d] = "Playing"
        BY <1>3, <2>1 DEF TypeOK, Init_Init
    <2> QED BY <1>3, <2>2 DEF Init_Init, WorldMatchesSessions, account_vars
<1>4. ASSUME NEW c \in Conn, NEW a \in Account, Login_Accepted(c, a)
      PROVE  WorldMatchesSessions'
    <2>1. state[c] = "Initialized"
        BY <1>4, HandlerStates DEF Login_Accepted, Packets
    <2>2. \A d \in Conn : state'[d] = "Playing" <=> state[d] = "Playing"
        BY <1>4, <2>1 DEF TypeOK, Login_Accepted
    <2> QED BY <1>4, <2>2 DEF Login_Accepted, WorldMatchesSessions
<1>5. ASSUME NEW c \in Conn, NEW ch \in Char, Welcome_Request(c, ch)
      PROVE  WorldMatchesSessions'
    <2>1. state[c] = "LoggedIn"
        BY <1>5, HandlerStates DEF Welcome_Request, Packets
    <2> QED BY <1>5, <2>1 DEF TypeOK, Welcome_Request, WorldMatchesSessions
<1>6. ASSUME NEW c \in Conn, Welcome_Msg(c) PROVE WorldMatchesSessions'
    <2>1. state[c] = "LoggedIn" /\ chosen[c] # Absent
        BY <1>6, HandlerStates DEF Welcome_Msg, Packets
    <2>2. CASE UNCHANGED <<state, world>>
        BY <1>6, <2>2 DEF Welcome_Msg, WorldMatchesSessions, account_vars
    <2>3. CASE world' = world \cup {<<c, chosen[c]>>} /\ state' = [state EXCEPT ![c] = "Playing"]
        <3>1. \A d \in Conn, ch \in Char :
                 <<d, ch>> \in world' <=> <<d, ch>> \in world \/ (d = c /\ ch = chosen[c])
            BY <2>3
        <3>2. chosen' = chosen
            BY <1>6 DEF Welcome_Msg, account_vars
        <3> QED BY <2>1, <2>3, <3>1, <3>2 DEF TypeOK, WorldMatchesSessions
    <2> QED BY <1>6, <2>2, <2>3 DEF Welcome_Msg
<1>8. ASSUME NEW c \in Conn, UNCHANGED <<state, chosen, world>>
      PROVE  WorldMatchesSessions'
    BY <1>8 DEF WorldMatchesSessions
<1>9. ASSUME NEW c \in Conn, Poll(c) PROVE WorldMatchesSessions'
    BY <1>8, <1>9 DEF Poll, account_vars
<1>10. ASSUME NEW c \in Conn, NEW a \in Account, Account_Create(c, a)
       PROVE  WorldMatchesSessions'
    BY <1>8, <1>10 DEF Account_Create, account_vars
<1>11. ASSUME NEW c \in Conn, NEW ch \in Char,
              Character_Create(c, ch) \/ Character_Remove(c, ch)
       PROVE  WorldMatchesSessions'
    BY <1>8, <1>11 DEF Character_Create, Character_Remove
<1>12. CASE \E c \in Conn : Network(c) \/ ServerPing(c) \/ Pump(c)
    BY <1>3, <1>4, <1>5, <1>6, <1>9, <1>10, <1>11, <1>12, QuietSteps, QuietKeepsIdsAndWorld
    DEF Network, Pump
<1> QED BY <1>1, <1>2, <1>12 DEF Next

-----------------------------------------------------------------------------
(***************************************************************************)
(* Theorems.                                                               *)
(***************************************************************************)

\* The sessions, the accounts on them and what they have loaded, of which none can be
\* kept without the others.
LEMMA SessionsHold == Spec => [](TypeOK /\ SessionInv)
<1>1. Init => TypeOK /\ SessionInv
    BY DEF Init, TypeOK, States, SessionInv, SessionStages, OneClientPerAccount,
           LoadedMatchesDatabase
<1> QED BY <1>1, TypesPreserved, SessionsPreserved, PTL DEF Spec

\* No handler of the menus or the game meets a null player or character.
THEOREM SessionsLinked == Spec => []SessionLinked
<1>1. SessionInv => SessionLinked
    BY DEF SessionInv, SessionStages, SessionLinked
<1> QED BY <1>1, SessionsHold, PTL

\* No account is ever on two clients, one of them closed but not destroyed yet included.
THEOREM AccountsOnOneClient == Spec => []OneClientPerAccount
<1>1. SessionInv => OneClientPerAccount
    BY DEF SessionInv
<1> QED BY <1>1, SessionsHold, PTL

\* What a session has loaded is what the database says its account owns.
THEOREM LoadedIsOwned == Spec => []LoadedMatchesDatabase
<1>1. SessionInv => LoadedMatchesDatabase
    BY DEF SessionInv
<1> QED BY <1>1, SessionsHold, PTL

\* The ids clients know each other by are never shared, however many come and go.
THEOREM PlayerIdsUnique == Spec => []UniquePlayerIds
<1>1. Init => TypeOK /\ UniquePlayerIds
    BY DEF Init, TypeOK, States, UniquePlayerIds, Live
<1> QED BY <1>1, TypesPreserved, IdsPreserved, PTL DEF Spec

\* Unless a quest throws at login, the world holds the characters being played and
\* no other, and none of them twice.
THEOREM WorldSafety ==
    ASSUME ~QuestsThrow
    PROVE  Spec => [](WorldMatchesSessions /\ NoCharacterTwice)
<1>1. Init => TypeOK /\ SessionInv /\ WorldMatchesSessions
    BY DEF Init, TypeOK, States, SessionInv, SessionStages, OneClientPerAccount,
           LoadedMatchesDatabase, WorldMatchesSessions
<1>2. TypeOK /\ SessionInv /\ WorldMatchesSessions => NoCharacterTwice
    <2> SUFFICES ASSUME TypeOK, SessionInv, WorldMatchesSessions, NEW e \in world,
                        NEW f \in world, e[2] = f[2]
                 PROVE  e = f
        BY DEF NoCharacterTwice
    <2>1. PICK c \in Conn, d \in Conn, ch \in Char : e = <<c, ch>> /\ f = <<d, ch>>
        BY DEF TypeOK
    <2>2. /\ state[c] = "Playing" /\ chosen[c] = ch
          /\ state[d] = "Playing" /\ chosen[d] = ch
        BY <2>1 DEF WorldMatchesSessions
    <2>3. /\ player[c] # Absent /\ ch \in loaded[c]
          /\ player[d] # Absent /\ ch \in loaded[d]
        BY <2>2 DEF SessionInv, SessionStages
    <2>4. owner[ch] = player[c] /\ owner[ch] = player[d]
        BY <2>3 DEF SessionInv, LoadedMatchesDatabase
    <2> QED BY <2>1, <2>3, <2>4 DEF SessionInv, OneClientPerAccount
<1>3. TypeOK /\ SessionInv /\ WorldMatchesSessions /\ [Next]_vars => WorldMatchesSessions'
    BY WorldPreserved
<1> QED BY <1>1, <1>2, <1>3, TypesPreserved, SessionsPreserved, PTL DEF Spec

\* A closed client takes no further part, whatever it still has queued.
THEOREM ClosedClientsRest == Spec => ClosedNeverServes
<1> DEFINE Session(d) == <<state[d], player[d], loaded[d], chosen[d], queue[d]>>
           Rests == \A c \in Conn : sock[c] \in {"closing", "dead"} /\ sock'[c] # "free" =>
                                       Session(c)' = Session(c)
<1>1. TypeOK /\ [Next]_vars => Rests
    <2> SUFFICES ASSUME TypeOK, [Next]_vars, NEW c \in Conn,
                        sock[c] \in {"closing", "dead"}, sock'[c] # "free"
                 PROVE  Session(c)' = Session(c)
        OBVIOUS
    <2>1. CASE UNCHANGED vars
        BY <2>1 DEF vars, account_vars
    <2>2. ASSUME NEW d \in Conn, Poll(d) \/ Disconnect(d) \/ ConnectionLost(d) \/ ServerPing(d)
          PROVE  Session(c)' = Session(c)
        BY <2>2 DEF Poll, Disconnect, ConnectionLost, ServerPing, account_vars
    <2>3. ASSUME NEW d \in Conn, NEW packet \in Packets, Execute(d, packet)
          PROVE  Session(c)' = Session(c)
        <3>1. c # d
            BY <2>3 DEF Execute, Open
        <3> QED BY <2>3, <3>1 DEF TypeOK, Execute, account_vars
    <2>4. ASSUME NEW d \in Conn, Bury(d) PROVE Session(c)' = Session(c)
        <3>1. c # d
            BY <2>4 DEF TypeOK, Bury
        <3> QED BY <2>4, <3>1 DEF TypeOK, Bury
    <2>5. ASSUME NEW d \in Conn, Pump(d) PROVE Session(c)' = Session(c)
        <3>1. c # d
            BY <2>5 DEF Pump, QueueOverflow, Drop, Requeue, Init_Init, Account_Request,
                        Account_Create, Login_Accepted, Login_Refused, Login_Busy, Login_Failed,
                        Character_Create, Character_Remove, Welcome_Request, Welcome_Msg, Play,
                        Connection_Ping, Menu_Reply, Handles, Pumps, Open
        <3>2. queue'[c] = queue[c]
            BY <2>5, <3>1
            DEF TypeOK, Pump, QueueOverflow, Drop, Requeue, Init_Init, Account_Request,
                Account_Create, Login_Accepted, Login_Refused, Login_Busy, Login_Failed,
                Character_Create, Character_Remove, Welcome_Request, Welcome_Msg, Play,
                Connection_Ping, Menu_Reply, Handles
        <3>3. state'[c] = state[c] /\ chosen'[c] = chosen[c]
            BY <2>5, <3>1
            DEF TypeOK, Pump, QueueOverflow, Drop, Requeue, Init_Init, Account_Request,
                Account_Create, Login_Accepted, Login_Refused, Login_Busy, Login_Failed,
                Character_Create, Character_Remove, Welcome_Request, Welcome_Msg, Play,
                Connection_Ping, Menu_Reply, account_vars
        <3>4. player'[c] = player[c] /\ loaded'[c] = loaded[c]
            BY <2>5, <3>1
            DEF TypeOK, Pump, QueueOverflow, Drop, Requeue, Init_Init, Account_Request,
                Account_Create, Login_Accepted, Login_Refused, Login_Busy, Login_Failed,
                Character_Create, Character_Remove, Welcome_Request, Welcome_Msg, Play,
                Connection_Ping, Menu_Reply, account_vars
        <3> QED BY <3>2, <3>3, <3>4
    <2> QED BY <2>1, <2>2, <2>3, <2>4, <2>5 DEF Next, Network
<1>2. Spec => [][Rests]_vars
    BY <1>1, SessionTypes, PTL DEF Spec
<1> QED BY <1>2 DEF ClosedNeverServes

-----------------------------------------------------------------------------
(***************************************************************************)
(* Admission, at whose door each of these connections came in.             *)
(***************************************************************************)
CONSTANT ReconnectLimit
VARIABLE since

Door == INSTANCE Admission

\* What Admission assumes of its limits.
DoorIsLimited == ReconnectLimit \in Nat /\ MaxPerIP \in Nat

\* A number is a number on either side of the door.
LEMMA CardinalityAtDoor == \A S : Door!Cardinality(S) = Cardinality(S)
BY Zenon DEF Door!Cardinality, Cardinality

\* A part of the clients is finite, and not more than all of them.
LEMMA PartsOfConn ==
    ASSUME NEW T \in SUBSET Conn, NEW S \in SUBSET T
    PROVE  /\ IsFiniteSet(S) /\ Cardinality(S) \in Nat
           /\ IsFiniteSet(T) /\ Cardinality(T) \in Nat
           /\ Cardinality(S) <= Cardinality(T)
<1>1. IsFiniteSet(T)
    BY ConnFinite, FS_Subset
<1> QED BY <1>1, FS_Subset, FS_CardinalityType

\* The wait that the log shows is cut where it is too long to matter.
LEMMA LogTypes ==
    ASSUME DoorIsLimited, Door!TypeOK, NEW ip \in Address, NEW order
    PROVE  /\ Door!Kept(order) \in [Address -> {Door!NotLogged} \cup 0..(ReconnectLimit + 1)]
           /\ ip \in Door!Logged /\ ~Door!Expired(ip) => since[ip] + 1 \in 0..(ReconnectLimit + 1)
BY DEF DoorIsLimited, Door!TypeOK, Door!Kept, Door!Logged, Door!Expired, Door!NotLogged

\* Every step keeps the types.
LEMMA AdmissionStepTypes ==
    ASSUME DoorIsLimited, Door!TypeOK, [Door!Next]_Door!vars
    PROVE  Door!TypeOK'
<1>1. ASSUME NEW c \in Conn, NEW ip \in Address, Door!Accept(c, ip) PROVE Door!TypeOK'
    <2>1. PICK order \in Door!Orders :
              IF Door!Throttled(order, ip) \/ Door!TooMany(ip)
              THEN /\ status' = [status EXCEPT ![c] = IF ip = Local THEN "Connected" ELSE "None"]
                   /\ since' = Door!Rejected(order, ip)
              ELSE /\ status' = [status EXCEPT ![c] = "Connected"]
                   /\ since' = [Door!Kept(order) EXCEPT ![ip] = 0]
        BY <1>1 DEF Door!Accept
    <2>2. Door!Kept(order) \in [Address -> {Door!NotLogged} \cup 0..(ReconnectLimit + 1)]
        BY LogTypes
    <2>3. 0 \in 0..(ReconnectLimit + 1)
        BY DEF DoorIsLimited
    <2>4. since' \in [Address -> {Door!NotLogged} \cup 0..(ReconnectLimit + 1)]
        BY <2>1, <2>2, <2>3 DEF Door!Rejected
    <2> QED BY <1>1, <2>1, <2>4 DEF Door!TypeOK, Door!Accept
<1>2. ASSUME NEW c \in Conn, Door!Close(c) \/ Door!Bury(c) PROVE Door!TypeOK'
    BY <1>2 DEF Door!TypeOK, Door!Close, Door!Bury
<1>3. CASE Door!Pass
    BY <1>3, LogTypes DEF Door!TypeOK, Door!Pass
<1>4. CASE UNCHANGED Door!vars
    BY <1>4 DEF Door!TypeOK, Door!vars
<1> QED BY <1>1, <1>2, <1>3, <1>4 DEF Door!Next

\* Every step keeps every address within its limit.
LEMMA AdmissionStepLimit ==
    ASSUME DoorIsLimited, Door!TypeOK, Door!AddressLimit, [Door!Next]_Door!vars
    PROVE  Door!AddressLimit'
<1> SUFFICES ASSUME NEW a \in Address \ {Local}, MaxPerIP # 0
             PROVE  Cardinality(Door!Connected(a)') <= MaxPerIP
    BY CardinalityAtDoor DEF Door!AddressLimit
<1>1. Door!Connected(a) \in SUBSET Conn /\ Cardinality(Door!Connected(a)) <= MaxPerIP
    BY CardinalityAtDoor DEF Door!AddressLimit, Door!Connected, Door!Clients, Door!TypeOK
<1>2. ASSUME Door!Connected(a)' \subseteq Door!Connected(a)
      PROVE  Cardinality(Door!Connected(a)') <= MaxPerIP
    BY <1>1, <1>2, PartsOfConn DEF DoorIsLimited
<1>3. ASSUME NEW c \in Conn, NEW ip \in Address, Door!Accept(c, ip)
      PROVE  Cardinality(Door!Connected(a)') <= MaxPerIP
    <2>1. status[c] = "None" /\ addr' = [addr EXCEPT ![c] = ip]
          /\ \E s \in {"None", "Connected"} : status' = [status EXCEPT ![c] = s]
        BY <1>3 DEF Door!Accept
    <2>2. CASE ip # a \/ status'[c] # "Connected"
        BY <1>2, <2>1, <2>2 DEF Door!Connected, Door!Clients, Door!TypeOK
    <2>3. CASE ip = a /\ status'[c] = "Connected"
        <3>1. ~Door!TooMany(a)
            BY <1>3, <2>1, <2>3 DEF Door!Accept, Door!TypeOK
        <3>2. Door!Clients(a) \in SUBSET Conn /\ c \notin Door!Clients(a)
            BY <2>1 DEF Door!Clients, Door!TypeOK
        <3>3. IsFiniteSet(Door!Clients(a)) /\ Cardinality(Door!Clients(a)) \in Nat
            BY <3>2, PartsOfConn
        <3>4. Cardinality(Door!Clients(a)) + 1 <= MaxPerIP
            BY <3>1, <3>3, CardinalityAtDoor DEF DoorIsLimited, Door!TooMany
        <3>5. /\ IsFiniteSet(Door!Clients(a) \cup {c})
              /\ Cardinality(Door!Clients(a) \cup {c}) = Cardinality(Door!Clients(a)) + 1
            BY <3>2, <3>3, FS_AddElement
        <3>6. Door!Connected(a)' \subseteq Door!Clients(a) \cup {c}
            BY <2>1 DEF Door!Connected, Door!Clients, Door!TypeOK
        <3>7. Door!Clients(a) \cup {c} \in SUBSET Conn
            BY <3>2
        <3>8. Cardinality(Door!Connected(a)') <= Cardinality(Door!Clients(a) \cup {c})
              /\ Cardinality(Door!Connected(a)') \in Nat
            BY <3>6, <3>7, PartsOfConn
        <3> QED BY <3>3, <3>4, <3>5, <3>8 DEF DoorIsLimited
    <2> QED BY <2>2, <2>3
<1>4. ASSUME NEW c \in Conn, Door!Close(c) \/ Door!Bury(c)
      PROVE  Cardinality(Door!Connected(a)') <= MaxPerIP
    BY <1>2, <1>4 DEF Door!Close, Door!Bury, Door!Connected, Door!Clients, Door!TypeOK
<1>5. CASE Door!Pass \/ UNCHANGED Door!vars
    BY <1>2, <1>5 DEF Door!Pass, Door!vars, Door!Connected, Door!Clients
<1> QED BY <1>3, <1>4, <1>5 DEF Door!Next

\* AddressLimit: no address but the server's own ever has more connections than
\* MaxConnectionsPerIP.
THEOREM AddressLimited ==
    ASSUME DoorIsLimited
    PROVE  Door!Spec => []AddressLimit
<1>1. Door!Init => Door!TypeOK /\ Door!AddressLimit
    <2> SUFFICES ASSUME Door!Init PROVE Door!TypeOK /\ Door!AddressLimit
        OBVIOUS
    <2>1. Door!TypeOK
        BY DEF Door!Init, Door!TypeOK
    <2>2. \A ip \in Address : Door!Connected(ip) = {}
        BY DEF Door!Init, Door!Connected, Door!Clients
    <2> QED BY <2>1, <2>2, FS_EmptySet, CardinalityAtDoor DEF DoorIsLimited, Door!AddressLimit
<1>2. Door!TypeOK /\ Door!AddressLimit /\ [Door!Next]_Door!vars
          => Door!TypeOK' /\ Door!AddressLimit'
    BY AdmissionStepTypes, AdmissionStepLimit
<1>3. Door!AddressLimit => AddressLimit
    BY CardinalityAtDoor DEF Door!AddressLimit, Door!Connected, Door!Clients,
                             AddressLimit, Connected, Clients
<1> QED BY <1>1, <1>2, <1>3, PTL DEF Door!Spec
=============================================================================
