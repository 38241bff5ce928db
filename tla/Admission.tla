------------------------------ MODULE Admission ------------------------------
(***************************************************************************)
(* Which connections the server lets in: the wait between two connections  *)
(* of an address, and the number of connections one address may have.      *)
(*                                                                         *)
(* EOServer::Tick accepts at most one connection, looks at the log of the  *)
(* addresses that were let in, then lets clients be served and buries      *)
(* those that are closed.  Times in the log are kept as the time that has  *)
(* passed since, up to the first one that is too long to matter.           *)
(***************************************************************************)
EXTENDS Connections

CONSTANTS
    Conn,             \* places for clients, the bound on the sockets of the model
    ReconnectLimit    \* config IPReconnectLimit

ASSUME LimitsAreNumbers ==
    ReconnectLimit \in Nat /\ MaxPerIP \in Nat
ASSUME ConnIsFinite == IsFiniteSet(Conn)

VARIABLE since   \* EOServer::connection_log

vars == <<status, addr, since>>

NotLogged == -1
Expired(ip) == since[ip] > ReconnectLimit

-----------------------------------------------------------------------------
(***************************************************************************)
(* The log is a hash table, read in an order of its own.                   *)
(***************************************************************************)
Logged == {ip \in Address : since[ip] # NotLogged}

Orders == {order \in [1..Cardinality(Logged) -> Logged] :
              \A i, j \in DOMAIN order : i # j => order[i] # order[j]}

\* The loop goes on after what erase returns, which is the next entry already, so
\* the one that follows an entry it erases is never looked at.
Visited(order) ==
    LET visited[i \in DOMAIN order] == i = 1 \/ ~(visited[i - 1] /\ Expired(order[i - 1]))
    IN  {i \in DOMAIN order : visited[i]}

Erased(order) == {ip \in Logged : Expired(ip) /\ \E i \in Visited(order) : order[i] = ip}

Throttled(order, ip) == ~Expired(ip) /\ \E i \in Visited(order) : order[i] = ip

Kept(order) == [ip \in Address |-> IF ip \in Erased(order) THEN NotLogged ELSE since[ip]]

-----------------------------------------------------------------------------
\* Mutant: the new client is not counted.
TooMany_Others(ip) == MaxPerIP # 0 /\ Cardinality(Clients(ip)) > MaxPerIP

\* The clients of an address, the new one and those to be buried included.
TooMany(ip) == MaxPerIP # 0 /\ Cardinality(Clients(ip)) + 1 > MaxPerIP

\* Mutant: a rejected attempt starts the wait again.
Rejected_Logged(order, ip) == [Kept(order) EXCEPT ![ip] = 0]

\* A rejected attempt leaves no trace in the log.
Rejected(order, ip) == Kept(order)

\* A connection is accepted, whatever the config's MaxConnections says: Server::Poll looks at it
\* only after accept() has failed.  One that is rejected is closed by force, and
\* buried in the same tick, unless the address is the server's own.
Accept(c, ip) ==
    /\ status[c] = "None"
    /\ addr' = [addr EXCEPT ![c] = ip]
    /\ \E order \in Orders :
          IF Throttled(order, ip) \/ TooMany(ip)
          THEN /\ status' = [status EXCEPT ![c] = IF ip = Local THEN "Connected" ELSE "None"]
               /\ since' = Rejected(order, ip)
          ELSE /\ status' = [status EXCEPT ![c] = "Connected"]
               /\ since' = [Kept(order) EXCEPT ![ip] = 0]

\* Client::Close, by whichever side.
Close(c) ==
    /\ status[c] = "Connected"
    /\ status' = [status EXCEPT ![c] = "Closed"]
    /\ UNCHANGED <<addr, since>>

\* Server::BuryTheDead, at the end of the tick or of a later one: what is still in
\* the buffers of a client that was not closed by force holds it for two seconds.
Bury(c) ==
    /\ status[c] = "Closed"
    /\ status' = [status EXCEPT ![c] = "None"]
    /\ UNCHANGED <<addr, since>>

\* Time passes.
Pass ==
    /\ since' = [ip \in Address |-> IF ip \in Logged /\ ~Expired(ip) THEN since[ip] + 1
                                    ELSE since[ip]]
    /\ UNCHANGED <<status, addr>>

Init ==
    /\ status = [c \in Conn |-> "None"]
    /\ addr \in {[c \in Conn |-> ip] : ip \in Address}
    /\ since = [ip \in Address |-> NotLogged]

Next ==
    \/ \E c \in Conn : (\E ip \in Address : Accept(c, ip)) \/ Close(c) \/ Bury(c)
    \/ Pass

Spec == Init /\ [][Next]_vars

\* Time passes, connections end and are buried, and every address that has none goes
\* on trying to get one.
FairSpec ==
    /\ Spec
    /\ WF_vars(Pass)
    /\ \A c \in Conn : WF_vars(Close(c)) /\ WF_vars(Bury(c))
    /\ \A ip \in Address : SF_vars(Clients(ip) = {} /\ \E c \in Conn : Accept(c, ip))

-----------------------------------------------------------------------------
TypeOK ==
    /\ status \in [Conn -> {"None", "Connected", "Closed"}]
    /\ addr \in [Conn -> Address]
    /\ since \in [Address -> {NotLogged} \cup 0..(ReconnectLimit + 1)]

\* A new connection of an address is let in.
Admits(ip) == \E c \in Conn : status[c] = "None" /\ status'[c] = "Connected" /\ addr'[c] = ip

\* An address that goes on trying is let in again and again: its impatience does not
\* keep it out.
PersistentGetsIn == \A ip \in Address : []<><<Admits(ip)>>_vars
=============================================================================
