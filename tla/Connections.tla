----------------------------- MODULE Connections -----------------------------
(***************************************************************************)
(* The list of clients (Server::clients), each with the address it came    *)
(* from, and the limit it is held to.  A client that is closed is in the   *)
(* list until it is buried.                                                *)
(***************************************************************************)
EXTENDS Integers, FiniteSets

CONSTANTS
    Address,    \* IP addresses
    Local,      \* 127.0.0.1
    MaxPerIP    \* config MaxConnectionsPerIP, 0 for no limit

VARIABLES
    status,   \* a client is connected, closed but not buried, or none at all
    addr      \* Client::GetRemoteAddr

Clients(ip) == {c \in DOMAIN status : status[c] # "None" /\ addr[c] = ip}
Connected(ip) == {c \in Clients(ip) : status[c] = "Connected"}

\* server.ini, MaxConnectionsPerIP: no other address ever has more connections than
\* that, however they close and are buried.
AddressLimit ==
    \A ip \in Address \ {Local} : MaxPerIP # 0 => Cardinality(Connected(ip)) <= MaxPerIP
=============================================================================
