------------------------------ MODULE Sequence ------------------------------
(***************************************************************************)
(* Sequence numbers: every packet of a client carries a number, and the    *)
(* server closes the connection of one that carries a wrong number.        *)
(*                                                                         *)
(* The numbers count from a start that the server chooses when it answers  *)
(* the first packet and again with every ping, and sends as two values.    *)
(* Client and server have to change to a new start at the same packet,     *)
(* while packets are under way in both directions and received packets     *)
(* wait in a queue.                                                        *)
(***************************************************************************)
EXTENDS SequenceBytes, Sequences

CONSTANTS
    Starts,      \* starts to choose from, AllStarts in the code
    Period,      \* packets after which the numbers repeat, 10 in the code
    MaxFlight    \* bound on what is under way in a direction, and on the queue

ASSUME StartsAreInRange == Starts \subseteq AllStarts /\ 0 \in Starts
ASSUME PeriodIsPositive == Period \in Nat \ {0} /\ MaxFlight \in Nat

VARIABLES
    closed,     \* why the server closed the connection
    server,     \* the sequence fields of EOClient, and whether it is initialised
    queue,      \* EOClient::queue
    client,     \* what the player's program keeps: start, counter, where it is
    to_server,  \* packets under way
    to_client

sequence_vars == <<closed, server, queue, client, to_server, to_client>>

Next10(n) == (n + 1) % Period

-----------------------------------------------------------------------------
(***************************************************************************)
(* The player's program, which is not in the repository: it says hello,    *)
(* sends nothing else before it is answered, and answers pings after that. *)
(***************************************************************************)
Numbered(kind, start) ==
    [kind |-> kind, number |-> start + client.seq, encoded |-> client.phase = "Ready"]

Hello ==
    /\ client.phase = "New"
    /\ client' = [client EXCEPT !.phase = "Waiting", !.seq = Next10(@)]
    /\ to_server' = Append(to_server, Numbered("Init", 0))
    /\ UNCHANGED <<closed, server, queue, to_client>>

Speak ==
    /\ client.phase = "Ready"
    /\ Len(to_server) < MaxFlight
    /\ client' = [client EXCEPT !.seq = Next10(@)]
    /\ to_server' = Append(to_server, Numbered("Other", client.start))
    /\ UNCHANGED <<closed, server, queue, to_client>>

Listen ==
    /\ to_client # <<>>
    /\ Len(to_server) < MaxFlight
    /\ LET message == Head(to_client) IN
       CASE message.kind = "Accepted" ->
              /\ client' = [client EXCEPT !.phase = "Ready", !.start = message.start]
              /\ UNCHANGED to_server
         [] message.kind = "Ping" /\ client.phase = "Ready" ->
              /\ client' = [client EXCEPT !.start = message.start, !.seq = Next10(@)]
              /\ to_server' = Append(to_server, Numbered("Pong", message.start))
         [] OTHER -> UNCHANGED <<client, to_server>>
    /\ to_client' = Tail(to_client)
    /\ UNCHANGED <<closed, server, queue>>

-----------------------------------------------------------------------------
(***************************************************************************)
(* The server.                                                             *)
(***************************************************************************)

\* The start that counts for a packet: a pong is the first with the new one.
Started(packet) == IF packet.kind = "Pong" THEN server.upcoming_seq_start ELSE server.seq_start

\* Mutant: the first packet is not counted.
Counted_NoInit(packet) == IF packet.kind = "Init" THEN server.seq ELSE Next10(server.seq)

\* EOClient::GenSequence counts every packet, the first too.
Counted(packet) == Next10(server.seq)

\* A packet that is encoded is read as another one before Init_Init, and one that
\* is not after; the first packet is the same in both.
Readable(packet) == packet.kind = "Init" \/ packet.encoded = server.initialized

\* EOClient::Execute, when a packet is received, before it waits in the queue.
Execute ==
    /\ closed = "No" /\ to_server # <<>>
    /\ Len(queue) < MaxFlight
    /\ LET packet == Head(to_server) IN
       /\ to_server' = Tail(to_server)
       /\ server' = [server EXCEPT
             !.seq_start = IF packet.kind = "Pong" THEN server.upcoming_seq_start ELSE @,
             !.seq = Counted(packet)]
       /\ IF Readable(packet)
                /\ packet.kind # "Init" => packet.number = Started(packet) + server.seq
          THEN queue' = Append(queue, packet.kind) /\ UNCHANGED closed
          ELSE closed' = "Sequence" /\ UNCHANGED queue
    /\ UNCHANGED <<client, to_client>>

\* Init_Init, from the queue.
Init_Init ==
    /\ closed = "No" /\ queue # <<>> /\ Head(queue) = "Init" /\ ~server.initialized
    /\ queue' = Tail(queue)
    /\ \E start \in Starts : \E s1 \in InitParts(start) :
          /\ server' = [server EXCEPT !.initialized = TRUE, !.seq_start = start]
          /\ to_client' = Append(to_client, [kind |-> "Accepted", start |-> InitStart(start, s1)])
    /\ UNCHANGED <<closed, client, to_server>>

\* Connection_Ping, from the queue.
Connection_Ping ==
    /\ closed = "No" /\ queue # <<>> /\ Head(queue) = "Pong"
    /\ queue' = Tail(queue)
    /\ server' = [server EXCEPT !.needpong = FALSE]
    /\ UNCHANGED <<closed, client, to_server, to_client>>

\* Any other packet is handled.
Handle ==
    /\ closed = "No" /\ queue # <<>> /\ Head(queue) = "Other"
    /\ queue' = Tail(queue)
    /\ UNCHANGED <<closed, server, client, to_server, to_client>>

\* Mutant: a new start is chosen while the last is not answered.
PingOut_Again ==
    /\ Len(to_client) < MaxFlight
    /\ \E start \in Starts : \E s1 \in UpdateParts(start) :
          /\ server' = [server EXCEPT !.upcoming_seq_start = start, !.needpong = TRUE]
          /\ to_client' = Append(to_client, [kind |-> "Ping", start |-> UpdateStart(start, s1)])
    /\ UNCHANGED closed

\* A client that has not answered the last ping is closed, others are sent one.
PingOut ==
    IF server.needpong
    THEN closed' = "Ping" /\ UNCHANGED <<server, to_client>>
    ELSE /\ Len(to_client) < MaxFlight
         /\ \E start \in Starts : \E s1 \in UpdateParts(start) :
               /\ server' = [server EXCEPT !.upcoming_seq_start = start, !.needpong = TRUE]
               /\ to_client' = Append(to_client, [kind |-> "Ping", start |-> UpdateStart(start, s1)])
         /\ UNCHANGED closed

\* server_ping_all
server_ping_all ==
    /\ closed = "No"
    /\ PingOut
    /\ UNCHANGED <<queue, client, to_server>>

SequenceInit ==
    /\ closed = "No"
    /\ server = [initialized |-> FALSE, seq_start |-> 0, upcoming_seq_start |-> -1, seq |-> 0,
                 needpong |-> FALSE]
    /\ client = [phase |-> "New", start |-> 0, seq |-> 0]
    /\ queue = <<>> /\ to_server = <<>> /\ to_client = <<>>

SequenceNext ==
    \/ Hello \/ Speak \/ Listen
    \/ Execute \/ Init_Init \/ Connection_Ping \/ Handle \/ server_ping_all

SequenceSpec == SequenceInit /\ [][SequenceNext]_sequence_vars

-----------------------------------------------------------------------------

\* A client that counts as it is told is never closed for a wrong number, however
\* pings, answers and other packets cross, and whenever the queue gets to them.
NeverWrongNumber == closed # "Sequence"

=============================================================================
