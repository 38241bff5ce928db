-------------------------------- MODULE Stream --------------------------------
(***************************************************************************)
(* The bytes of a connection, between the handlers and the sockets.        *)
(*                                                                         *)
(* What handlers send waits in a buffer until the socket takes it, a part  *)
(* at a time, and is not sent at all if there is no room, which closes the *)
(* connection.  A file that is sent takes the place of the buffer, made    *)
(* large enough for it, while the packets of the time wait in the one it   *)
(* has replaced.  What the socket receives waits in another buffer, from   *)
(* which a tick takes a byte of the length or some of a packet.            *)
(*                                                                         *)
(* A byte is the packet it belongs to and its place in it.  The player's   *)
(* program, at the other end, is external.                                 *)
(***************************************************************************)
EXTENDS Ring

CONSTANTS
    Packet,     \* what the server sends
    Typed,      \* what the player's program sends
    File, Map,  \* files, and those of them that are maps
    Length,     \* of packets, with the two bytes that say it
    FileSize,
    Header,     \* what comes before a file is as long, and one byte less for a map
    Size,       \* Server::send_buffer_max, a power of two
    RecvSize,   \* Server::recv_buffer_max, a power of two
    Chunk,      \* what DoSend and DoRecv move at once
    MaxNet,     \* bound on what is on its way to the server
    None

\* Powers of two, as many as a buffer is doubled: from 32 KiB they go to 2 GiB.
Sizes == {1, 2, 4, 8, 16, 32, 64, 128, 256, 512, 1024, 2048, 4096, 8192, 16384, 32768, 65536}

ASSUME PacketsAreApart ==
    /\ Map \subseteq File /\ (Packet \cup Typed) \cap File = {}
    /\ None \notin Packet \cup Typed \cup File
ASSUME NothingIsNoByte == {Blank, None} \cap ((Packet \cup Typed \cup File) \X Nat) = {}
ASSUME LengthsAreKnown ==
    /\ Length \in [Packet \cup Typed -> Nat \ {0}] /\ \A t \in Typed : Length[t] > 2
    /\ FileSize \in [File -> Nat] /\ Header \in Nat \ {0, 1}
ASSUME BuffersAreSized ==
    /\ {Size, RecvSize} \subseteq Sizes /\ Header < Size
    /\ Chunk \in Nat \ {0} /\ MaxNet \in Nat
ASSUME FilesFit == \A f \in File : FileSize[f] + Header <= 65536 * Size

VARIABLES
    connected,  \* "open", "closed" while it waits to be buried, or "gone"
    sending,    \* Client::send_buffer
    spare,      \* EOClient::send_buffer2 during an upload
    upload,     \* EOClient::upload_fh and upload_pos
    reading,    \* the last byte the player's program has read of a packet that is not complete
    torn,       \* a file was sent into the middle of a packet
    net,        \* what the player's program has sent and the server not received
    receiving,  \* Client::recv_buffer
    packet      \* EOClient::packet_state, length, and raw_length with data

out == <<sending, spare, upload, reading, torn>>
in == <<net, receiving, packet>>
vars == <<connected, out, in>>

NoUpload == [file |-> None, pos |-> 0]
Uploading == upload.file # None
NoPacket == [state |-> "ReadLen1", bytes |-> <<>>, length |-> 0]

HeaderOf(f) == IF f \in Map THEN Header - 1 ELSE Header
LengthOf(p) == IF p \in File THEN HeaderOf(p) + FileSize[p] ELSE Length[p]
Bytes(p, from, to) == [k \in 1..(to - from + 1) |-> <<p, from + k - 1>>]
Whole(p) == Bytes(p, 1, LengthOf(p))

First(b) == b # Blank /\ b[2] = 1
Last(b) == b[2] = LengthOf(b[1])

\* Nothing of a packet is due after it.
Ends(b) == b = Blank \/ Last(b)

\* The packets of which the first byte is there.
Begun(bytes) ==
    LET begun[n \in 0..Len(bytes)] ==
            IF n = 0 THEN <<>>
            ELSE IF First(bytes[n]) THEN Append(begun[n - 1], bytes[n][1]) ELSE begun[n - 1]
    IN  begun[Len(bytes)]

-----------------------------------------------------------------------------
(***************************************************************************)
(* To the player.                                                          *)
(***************************************************************************)

\* Client::Close.
Close ==
    /\ connected' = IF connected = "open" THEN "closed" ELSE connected
    /\ UNCHANGED <<out, in>>

\* EOClient::Send and Client::Send.
Send(p) ==
    LET buffer == IF Uploading THEN spare ELSE sending
    IN /\ connected # "gone"
       /\ \/ Length[p] > Room(buffer) /\ Close
          \/ /\ Length[p] <= Room(buffer)
             /\ IF Uploading
                THEN spare' = Put(spare, Whole(p)) /\ UNCHANGED sending
                ELSE sending' = Put(sending, Whole(p)) /\ UNCHANGED spare
             /\ UNCHANGED <<connected, upload, reading, torn, in>>

\* Mutant: there has to be room for the file alone.
Capacity_Bare(f) ==
    CHOOSE size \in {Size * n : n \in Sizes} :
        /\ size >= FileSize[f]
        /\ size = Size \/ size < 2 * FileSize[f]
\* The size of the buffer for a file: doubled until it is large enough.
Capacity(f) ==
    LET needed == FileSize[f] + Header
    IN CHOOSE size \in {Size * n : n \in Sizes} :
           size >= needed /\ (size = Size \/ size < 2 * needed)

\* EOClient::Upload.
Upload(f) ==
    /\ connected # "gone" /\ ~Uploading
    /\ upload' = [file |-> f, pos |-> 0]
    /\ spare' = sending
    /\ sending' = Put(Empty(Capacity(f)), Bytes(f, 1, HeaderOf(f)))
    /\ torn' = (torn \/ reading # None)
    /\ UNCHANGED <<connected, reading, in>>

\* EOClient::Tick during an upload: more of the file, ...
Available ==
    LET rest == FileSize[upload.file] - upload.pos
    IN IF rest < Room(sending) THEN rest ELSE Room(sending)
UploadMore ==
    LET at == HeaderOf(upload.file) + upload.pos
    IN /\ Available > 0
       /\ sending' = PutBeyond(sending, Bytes(upload.file, at + 1, at + Available))
       /\ upload' = [upload EXCEPT !.pos = @ + Available]
       /\ UNCHANGED <<connected, spare, reading, torn, in>>

\* Mutant: the packets of the meantime are forgotten with the buffer of the file.
UploadEnd_Kept ==
    /\ Available = 0 /\ upload.pos = FileSize[upload.file] /\ sending.used = 0
    /\ sending' = Empty(Size) /\ spare' = None /\ upload' = NoUpload
    /\ UNCHANGED <<connected, reading, torn, in>>
\* ... and the end, when all of it was sent.
UploadEnd ==
    /\ Available = 0 /\ upload.pos = FileSize[upload.file] /\ sending.used = 0
    /\ sending' = spare /\ spare' = None /\ upload' = NoUpload
    /\ UNCHANGED <<connected, reading, torn, in>>

\* What the player's program has read of a packet when it is given another byte.  What
\* nobody wrote it takes for what is due.
Read(b) ==
    IF torn \/ Ends(b) THEN None ELSE b

\* Mutant: all that was offered to the socket is gone from the buffer.
DoSend_All(n) ==
    /\ connected # "gone" /\ n <= sending.used
    /\ reading' = Read(Peek(sending, n)[n])
    /\ sending' = Take(sending, IF sending.used < Chunk THEN sending.used ELSE Chunk)
    /\ UNCHANGED <<connected, spare, upload, torn, in>>
\* Client::DoSend: the socket takes some of what it is offered.
DoSend(n) ==
    /\ connected # "gone" /\ n <= sending.used
    /\ reading' = Read(Peek(sending, n)[n])
    /\ sending' = Take(sending, n)
    /\ UNCHANGED <<connected, spare, upload, torn, in>>

-----------------------------------------------------------------------------
(***************************************************************************)
(* From the player.                                                        *)
(***************************************************************************)

\* The player's program sends a packet.
Type(t) ==
    /\ connected # "gone" /\ Len(net) + Length[t] <= MaxNet
    /\ net' = net \o Whole(t)
    /\ UNCHANGED <<connected, out, receiving, packet>>

\* Client::DoRecv.
DoRecv(n) ==
    /\ connected # "gone" /\ n <= Room(receiving) /\ n <= Len(net)
    /\ receiving' = Put(receiving, SubSeq(net, 1, n))
    /\ net' = SubSeq(net, n + 1, Len(net))
    /\ UNCHANGED <<connected, out, packet>>

\* PacketProcessor::Number of the two bytes of a length.
LengthSaid(a, b) == IF a[1] = b[1] /\ a[2] = 1 /\ b[2] = 2 THEN Length[a[1]] - 2 ELSE 0

\* Mutant: a packet is as long as it was when its last part was asked for.
Cut_Short(p, bytes) ==
    CASE p.state = "ReadLen1" -> [state |-> "ReadLen2", bytes |-> bytes, length |-> p.length]
      [] p.state = "ReadLen2" -> [state |-> "ReadData", bytes |-> p.bytes \o bytes,
                                  length |-> LengthSaid(p.bytes[1], bytes[1])]
      [] p.state = "ReadData" -> NoPacket
\* What EOClient::Tick makes of the bytes it takes.  A packet that is complete goes to
\* EOClient::Execute.
Cut(p, bytes) ==
    CASE p.state = "ReadLen1" -> [state |-> "ReadLen2", bytes |-> bytes, length |-> p.length]
      [] p.state = "ReadLen2" -> [state |-> "ReadData", bytes |-> p.bytes \o bytes,
                                  length |-> LengthSaid(p.bytes[1], bytes[1])]
      [] p.state = "ReadData" ->
            IF Len(bytes) = p.length THEN NoPacket
            ELSE [state |-> "ReadData", bytes |-> p.bytes \o bytes, length |-> p.length - Len(bytes)]

\* EOClient::Tick, which takes what it can get of what it needs.
ReadMore ==
    LET wanted == IF packet.state = "ReadData" THEN packet.length ELSE 1
        n == IF wanted < receiving.used THEN wanted ELSE receiving.used
    IN /\ n > 0
       /\ packet' = Cut(packet, Peek(receiving, n))
       /\ receiving' = Take(receiving, n)
       /\ UNCHANGED <<connected, out, net>>

Tick ==
    /\ connected # "gone"
    /\ \/ Uploading /\ (UploadMore \/ UploadEnd)
       \/ ~Uploading /\ ReadMore

\* Server::BuryTheDead.
Bury ==
    /\ connected = "closed" /\ connected' = "gone"
    /\ UNCHANGED <<out, in>>

-----------------------------------------------------------------------------
Init ==
    /\ connected = "open"
    /\ sending = Empty(Size) /\ spare = None /\ upload = NoUpload
    /\ reading = None /\ torn = FALSE
    /\ net = <<>> /\ receiving = Empty(RecvSize) /\ packet = NoPacket

Sends == \E n \in 1..Chunk : DoSend(n)
Receives == \E n \in 1..Chunk : DoRecv(n)

Next ==
    \/ \E p \in Packet : Send(p)
    \/ \E f \in File : Upload(f)
    \/ \E t \in Typed : Type(t)
    \/ Sends \/ Receives \/ Tick \/ Close \/ Bury

\* The main loop comes round for ever, and the player's program takes what it is sent.
Spec == Init /\ [][Next]_vars /\ WF_vars(Sends) /\ WF_vars(Receives) /\ WF_vars(Tick)

-----------------------------------------------------------------------------
(***************************************************************************)
(* Properties.                                                             *)
(***************************************************************************)

\* What is on its way to the player, and to the handlers.
ToPlayer ==
    LET rest == IF ~Uploading THEN <<>>
                ELSE Bytes(upload.file, HeaderOf(upload.file) + upload.pos + 1,
                           LengthOf(upload.file))
        waiting == IF Uploading THEN Contents(spare) ELSE <<>>
    IN (Contents(sending) \o rest) \o waiting
HalfRead == IF reading = None THEN <<>> ELSE <<reading>>
ToServer == packet.bytes \o Contents(receiving) \o net

\* What fills its buffer to the last place has its last byte written after the end.
Full(f) == f \in File \ Map /\ FileSize[f] + Header = Capacity(f)

\* After a byte comes the next of its packet, or the first of another.
Follows(a, b) ==
    \/ ~Ends(a) /\ b = <<a[1], a[2] + 1>>
    \/ a # Blank /\ Full(a[1]) /\ a[2] = LengthOf(a[1]) - 1 /\ b = Blank
    \/ Ends(a) /\ First(b)
InOrder(bytes) ==
    /\ \A i \in 2..Len(bytes) : Follows(bytes[i - 1], bytes[i])
    /\ bytes # <<>> => Ends(bytes[Len(bytes)])

\* Through every turn of the buffers, and whatever part of what it is offered a socket
\* takes, packets and files are on their way whole.  Only a file that fills its buffer to
\* the last place loses a byte, and nothing is promised after a file was sent when the
\* player had half of a packet.
PacketsWhole == connected # "gone" => (torn \/ InOrder(HalfRead \o ToPlayer)) /\ InOrder(ToServer)

Unread == IF reading = None THEN <<>> ELSE <<reading[1]>>

\* What is owed to the player and to the handlers, of which the first may be half there.
Owed == IF torn \/ connected = "gone" THEN <<>> ELSE Unread \o Begun(ToPlayer)
Due == IF connected = "gone" THEN <<>> ELSE Begun(ToServer)

Out == INSTANCE Channel WITH
    owed <- Owed, line <- IF torn \/ connected = "gone" THEN "dead" ELSE connected
In == INSTANCE Channel WITH
    Packet <- Typed, File <- {},
    owed <- Due, line <- IF connected = "gone" THEN "dead" ELSE connected

Fewer(q, r) == Len(q) < Len(r)

\* Both directions are channels.  The player gets every packet once and in the order in
\* which they were sent, though files go ahead and packets wait for them, and nothing on
\* the line keeps them from coming.  The handlers are given exactly the packets the
\* player's program has sent, whatever pieces they come in, and are given them if uploads
\* come to an end.  Only what the socket took, or the handlers got, is gone.
PacketsDelivered ==
    /\ Out!Spec
    /\ [][Fewer(Owed', Owed) => Sends \/ torn' \/ Bury]_vars
    /\ In!Safe /\ (<>[](upload = NoUpload) => In!Arrives)
    /\ [][Fewer(Due', Due) => ReadMore \/ Bury]_vars

=============================================================================
