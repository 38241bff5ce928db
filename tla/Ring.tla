--------------------------------- MODULE Ring ---------------------------------
(***************************************************************************)
(* The buffers of a connection: a string whose places are used in a        *)
(* circle, the positions of the last byte that was taken and of the last   *)
(* that was put, and how many are between them.                            *)
(*                                                                         *)
(* Places of bytes that were taken are Blank here; the code leaves what    *)
(* was in them.                                                            *)
(***************************************************************************)
EXTENDS Integers, Sequences

CONSTANT Blank

\* Client::SetRecvBuffer and Client::SetSendBuffer.
Empty(size) ==
    [size |-> size, slot |-> [i \in 0..(size - 1) |-> Blank],
     gpos |-> 0, ppos |-> 0, used |-> 0]

Room(r) == r.size - r.used

\* Which of the bytes that are put comes to a place.
Turn(r, i) == ((i - r.ppos - 1) % r.size) + 1
Put(r, bytes) ==
    [size |-> r.size,
     slot |-> [i \in 0..(r.size - 1) |-> IF Turn(r, i) <= Len(bytes)
                                         THEN bytes[Turn(r, i)] ELSE r.slot[i]],
     gpos |-> r.gpos,
     ppos |-> (r.ppos + Len(bytes)) % r.size,
     used |-> r.used + Len(bytes)]

\* Bytes that are put without going round: what comes after the last place is lost.
PutBeyond(r, bytes) ==
    [size |-> r.size,
     slot |-> [i \in 0..(r.size - 1) |-> IF i - r.ppos \in DOMAIN bytes
                                         THEN bytes[i - r.ppos] ELSE r.slot[i]],
     gpos |-> r.gpos,
     ppos |-> r.ppos + Len(bytes),
     used |-> r.used + Len(bytes)]

Peek(r, n) == [k \in 1..n |-> r.slot[(r.gpos + k) % r.size]]
Taken(r, i, n) == (i - r.gpos - 1) % r.size < n
Take(r, n) ==
    [size |-> r.size,
     slot |-> [i \in 0..(r.size - 1) |-> IF Taken(r, i, n) THEN Blank ELSE r.slot[i]],
     gpos |-> (r.gpos + n) % r.size,
     ppos |-> r.ppos,
     used |-> r.used - n]

Contents(r) == Peek(r, r.used)

=============================================================================
