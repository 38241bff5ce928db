------------------------------- MODULE Channel -------------------------------
(***************************************************************************)
(* What one side of a connection counts on: packets arrive whole, each     *)
(* once, in the order in which they were sent, and while the connection    *)
(* is open they do arrive.  Files go ahead of packets.                     *)
(*                                                                         *)
(* A line that is dead promises nothing any more.                          *)
(***************************************************************************)
EXTENDS Integers, Sequences

CONSTANTS Packet, File

VARIABLES
    owed,   \* what is on its way
    line    \* "open", "closed" or "dead"

vars == <<owed, line>>

Init == owed = <<>> /\ line = "open"

Send ==
    /\ line # "dead"
    /\ \E p \in Packet : owed' = Append(owed, p)
    /\ UNCHANGED line

Overtake ==
    /\ line # "dead"
    /\ \E f \in File : owed' = <<f>> \o owed
    /\ UNCHANGED line

Deliver ==
    /\ line # "dead"
    /\ \E n \in 1..Len(owed) : owed' = SubSeq(owed, n + 1, Len(owed))
    /\ UNCHANGED line

Close == line = "open" /\ line' = "closed" /\ UNCHANGED owed

Die == line' = "dead" /\ owed' = <<>>

Next == Send \/ Overtake \/ Deliver \/ Close \/ Die

\* Weak fairness of Deliver while the line is open, written without ENABLED.
Arrives == []<>(owed = <<>> \/ line # "open") \/ []<><<Deliver>>_vars

Safe == Init /\ [][Next]_vars
Spec == Safe /\ Arrives

=============================================================================
