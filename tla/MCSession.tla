------------------------------ MODULE MCSession ------------------------------
(* Small instances of Session for TLC. *)
EXTENDS Session, SequencesExt

CONSTANT MaxQueued   \* actions that wait in all the queues together

\* Clients are interchangeable, and so are accounts and characters.
Symmetry == Permutations(Conn) \cup Permutations(Account) \cup Permutations(Char)

QueuesSmall == MapThenSumSet(LAMBDA c : Len(queue[c]), Conn) <= MaxQueued
=============================================================================
