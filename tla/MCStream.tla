------------------------------- MODULE MCStream -------------------------------
(* A small instance of Stream for TLC. *)
EXTENDS Stream

Lengths == [p |-> 2, q |-> 3, s |-> 3, t |-> 4]
FileSizes == [map |-> 1, full |-> 2, big |-> 3]
=============================================================================
