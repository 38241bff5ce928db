----------------------------- MODULE MCSequence -----------------------------
(* Small instances of Sequence for TLC. *)
EXTENDS Sequence
=============================================================================
