-------------------------------- MODULE MCTimer --------------------------------
(* A small instance of Timer for TLC. *)
EXTENDS Timer

CONSTANT a
Speeds == [k \in Kind |-> IF k \in {"cast", "evacuate", "spikes"} THEN 1 ELSE 0]
=============================================================================
