----------------------------- MODULE Characters -----------------------------
(***************************************************************************)
(* The characters: what they own is modelled in Items, whom they go with   *)
(* in Party.  A character here is an object of the server, and stands for  *)
(* whoever is logged in with it.                                           *)
(***************************************************************************)

CONSTANT Char    \* places in memory where characters are kept

=============================================================================
