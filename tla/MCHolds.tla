------------------------------ MODULE MCHolds ------------------------------
(* Small instances of Holds for TLC. *)
EXTENDS Holds
=============================================================================
