------------------------------ MODULE MCRestart ------------------------------
(* An instance of Restart for TLC. *)
EXTENDS Restart
=============================================================================
