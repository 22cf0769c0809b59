------------------------------ MODULE MCTraps -------------------------------
(* A small instance of Traps for TLC.                                      *)
EXTENDS Traps
=============================================================================
