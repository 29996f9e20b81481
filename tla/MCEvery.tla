------------------------------ MODULE MCEvery ------------------------------
(* Periodic ticks for TLC.                                                   *)
EXTENDS Every
=============================================================================
