------------------------------ MODULE MCBatcher ------------------------------
(* Small instances of Batcher for TLC.                                       *)
EXTENDS Batcher
==============================================================================
