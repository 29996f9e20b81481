---------------------------- MODULE MCZmqChannel ----------------------------
(* Small instances of ZmqChannel for TLC.                                    *)
EXTENDS ZmqChannel
=============================================================================
