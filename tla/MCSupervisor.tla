--------------------------- MODULE MCSupervisor ---------------------------
(* Small instances of Supervisor for TLC.                                    *)
EXTENDS Supervisor, TLC

AllPolicies == {"shutdown", "restart", "ignore"}
Unlimited == NoLimit
Symmetry == Permutations(Daemons)
=============================================================================
