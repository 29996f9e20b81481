----------------------------- MODULE MCRouting -----------------------------
(* The routing recipes and select() for TLC: three items, so that a          *)
(* destination has its second turn, but two for the larger worker pool.      *)
EXTENDS Routing

ItemsTried == [r \in Recipes |-> IF r = "worker_pool" THEN 2 ELSE 3]
=============================================================================
