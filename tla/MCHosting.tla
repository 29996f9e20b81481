----------------------------- MODULE MCHosting -----------------------------
(* SupervisorHost and host_async_dispatcher for TLC.                         *)
EXTENDS Hosting
=============================================================================
