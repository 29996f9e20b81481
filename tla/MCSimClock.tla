----------------------------- MODULE MCSimClock -----------------------------
(***************************************************************************)
(* Instances of SimClock for TLC.  Times are small integers; rtol counts    *)
(* halves.                                                                  *)
(***************************************************************************)
EXTENDS SimClock, TLC

\* Tasks that play the same part may be exchanged (safety runs only).
Symmetry == Permutations(Tasks)

Goal(t, rtol, atol, hook) == [t |-> t, rtol |-> rtol, atol |-> atol, hook |-> hook]

\* The same time without and with a tolerance that reaches entries beyond it, and
\* with a hook: such advances settle first, as TimeWaitsForWork asks.
SettledGoals == {Goal(2, 0, 0, TRUE), Goal(2, 0, 1, TRUE)}
\* Two drivers whose goals and tolerances differ, one of them with a hook.
RivalGoals == {Goal(1, 0, 0, TRUE), Goal(2, 1, 0, FALSE)}
=============================================================================
