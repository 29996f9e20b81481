------------------------------- MODULE Every -------------------------------
(***************************************************************************)
(* Periodic ticks: SimClock.every and WallClock.every (clock.py), consumed  *)
(* by cooperative_every (recipes/coordination/), whose loop body takes as   *)
(* long as it likes.  A wait may end early: by the SimClock's tolerance, or *)
(* by the resolution of the event loop's timers under a WallClock.          *)
(***************************************************************************)
EXTENDS Integers

CONSTANTS
    Periods,     \* the periods that are tried
    Early,       \* how much too early a wait may end
    Horizon      \* bound of the model: the latest time

ASSUME EveryAssumption ==
    Early \in Nat /\ Horizon \in Nat /\ Periods \subseteq {p \in Nat : p > Early}

VARIABLES
    clock, first, period,   \* "sim" or "wall", and the arguments
    now,         \* the clock's time
    t0,          \* the time of the call
    tick,        \* the next tick
    asked,       \* the time at which it was computed
    last,        \* the tick before it that reached the body
    stopping,    \* ctx.stopping
    pc           \* "begin", "check", "wait", "body" or "ended"
args == <<clock, first, period>>
vars == <<args, now, t0, tick, asked, last, stopping, pc>>

\* Time passes; not while a task that reads SimClock's time runs on.
TimePasses ==
    /\ now < Horizon /\ ~(clock = "sim" /\ pc = "check")
    /\ now' = now + 1
    /\ UNCHANGED <<args, t0, tick, asked, last, stopping, pc>>

StopSignalled ==
    /\ ~stopping /\ stopping' = TRUE
    /\ UNCHANGED <<args, now, t0, tick, asked, last, pc>>

\* The first iteration.
Begin ==
    /\ pc = "begin" /\ pc' = "check"
    /\ t0' = now /\ asked' = now
    /\ tick' = IF first = "now" THEN now ELSE now + period
    /\ UNCHANGED <<args, now, last, stopping>>

\* A tick reaches cooperative_every, which looks at ctx.stopping.
Yield ==
    /\ pc' = IF stopping THEN "ended" ELSE "body"
    /\ UNCHANGED <<args, now, t0, tick, asked, last, stopping>>

\* The clock is read once more, and there is a wait or not.
Check ==
    /\ pc = "check"
    /\ \/ tick <= now /\ Yield
       \/ tick > now /\ pc' = "wait" /\ UNCHANGED <<args, now, t0, tick, asked, last, stopping>>

Wake == pc = "wait" /\ now >= tick - Early /\ Yield

\* The body is done.  Ticks that were missed are skipped; a WallClock does not
\* move on while its tick is still to come.
CatchUp == tick + period                       \* mutant
NextTick ==
    LET from == IF clock = "sim" THEN tick + period ELSE tick
        steps == {k \in 0..Horizon + 1 : from + k * period > now}
    IN  from + period * (CHOOSE k \in steps : \A j \in steps : k <= j)
BodyEnds ==
    /\ pc = "body" /\ pc' = "check"
    /\ last' = tick /\ tick' = NextTick /\ asked' = now
    /\ UNCHANGED <<args, now, t0, stopping>>

Init ==
    /\ clock \in {"sim", "wall"} /\ first \in {"now", "after"} /\ period \in Periods
    /\ now = 0 /\ t0 = 0 /\ tick = 0 /\ asked = 0 /\ last = -1
    /\ stopping = FALSE /\ pc = "begin"
Next == TimePasses \/ StopSignalled \/ Begin \/ Check \/ Wake \/ BodyEnds
Spec == Init /\ [][Next]_vars

-----------------------------------------------------------------------------
\* The body sees the first tick of the schedule that is later than the moment it
\* asked for one, never one of the ticks it missed, none before its time, and
\* each once, unless a WallClock's wait has ended early; after the stop is
\* signalled it sees no other.  (every, cooperative_every)
IsFresh ==
    /\ tick >= t0 /\ (tick - t0) % period = 0
    /\ tick <= now + Early
    /\ last = -1 => tick = IF first = "now" THEN t0 ELSE t0 + period
    /\ last # -1 =>
          LET since == IF clock = "sim" /\ last > asked THEN last ELSE asked
          IN  tick > since /\ tick - period <= since /\ (last <= asked => tick > last)
FreshTicks == [][(pc # "body" /\ pc' = "body") => IsFresh /\ ~stopping]_vars
=============================================================================
