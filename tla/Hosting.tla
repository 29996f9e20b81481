------------------------------ MODULE Hosting ------------------------------
(***************************************************************************)
(* SupervisorHost (recipes/hosting/supervisor_host.py), which runs a        *)
(* supervisor in a task group of the caller between start() and stop(), and *)
(* host_async_dispatcher (sync_bridge.py), which does so on an event loop   *)
(* of its own for a synchronous caller.                                     *)
(*                                                                          *)
(* The supervisor is taken for what module Supervisor shows of it: the crew *)
(* of daemons is one daemon, started once, whose failure cancels the group. *)
(* start() is called when no other call is in progress; stop() at any time. *)
(***************************************************************************)
EXTENDS Naturals, FiniteSets

CONSTANTS
    Callers,      \* tasks that call start() and stop(); the bridge's _serve is one
    Bridge,       \* _serve
    MaxStarts     \* bound of the model: how often start() is called

ASSUME HostingAssumption == Bridge \in Callers /\ MaxStarts \in Nat

VARIABLES
    bridged, grace,     \* hosted by host_async_dispatcher; default_grace > 0
    started, ready, stop, done, error,    \* the host's fields; events as flags
    run,                \* where _run is
    exc,                \* the exception it is handling
    passed,             \* all daemons had started when this run looked
    crew, failed,       \* the daemons; one has the state "failed" on record
    crewErr,            \* this run's task group has an exception of a daemon
    supCancelled,       \* the supervisor's task group is cancelled
    tgCancelled,        \* the caller's task group, or a scope around it, is
    call, told, starts, \* where each caller is, and how its last call ended
    main, readyFlag, err, shutdown        \* the bridge: its synchronous caller, ready, error, shutdown

fixed == <<bridged, grace>>
hostVars == <<started, ready, stop, done, error>>
runVars == <<run, exc, passed>>
supVars == <<crew, failed, crewErr, supCancelled>>
callVars == <<call, told, starts>>
bridgeVars == <<main, readyFlag, err, shutdown>>
vars == <<fixed, hostVars, runVars, supVars, tgCancelled, callVars, bridgeVars>>

Stopped == supCancelled \/ tgCancelled         \* an await in the supervisor raises
Idle == run \in {"none", "over"} /\ crew \in {"pending", "gone"}

-----------------------------------------------------------------------------
(* start() and stop().                                                       *)

Returns(c, place, outcome) ==
    /\ call' = [call EXCEPT ![c] = place] /\ told' = [told EXCEPT ![c] = outcome]
    /\ UNCHANGED starts

\* A call of start() once the caller's task group is cancelled is left out; a
\* cancellation right after Start, before anything else runs, leads to the same.
Start(c) ==
    /\ call[c] \in {"idle", "setup"} /\ ~started /\ starts < MaxStarts /\ ~tgCancelled
    /\ \A d \in Callers : call[d] \notin {"starting", "stopping"}
    /\ started' = TRUE /\ ready' = FALSE /\ stop' = FALSE /\ done' = FALSE /\ error' = FALSE
    /\ run' = "scheduled" /\ exc' = "none" /\ passed' = FALSE
    /\ call' = [call EXCEPT ![c] = "starting"] /\ told' = [told EXCEPT ![c] = "none"]
    /\ starts' = starts + 1
    /\ UNCHANGED <<fixed, supVars, tgCancelled, bridgeVars>>

\* The bridge notes the outcome and sets its ready flag in any case.
NoCheck == FALSE                               \* mutant
StartupFailed == error
StartReturns(c) ==
    /\ call[c] = "starting" /\ ready
    /\ started' = (started /\ ~StartupFailed)
    /\ IF bridged
       THEN /\ Returns(c, IF StartupFailed THEN "exiting" ELSE "waiting", IF StartupFailed THEN "raised" ELSE "up")
            /\ readyFlag' = TRUE /\ err' = (err \/ StartupFailed)
            /\ tgCancelled' = (tgCancelled \/ StartupFailed)
            /\ UNCHANGED <<main, shutdown>>
       ELSE /\ Returns(c, "idle", IF StartupFailed THEN "raised" ELSE "up")
            /\ UNCHANGED <<tgCancelled, bridgeVars>>
    /\ UNCHANGED <<fixed, ready, stop, done, error, runVars, supVars>>

Stop(c) ==
    /\ call[c] = "idle" \/ (call[c] = "waiting" /\ shutdown)
    /\ started
    /\ stop' = TRUE
    /\ call' = [call EXCEPT ![c] = "stopping"] /\ told' = [told EXCEPT ![c] = "none"]
    /\ UNCHANGED <<fixed, started, ready, done, error, runVars, supVars, tgCancelled, starts, bridgeVars>>

StopReturns(c) ==
    /\ call[c] = "stopping" /\ done
    /\ started' = FALSE
    /\ Returns(c, IF bridged THEN "exiting" ELSE "idle", "stopped")
    /\ UNCHANGED <<fixed, ready, stop, done, error, runVars, supVars, tgCancelled, bridgeVars>>

\* The caller is cancelled while it waits.  The bridge's _serve is in its group.
CallCancelled(c) ==
    /\ IF bridged THEN tgCancelled /\ call[c] \in {"setup", "starting", "waiting", "stopping"}
                  ELSE call[c] \in {"starting", "stopping"}
    /\ Returns(c, IF bridged THEN "exiting" ELSE "idle", "cancelled")
    /\ readyFlag' = (readyFlag \/ bridged) /\ err' = (err \/ call[c] = "setup" \/ (bridged /\ call[c] = "starting"))
    /\ UNCHANGED <<fixed, hostVars, runVars, supVars, tgCancelled, main, shutdown>>

-----------------------------------------------------------------------------
(* _run.                                                                     *)

\* __aenter__ launches the daemons that are pending.
RunEnters ==
    /\ run = "scheduled" /\ run' = "starting"
    /\ crew' = IF crew = "pending" THEN "starting" ELSE crew
    /\ crewErr' = FALSE /\ supCancelled' = FALSE
    /\ UNCHANGED <<fixed, hostVars, exc, passed, failed, tgCancelled, callVars, bridgeVars>>

AllStarted ==
    /\ run = "starting" /\ ~Stopped /\ crew # "starting"
    /\ run' = "checking"
    /\ UNCHANGED <<fixed, hostVars, exc, passed, supVars, tgCancelled, callVars, bridgeVars>>

Checked ==
    /\ run = "checking" /\ ~Stopped
    /\ IF failed
       THEN run' = "stopping" /\ exc' = "error" /\ UNCHANGED <<ready, passed>>
       ELSE run' = "serving" /\ ready' = TRUE /\ passed' = TRUE /\ UNCHANGED exc
    /\ UNCHANGED <<fixed, started, stop, done, error, supVars, tgCancelled, callVars, bridgeVars>>

StopSeen ==
    /\ run = "serving" /\ stop
    /\ run' = "stopping"
    /\ UNCHANGED <<fixed, hostVars, exc, passed, supVars, tgCancelled, callVars, bridgeVars>>

RunCancelled ==
    /\ run \in {"starting", "checking", "serving"} /\ Stopped
    /\ run' = "stopping" /\ exc' = "cancel"
    /\ UNCHANGED <<fixed, hostVars, passed, supVars, tgCancelled, callVars, bridgeVars>>

\* The finally block: on_stopping ends as it may, then the supervisor is stopped.
Stopping ==
    /\ run = "stopping"
    /\ \E raised \in {exc, "error"} \cup (IF Stopped THEN {"cancel"} ELSE {}) :
          /\ exc' = raised
          /\ run' = IF grace /\ crew \in {"starting", "running"} THEN "grace" ELSE "leaving"
          /\ supCancelled' = (supCancelled \/ (run' = "leaving" /\ (crew # "gone" \/ raised # "none")))
    /\ UNCHANGED <<fixed, hostVars, passed, crew, failed, crewErr, tgCancelled, callVars, bridgeVars>>

\* The grace period: it runs out, the crew is gone before, or it is cancelled.
GraceEnds ==
    /\ run = "grace" /\ run' = "leaving"
    /\ exc' \in {exc} \cup (IF Stopped THEN {"cancel"} ELSE {})
    /\ supCancelled' = (supCancelled \/ crew # "gone" \/ exc' # "none")
    /\ UNCHANGED <<fixed, hostVars, passed, crew, failed, crewErr, tgCancelled, callVars, bridgeVars>>

\* __aexit__ has waited for the crew.  An exception before the barrier goes to
\* start(), a later one to the task group; the supervisor's own cancellation to
\* nobody.
DoneEarly == run \in {"grace", "leaving"}      \* mutant
CrewJoined == run = "leaving" /\ crew \notin {"starting", "running"}
RunEnds ==
    /\ CrewJoined
    /\ LET raised == crewErr \/ exc = "error" \/ tgCancelled
       IN  /\ error' = (raised /\ ~ready)
           /\ tgCancelled' = (tgCancelled \/ (raised /\ ready))
    /\ ready' = TRUE /\ done' = TRUE /\ run' = "over"
    /\ UNCHANGED <<fixed, started, stop, exc, passed, supVars, callVars, bridgeVars>>

-----------------------------------------------------------------------------
(* The supervisor, and a scope around the caller's task group.               *)

Crew(from, to) ==
    /\ crew \in from /\ crew' = to
    /\ UNCHANGED <<fixed, hostVars, runVars, tgCancelled, callVars, bridgeVars>>

CrewStarts == Crew({"starting"}, "running") /\ UNCHANGED <<failed, crewErr, supCancelled>>
CrewEnds == Crew({"starting", "running"}, "gone") /\ UNCHANGED <<failed, crewErr, supCancelled>>
CrewFails == Crew({"starting", "running"}, "gone") /\ failed' = TRUE /\ crewErr' = TRUE /\ supCancelled' = TRUE
CrewCancelled == Stopped /\ Crew({"starting", "running"}, "gone") /\ UNCHANGED <<failed, crewErr, supCancelled>>

\* Somebody else calls the supervisor's stop().
StoppedByOther ==
    /\ crew \in {"starting", "running"} /\ supCancelled' = TRUE
    /\ UNCHANGED <<fixed, hostVars, runVars, crew, failed, crewErr, tgCancelled, callVars, bridgeVars>>

CancelOutside ==
    /\ ~bridged /\ tgCancelled' = TRUE
    /\ UNCHANGED <<fixed, hostVars, runVars, supVars, callVars, bridgeVars>>

-----------------------------------------------------------------------------
(* host_async_dispatcher.  Leaving the portal after an exception cancels its  *)
(* tasks; in any case it waits for them.                                      *)

SetupFails ==
    /\ call[Bridge] = "setup"
    /\ Returns(Bridge, "exiting", "raised")
    /\ readyFlag' = TRUE /\ err' = TRUE /\ tgCancelled' = TRUE
    /\ UNCHANGED <<fixed, hostVars, runVars, supVars, main, shutdown>>

\* _serve's task group waits for the run.
ServeEnds ==
    /\ call[Bridge] = "exiting" /\ run \in {"none", "over"}
    /\ Returns(Bridge, "over", told[Bridge])
    /\ err' = (err \/ tgCancelled)
    /\ UNCHANGED <<fixed, hostVars, runVars, supVars, tgCancelled, main, readyFlag, shutdown>>

MainLeaves(cancels) ==
    /\ main' = "leaving" /\ tgCancelled' = (tgCancelled \/ cancels)
    /\ UNCHANGED <<fixed, hostVars, runVars, supVars, callVars, readyFlag, err>>
TimesOut == main = "waiting" /\ ~readyFlag /\ MainLeaves(TRUE) /\ UNCHANGED shutdown
SetupFailed == main = "waiting" /\ readyFlag /\ err /\ MainLeaves(TRUE) /\ UNCHANGED shutdown
Yields ==
    /\ main = "waiting" /\ readyFlag /\ ~err /\ main' = "inside"
    /\ UNCHANGED <<fixed, hostVars, runVars, supVars, tgCancelled, callVars, readyFlag, err, shutdown>>
NoSignal == FALSE                              \* mutant
ShutdownSet == TRUE
BodyEnds == main = "inside" /\ (\E raised \in BOOLEAN : MainLeaves(raised)) /\ shutdown' = ShutdownSet
MainLeft ==
    /\ main = "leaving" /\ call[Bridge] = "over" /\ main' = "left"
    /\ UNCHANGED <<fixed, hostVars, runVars, supVars, tgCancelled, callVars, readyFlag, err, shutdown>>

-----------------------------------------------------------------------------
Init ==
    /\ bridged \in BOOLEAN /\ grace \in (IF bridged THEN {FALSE} ELSE BOOLEAN)
    /\ started = FALSE /\ ready = FALSE /\ stop = FALSE /\ done = FALSE /\ error = FALSE
    /\ run = "none" /\ exc = "none" /\ passed = FALSE
    /\ crew = "pending" /\ failed = FALSE /\ crewErr = FALSE /\ supCancelled = FALSE /\ tgCancelled = FALSE
    /\ call = [c \in Callers |-> IF ~bridged THEN "idle" ELSE IF c = Bridge THEN "setup" ELSE "over"]
    /\ told = [c \in Callers |-> "none"] /\ starts = 0
    /\ main = (IF bridged THEN "waiting" ELSE "none")
    /\ readyFlag = FALSE /\ err = FALSE /\ shutdown = FALSE

RunStep == RunEnters \/ AllStarted \/ Checked \/ StopSeen \/ RunCancelled \/ Stopping \/ GraceEnds \/ RunEnds
CrewStep == CrewStarts \/ CrewEnds \/ CrewFails \/ CrewCancelled \/ StoppedByOther \/ CancelOutside
MainStep == SetupFails \/ ServeEnds \/ TimesOut \/ SetupFailed \/ Yields \/ BodyEnds \/ MainLeft
Next ==
    \/ \E c \in Callers : Start(c) \/ StartReturns(c) \/ Stop(c) \/ StopReturns(c) \/ CallCancelled(c)
    \/ RunStep \/ CrewStep \/ MainStep
Spec == Init /\ [][Next]_vars

\* Tasks run; on_start, and a daemon that is cancelled, end; the timeout passes.
FairSpec ==
    /\ Spec
    /\ WF_vars(RunStep) /\ WF_vars(CrewStarts) /\ WF_vars(CrewCancelled)
    /\ WF_vars(ServeEnds) /\ WF_vars(TimesOut \/ SetupFailed \/ Yields) /\ WF_vars(MainLeft)
    /\ \A c \in Callers : /\ WF_vars(StartReturns(c)) /\ WF_vars(StopReturns(c))
                          /\ WF_vars(bridged /\ (Stop(c) \/ CallCancelled(c)))

-----------------------------------------------------------------------------
(* What the hosts promise.                                                   *)

\* start() returns only when every daemon had started, or the supervisor was
\* stopped meanwhile without any error; it raises, and stop() returns, only when
\* nothing runs any more.  (start, stop, _run)
CallsAreHonest ==
    [][\A c \in Callers : told'[c] # told[c] =>
          /\ told'[c] = "up" => passed \/ (run = "over" /\ ~crewErr /\ exc # "error")
          /\ told'[c] = "raised" => Idle /\ (started => ~started')
          /\ told'[c] = "stopped" => Idle]_vars

\* A host that can be started again has nothing running, so there is one run at
\* a time; a bridge that was left has no task or daemon behind, whether it was
\* in time or not, and its caller gets the dispatcher only of a host that came up.
NothingLeftBehind ==
    /\ ~started => Idle
    /\ main = "left" => Idle /\ call[Bridge] = "over"
    /\ main = "inside" => starts = 1 /\ (passed \/ run = "over")

\* Every call ends, and so does the bridge, whoever fails or is cancelled.
HostingEnds ==
    /\ \A c \in Callers : call[c] \in {"starting", "stopping"} ~> call[c] \notin {"starting", "stopping"}
    /\ main = "waiting" ~> main # "waiting"
    /\ main = "leaving" ~> main = "left"
=============================================================================
