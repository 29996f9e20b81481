---------------------------- MODULE HostingProofs ----------------------------
(***************************************************************************)
(* What the hosts guarantee for any number of callers and of starts.        *)
(***************************************************************************)
EXTENDS Hosting, TLAPS

Places == {"idle", "setup", "starting", "waiting", "stopping", "exiting", "over"}
Tales == {"none", "up", "raised", "stopped", "cancelled"}
HostShape == {started, ready, stop, done, error} \subseteq BOOLEAN
RunShape ==
    /\ run \in {"none", "scheduled", "starting", "checking", "serving", "stopping", "grace", "leaving", "over"}
    /\ exc \in {"none", "error", "cancel"} /\ passed \in BOOLEAN
SupShape ==
    /\ crew \in {"pending", "starting", "running", "gone"}
    /\ {failed, crewErr, supCancelled, tgCancelled} \subseteq BOOLEAN
CallShape == call \in [Callers -> Places] /\ told \in [Callers -> Tales] /\ starts \in Nat
BridgeShape ==
    /\ main \in {"none", "waiting", "inside", "leaving", "left"}
    /\ {readyFlag, err, shutdown} \subseteq BOOLEAN
Shape == {bridged, grace} \subseteq BOOLEAN /\ HostShape /\ RunShape /\ SupShape /\ CallShape /\ BridgeShape

\* The host's flags against where its run is.
RunOK ==
    /\ ~started => Idle
    /\ run \in {"none", "scheduled", "over"} => crew \in {"pending", "gone"}
    /\ done => run = "over"
    /\ error => run = "over"
    /\ ready => passed \/ run = "over"
    /\ run = "over" /\ ~error => passed \/ (~crewErr /\ exc # "error")

\* The bridge: only _serve calls, once, and its flag is set when start() is over.
BridgeOK ==
    /\ ~bridged => main = "none" /\ \A c \in Callers : call[c] \in {"idle", "starting", "stopping"}
    /\ bridged => call[Bridge] # "idle" /\ \A c \in Callers \ {Bridge} : call[c] = "over"
    /\ call[Bridge] = "setup" => starts = 0 /\ ~started /\ run = "none" /\ ~readyFlag
    /\ bridged /\ call[Bridge] = "starting" => starts = 1 /\ ~readyFlag
    /\ bridged /\ call[Bridge] \in {"waiting", "stopping"} => readyFlag
    /\ bridged /\ readyFlag /\ ~err => starts = 1 /\ (passed \/ run = "over")
    /\ bridged /\ call[Bridge] = "over" => run \in {"none", "over"}
    /\ main = "inside" => readyFlag /\ starts = 1 /\ (passed \/ run = "over")
    /\ main = "left" => call[Bridge] = "over"

Inv == Shape /\ RunOK /\ BridgeOK

-----------------------------------------------------------------------------
LEMMA InitInv == Init => Inv
<1> SUFFICES ASSUME Init PROVE Inv
  OBVIOUS
<1>1. Shape
  BY DEF Init, Shape, HostShape, RunShape, SupShape, CallShape, BridgeShape, Places, Tales
<1>2. RunOK
  BY DEF Init, RunOK, Idle
<1>3. BridgeOK
  BY HostingAssumption DEF Init, BridgeOK
<1> QED BY <1>1, <1>2, <1>3 DEF Inv

\* Every step keeps the types.
LEMMA ShapeStep == ASSUME Shape, Next PROVE Shape'
<1> USE HostingAssumption DEF Shape, HostShape, RunShape, SupShape, CallShape, BridgeShape, Places, Tales, fixed, hostVars, runVars, supVars, callVars, bridgeVars
<1>1. ASSUME NEW c \in Callers, Start(c) PROVE Shape'
  <2>1. CallShape'
    BY <1>1 DEF Start
  <2>2. HostShape' /\ RunShape'
    BY <1>1 DEF Start
  <2>3. SupShape' /\ BridgeShape'
    BY <1>1 DEF Start
  <2>4. ({bridged, grace} \subseteq BOOLEAN)'
    BY <1>1 DEF Start
  <2> QED BY <2>1, <2>2, <2>3, <2>4
<1>2. ASSUME NEW c \in Callers, StartReturns(c) PROVE Shape'
  <2>1. CallShape'
    BY <1>2 DEF StartReturns, Returns, StartupFailed
  <2>2. HostShape' /\ RunShape'
    BY <1>2 DEF StartReturns, Returns, StartupFailed
  <2>3. SupShape' /\ BridgeShape'
    BY <1>2 DEF StartReturns, Returns, StartupFailed
  <2>4. ({bridged, grace} \subseteq BOOLEAN)'
    BY <1>2 DEF StartReturns
  <2> QED BY <2>1, <2>2, <2>3, <2>4
<1>3. ASSUME NEW c \in Callers, Stop(c) PROVE Shape'
  BY <1>3 DEF Stop
<1>4. ASSUME NEW c \in Callers, StopReturns(c) PROVE Shape'
  BY <1>4 DEF StopReturns, Returns
<1>5. ASSUME NEW c \in Callers, CallCancelled(c) PROVE Shape'
  BY <1>5 DEF CallCancelled, Returns
<1>6. CASE RunEnters
  BY <1>6 DEF RunEnters
<1>7. CASE AllStarted
  BY <1>7 DEF AllStarted, Stopped
<1>8. CASE Checked
  BY <1>8 DEF Checked, Stopped
<1>9. CASE StopSeen
  BY <1>9 DEF StopSeen
<1>10. CASE RunCancelled
  BY <1>10 DEF RunCancelled, Stopped
<1>11. CASE Stopping
  BY <1>11 DEF Stopping, Stopped
<1>12. CASE GraceEnds
  BY <1>12 DEF GraceEnds, Stopped
<1>13. CASE RunEnds
  BY <1>13 DEF RunEnds, CrewJoined
<1>14. CASE CrewStarts
  BY <1>14 DEF CrewStarts, Crew
<1>15. CASE CrewEnds
  BY <1>15 DEF CrewEnds, Crew
<1>16. CASE CrewFails
  BY <1>16 DEF CrewFails, Crew
<1>17. CASE CrewCancelled
  BY <1>17 DEF CrewCancelled, Crew, Stopped
<1>18. CASE StoppedByOther
  BY <1>18 DEF StoppedByOther
<1>19. CASE CancelOutside
  BY <1>19 DEF CancelOutside
<1>20. CASE SetupFails
  BY <1>20 DEF SetupFails, Returns
<1>21. CASE ServeEnds
  BY <1>21 DEF ServeEnds, Returns
<1>22. CASE TimesOut
  BY <1>22 DEF TimesOut, MainLeaves
<1>23. CASE SetupFailed
  BY <1>23 DEF SetupFailed, MainLeaves
<1>24. CASE Yields
  BY <1>24 DEF Yields
<1>25. CASE BodyEnds
  BY <1>25 DEF BodyEnds, MainLeaves, ShutdownSet
<1>26. CASE MainLeft
  BY <1>26 DEF MainLeft
<1> QED
  BY <1>1, <1>2, <1>3, <1>4, <1>5, <1>6, <1>7, <1>8, <1>9, <1>10, <1>11, <1>12, <1>13, <1>14, <1>15, <1>16, <1>17, <1>18, <1>19, <1>20, <1>21, <1>22, <1>23, <1>24, <1>25, <1>26
     DEF Next, RunStep, CrewStep, MainStep

-----------------------------------------------------------------------------
\* The flags of the host follow its run, at the step of the run or of a caller.
LEMMA RunOKStep == ASSUME Shape, RunOK, BridgeOK, Next PROVE RunOK'
<1> USE HostingAssumption DEF Shape, RunShape, SupShape, RunOK, Idle, fixed, hostVars, runVars, supVars, callVars, bridgeVars
<1>1. ASSUME NEW c \in Callers, Start(c) PROVE RunOK'
  BY <1>1 DEF Start
<1>2. ASSUME NEW c \in Callers, StartReturns(c) PROVE RunOK'
  BY <1>2 DEF StartReturns, Returns, StartupFailed
<1>3. ASSUME NEW c \in Callers, Stop(c) PROVE RunOK'
  BY <1>3 DEF Stop
<1>4. ASSUME NEW c \in Callers, StopReturns(c) PROVE RunOK'
  BY <1>4 DEF StopReturns, Returns
<1>5. ASSUME NEW c \in Callers, CallCancelled(c) PROVE RunOK'
  BY <1>5 DEF CallCancelled, Returns
<1>6. CASE RunEnters
  BY <1>6 DEF RunEnters
<1>7. CASE AllStarted
  BY <1>7 DEF AllStarted, Stopped
<1>8. CASE Checked
  BY <1>8 DEF Checked, Stopped
<1>9. CASE StopSeen
  BY <1>9 DEF StopSeen
<1>10. CASE RunCancelled
  BY <1>10 DEF RunCancelled, Stopped
<1>11. CASE Stopping
  BY <1>11 DEF Stopping, Stopped
<1>12. CASE GraceEnds
  BY <1>12 DEF GraceEnds, Stopped
<1>13. CASE RunEnds
  BY <1>13 DEF RunEnds, CrewJoined
<1>14. CASE CrewStarts
  BY <1>14 DEF CrewStarts, Crew
<1>15. CASE CrewEnds
  BY <1>15 DEF CrewEnds, Crew
<1>16. CASE CrewFails
  BY <1>16 DEF CrewFails, Crew
<1>17. CASE CrewCancelled
  BY <1>17 DEF CrewCancelled, Crew, Stopped
<1>18. CASE StoppedByOther
  BY <1>18 DEF StoppedByOther
<1>19. CASE CancelOutside
  BY <1>19 DEF CancelOutside
<1>20. CASE SetupFails
  BY <1>20 DEF SetupFails, Returns
<1>21. CASE ServeEnds
  BY <1>21 DEF ServeEnds, Returns
<1>22. CASE TimesOut
  BY <1>22 DEF TimesOut, MainLeaves
<1>23. CASE SetupFailed
  BY <1>23 DEF SetupFailed, MainLeaves
<1>24. CASE Yields
  BY <1>24 DEF Yields
<1>25. CASE BodyEnds
  BY <1>25 DEF BodyEnds, MainLeaves, ShutdownSet
<1>26. CASE MainLeft
  BY <1>26 DEF MainLeft
<1> QED
  BY <1>1, <1>2, <1>3, <1>4, <1>5, <1>6, <1>7, <1>8, <1>9, <1>10, <1>11, <1>12, <1>13, <1>14, <1>15, <1>16, <1>17, <1>18, <1>19, <1>20, <1>21, <1>22, <1>23, <1>24, <1>25, <1>26
     DEF Next, RunStep, CrewStep, MainStep

-----------------------------------------------------------------------------
\* The bridge's flags follow where _serve and its synchronous caller are.
LEMMA BridgeOKStep == ASSUME Shape, RunOK, BridgeOK, Next PROVE BridgeOK'
<1> USE HostingAssumption DEF Shape, CallShape, BridgeShape, RunOK, BridgeOK, Idle, fixed, hostVars, runVars, supVars, callVars, bridgeVars
<1>1. ASSUME NEW c \in Callers, Start(c) PROVE BridgeOK'
  <2>1. call'[c] = "starting" /\ \A d \in Callers \ {c} : call'[d] = call[d]
    BY <1>1 DEF Start
  <2>2. CASE bridged
    <3>1. c = Bridge /\ call[Bridge] = "setup" /\ starts = 0 /\ ~readyFlag
      BY <1>1, <2>2 DEF Start
    <3>2. main # "inside" /\ main # "left" /\ call'[Bridge] = "starting"
      BY <2>1, <3>1
    <3> QED BY <1>1, <2>1, <2>2, <3>1, <3>2 DEF Start
  <2>3. CASE ~bridged
    BY <1>1, <2>1, <2>3 DEF Start
  <2> QED BY <2>2, <2>3
<1>2. ASSUME NEW c \in Callers, StartReturns(c) PROVE BridgeOK'
  BY <1>2 DEF StartReturns, Returns, StartupFailed
<1>3. ASSUME NEW c \in Callers, Stop(c) PROVE BridgeOK'
  <2>1. call'[c] = "stopping" /\ \A d \in Callers \ {c} : call'[d] = call[d]
    BY <1>3 DEF Stop
  <2> QED BY <1>3, <2>1 DEF Stop
<1>4. ASSUME NEW c \in Callers, StopReturns(c) PROVE BridgeOK'
  BY <1>4 DEF StopReturns, Returns
<1>5. ASSUME NEW c \in Callers, CallCancelled(c) PROVE BridgeOK'
  BY <1>5 DEF CallCancelled, Returns
<1>6. CASE RunEnters
  BY <1>6 DEF RunEnters
<1>7. CASE AllStarted
  BY <1>7 DEF AllStarted, Stopped
<1>8. CASE Checked
  BY <1>8 DEF Checked, Stopped
<1>9. CASE StopSeen
  BY <1>9 DEF StopSeen
<1>10. CASE RunCancelled
  BY <1>10 DEF RunCancelled, Stopped
<1>11. CASE Stopping
  BY <1>11 DEF Stopping, Stopped
<1>12. CASE GraceEnds
  BY <1>12 DEF GraceEnds, Stopped
<1>13. CASE RunEnds
  BY <1>13 DEF RunEnds, CrewJoined
<1>14. CASE CrewStarts
  BY <1>14 DEF CrewStarts, Crew
<1>15. CASE CrewEnds
  BY <1>15 DEF CrewEnds, Crew
<1>16. CASE CrewFails
  BY <1>16 DEF CrewFails, Crew
<1>17. CASE CrewCancelled
  BY <1>17 DEF CrewCancelled, Crew, Stopped
<1>18. CASE StoppedByOther
  BY <1>18 DEF StoppedByOther
<1>19. CASE CancelOutside
  BY <1>19 DEF CancelOutside
<1>20. CASE SetupFails
  BY <1>20 DEF SetupFails, Returns
<1>21. CASE ServeEnds
  BY <1>21 DEF ServeEnds, Returns
<1>22. CASE TimesOut
  BY <1>22 DEF TimesOut, MainLeaves
<1>23. CASE SetupFailed
  BY <1>23 DEF SetupFailed, MainLeaves
<1>24. CASE Yields
  BY <1>24 DEF Yields
<1>25. CASE BodyEnds
  BY <1>25 DEF BodyEnds, MainLeaves, ShutdownSet
<1>26. CASE MainLeft
  BY <1>26 DEF MainLeft
<1> QED
  BY <1>1, <1>2, <1>3, <1>4, <1>5, <1>6, <1>7, <1>8, <1>9, <1>10, <1>11, <1>12, <1>13, <1>14, <1>15, <1>16, <1>17, <1>18, <1>19, <1>20, <1>21, <1>22, <1>23, <1>24, <1>25, <1>26
     DEF Next, RunStep, CrewStep, MainStep

-----------------------------------------------------------------------------
LEMMA InvStep == Inv /\ [Next]_vars => Inv'
<1> SUFFICES ASSUME Inv, [Next]_vars PROVE Inv'
  OBVIOUS
<1>1. CASE UNCHANGED vars
  BY <1>1 DEF Inv, Shape, HostShape, RunShape, SupShape, CallShape, BridgeShape, RunOK, BridgeOK, Idle,
              vars, fixed, hostVars, runVars, supVars, callVars, bridgeVars
<1>2. CASE Next
  BY <1>2, ShapeStep, RunOKStep, BridgeOKStep DEF Inv
<1> QED BY <1>1, <1>2

LEMMA InvAlways == Spec => []Inv
  BY InitInv, InvStep, PTL DEF Spec

-----------------------------------------------------------------------------
\* A host that can be started again has nothing running, and a bridge that was
\* left has nothing behind, however its calls, its run and its crew interleave.
\* (start, stop, _run, host_async_dispatcher)
THEOREM HostsLeaveNothing == Spec => []NothingLeftBehind
<1>1. Inv => NothingLeftBehind
  BY DEF Inv, RunOK, BridgeOK, NothingLeftBehind, Idle
<1> QED BY <1>1, InvAlways, PTL

\* start() and stop() tell each caller the truth at the step that returns to it.
\* (start, stop, _serve)
THEOREM CallsTellTheTruth == Spec => CallsAreHonest
<1> DEFINE Honest == \A c \in Callers : told'[c] # told[c] =>
          /\ told'[c] = "up" => passed \/ (run = "over" /\ ~crewErr /\ exc # "error")
          /\ told'[c] = "raised" => Idle /\ (started => ~started')
          /\ told'[c] = "stopped" => Idle
<1>1. Inv /\ [Next]_vars => [Honest]_vars
  <2> SUFFICES ASSUME Inv, Next, NEW c \in Callers, told'[c] # told[c]
               PROVE  /\ told'[c] = "up" => passed \/ (run = "over" /\ ~crewErr /\ exc # "error")
                      /\ told'[c] = "raised" => Idle /\ (started => ~started')
                      /\ told'[c] = "stopped" => Idle
    OBVIOUS
  <2> USE DEF Inv, Shape, CallShape, SupShape, RunOK, Idle, fixed, hostVars, runVars, supVars, callVars, bridgeVars
  <2>1. ASSUME NEW d \in Callers, Start(d) PROVE told'[c] = "none"
    BY <2>1 DEF Start
  <2>2. ASSUME NEW d \in Callers, StartReturns(d)
        PROVE  /\ told'[c] = (IF error THEN "raised" ELSE "up")
               /\ ready /\ started' = (started /\ ~error)
    BY <2>2 DEF StartReturns, Returns, StartupFailed
  <2>3. ASSUME NEW d \in Callers, Stop(d) PROVE told'[c] = "none"
    BY <2>3 DEF Stop
  <2>4. ASSUME NEW d \in Callers, StopReturns(d) PROVE told'[c] = "stopped" /\ done
    BY <2>4 DEF StopReturns, Returns
  <2>5. ASSUME NEW d \in Callers, CallCancelled(d) PROVE told'[c] = "cancelled"
    BY <2>5 DEF CallCancelled, Returns
  <2>6. ~RunStep
    BY DEF RunStep, RunEnters, AllStarted, Checked, StopSeen, RunCancelled, Stopping, GraceEnds, RunEnds
  <2>7. ~CrewStep
    BY DEF CrewStep, CrewStarts, CrewEnds, CrewFails, CrewCancelled, Crew, StoppedByOther, CancelOutside
  <2>8. CASE MainStep
    <3>1. SetupFails
      BY <2>8, HostingAssumption DEF MainStep, ServeEnds, Returns, TimesOut, SetupFailed, Yields, BodyEnds, MainLeft, MainLeaves
    <3> QED BY <3>1, HostingAssumption DEF SetupFails, Returns, BridgeOK
  <2> QED BY <2>1, <2>2, <2>3, <2>4, <2>5, <2>6, <2>7, <2>8 DEF Next
<1> QED BY <1>1, InvAlways, PTL DEF Spec, CallsAreHonest
=============================================================================
