--------------------------- MODULE SimClockProofs ---------------------------
(***************************************************************************)
(* What SimClock guarantees for any number of tasks, drivers and calls.     *)
(***************************************************************************)
EXTENDS SimClock, WellFoundedInduction, TLAPS

Shape == [heap : SUBSET Entries, instant : SUBSET Entries, deferred : SUBSET Entries]

\* Gather and the finally block only move entries: their containers keep the
\* type of entries (_pop_due, _heap_due).
LEMMA GatherType ==
    ASSUME NEW c \in Shape, NEW M, NEW n, NEW g
    PROVE  Gather(c, M, n, g) \in Shape
  BY DEF Gather, Join, Popped, Shape

LEMMA CurrentType ==
    ASSUME TypeOK, NEW g
    PROVE  Current(g) \in Shape
<1>1. Containers \in Shape
  BY DEF TypeOK, Containers, Shape
<1> QED BY <1>1, GatherType DEF Current

\* A driver is idle, or begins a settle within its budgets (_settle).
LEMMA IdleType == Idle \in Advances
  BY BoundsAssumption DEF Idle, Advances

LEMMA SettlingType ==
    ASSUME NEW g \in Goals \cup {NoGoal}, NEW final \in BOOLEAN, NEW n \in 0..(MaxSettles - 1), NEW at
    PROVE  Settling(g, final, n, at) \in Advances
  BY BoundsAssumption DEF Settling, Runnable, Advances

LEMMA ReleaseType ==
    ASSUME TypeOK, NEW d \in Drivers, NEW c \in Shape, Release(d, c)
    PROVE  /\ heap' \subseteq Entries /\ instant' \subseteq Entries /\ deferred' \subseteq Entries
           /\ anchor' \in Int /\ advancing' \in BOOLEAN /\ drv' \in [Drivers -> Advances]
<1>1. heap' \subseteq Entries /\ instant' \subseteq Entries /\ deferred' \subseteq Entries
  BY DEF Release, PutBack, Shape
<1>2. drv' \in [Drivers -> Advances]
  BY IdleType DEF TypeOK, Release
<1>3. anchor' \in Int
  BY DEF Release, NoTime
<1>4. advancing' \in BOOLEAN
  BY DEF Release
<1> QED BY <1>1, <1>2, <1>3, <1>4

\* What user code does next leaves pc, arg and calls well-typed.
LEMMA ContinueType ==
    ASSUME TypeOK, NEW t \in Tasks, Continue(t)
    PROVE  pc' \in [Tasks -> Places] /\ arg' \in [Tasks -> Args] /\ calls' \in Nat
<1>1. ASSUME NEW p, NEW s, p \in Priorities, s \in Delays \cup Deadlines
      PROVE  [time |-> s, priority |-> p] \in Args
  <2>1. s \in Nat /\ p \in Int
    BY <1>1, TimesAssumption
  <2> QED BY <2>1 DEF Args
<1>2. NoArg \in Args
  BY DEF NoArg, Args
<1>3. {"sleep", "wait_until", "done", "busy"} \subseteq Places
  BY DEF Places
<1>4. pc' \in [Tasks -> Places]
  BY <1>3 DEF TypeOK, Continue
<1>5. arg' \in [Tasks -> Args]
  BY <1>1, <1>2 DEF TypeOK, Continue
<1>6. calls' \in Nat
  BY DEF TypeOK, Continue
<1> QED BY <1>4, <1>5, <1>6

LEMMA RanType ==
    ASSUME TypeOK, NEW t, Ran(t)
    PROVE  drv' \in [Drivers -> Advances]
<1>1. ASSUME NEW r \in Advances PROVE [r EXCEPT !.owed = @ \ {t}] \in Advances
  BY DEF Advances
<1> QED BY <1>1 DEF TypeOK, Ran

\* A wake pops one entry: whatever the gathered containers c and the end of the
\* instant, time and the woken sleeper's place stay well-typed (_advance_to).
LEMMA WakeType ==
    ASSUME TypeOK, NEW d \in Drivers, NEW c \in Shape, NEW e \in c.instant, NEW end \in Int, Wake(d, c, e, end)
    PROVE  /\ now' \in Nat /\ instantEnd' \in Int /\ pc' \in [Tasks -> Places]
           /\ heap' \subseteq Entries /\ instant' \subseteq Entries /\ deferred' \subseteq Entries
           /\ advancing' \in BOOLEAN /\ drv' \in [Drivers -> Advances]
           /\ UNCHANGED <<cancelled, arg, calls>>
<1> DEFINE g == drv[d].goal
           rest == {w \in c.instant : Sooner(e, w)}
<1>1. g \in Goals \cup {NoGoal} /\ g.t \in Nat
  BY GoalsAssumption DEF TypeOK, Advances, NoGoal
<1>2. now' \in Nat
  BY <1>1 DEF TypeOK, Wake
<1>3. pc' \in [Tasks -> Places]
  BY DEF TypeOK, Wake, Places
<1>4. [c EXCEPT !.instant = rest] \in Shape
  BY DEF Shape
<1>5. Settling(g, FALSE, 0, pc') \in Advances
  <2>1. 0 \in 0..(MaxSettles - 1)
    BY BoundsAssumption
  <2> HIDE DEF g
  <2> QED BY <1>1, <2>1, SettlingType
<1>6. CASE heap' = c.heap /\ instant' = rest /\ deferred' = c.deferred /\ UNCHANGED advancing
             /\ drv' = [drv EXCEPT ![d] = Settling(g, FALSE, 0, pc')]
  <2>1. heap' \subseteq Entries /\ instant' \subseteq Entries /\ deferred' \subseteq Entries
    BY <1>6 DEF Shape
  <2>2. drv' \in [Drivers -> Advances]
    BY <1>5, <1>6 DEF TypeOK
  <2>3. advancing' \in BOOLEAN
    BY <1>6 DEF TypeOK
  <2>4. UNCHANGED <<cancelled, arg, calls>> /\ instantEnd' \in Int
    BY DEF Wake
  <2> QED BY <1>2, <1>3, <2>1, <2>2, <2>3, <2>4
<1>7. CASE Release(d, [c EXCEPT !.instant = rest])
  <2>1. /\ heap' \subseteq Entries /\ instant' \subseteq Entries /\ deferred' \subseteq Entries
        /\ advancing' \in BOOLEAN /\ drv' \in [Drivers -> Advances]
    BY <1>4, <1>7, ReleaseType
  <2>2. UNCHANGED <<cancelled, arg, calls>> /\ instantEnd' \in Int
    BY DEF Wake
  <2> QED BY <1>2, <1>3, <2>1, <2>2
<1> QED BY <1>6, <1>7 DEF Wake

\* The clock starts well-typed (__init__).
LEMMA InitType == Init => TypeOK
<1> SUFFICES ASSUME Init PROVE TypeOK
  OBVIOUS
<1>1. pc \in [Tasks -> Places] /\ arg \in [Tasks -> Args]
  BY DEF Init, Places, Args, NoArg
<1>2. drv \in [Drivers -> Advances]
  BY IdleType DEF Init
<1>3. advancing \in BOOLEAN
  BY DEF Init
<1>4. anchor \in Int /\ instantEnd \in Int
  BY DEF Init, NoTime
<1> QED BY <1>1, <1>2, <1>3, <1>4 DEF Init, TypeOK

\* Every reachable state is well-typed, and no settle exceeds its budgets.
THEOREM TypeCorrect == Spec => []TypeOK
<1>2. TypeOK /\ [Next]_vars => TypeOK'
  <2> SUFFICES ASSUME TypeOK, [Next]_vars PROVE TypeOK'
    OBVIOUS
  <2> USE DEF TypeOK
  <2>0. 0 \in 0..(MaxSettles - 1)
    BY BoundsAssumption
  <2>1. CASE UNCHANGED vars
    BY <2>1 DEF vars, clock
  <2>2. ASSUME NEW d \in Drivers, Begin(d) PROVE TypeOK'
    <3>1. PICK g \in Goals : drv' = [drv EXCEPT ![d] = IF g.hook THEN Settling(g, FALSE, 0, pc)
                                       ELSE [Idle EXCEPT !.phase = "serve", !.goal = g]]
      BY <2>2 DEF Begin
    <3>2. Settling(g, FALSE, 0, pc) \in Advances
      BY <2>0, SettlingType
    <3>3. [Idle EXCEPT !.phase = "serve", !.goal = g] \in Advances
      BY IdleType DEF Advances
    <3> QED BY <2>2, <3>1, <3>2, <3>3 DEF Begin, clock
  <2>3. ASSUME NEW d \in Drivers, Checkpoint(d) PROVE TypeOK'
    <3>1. ASSUME NEW r \in Advances
          PROVE  /\ r.left > 1 => [r EXCEPT !.left = r.left - 1, !.owed = Runnable(pc)] \in Advances
                 /\ [r EXCEPT !.left = 0, !.phase = IF r.goal.hook THEN "hook" ELSE "serve"] \in Advances
      <4>1. Rounds \in Nat /\ r.left \in 0..Rounds /\ 0 \in 0..Rounds
        BY BoundsAssumption DEF Advances
      <4>2. r.left > 1 => r.left - 1 \in 0..Rounds
        BY <4>1
      <4>3. Runnable(pc) \in SUBSET Tasks
        BY DEF Runnable
      <4>4. (IF r.goal.hook THEN "hook" ELSE "serve") \in {"idle", "settle", "hook", "serve"}
        OBVIOUS
      <4> QED BY <4>1, <4>2, <4>3, <4>4 DEF Advances
    <3>2. drv[d] \in Advances
      OBVIOUS
    <3>3. drv' \in [Drivers -> Advances]
      BY <2>3, <3>1, <3>2 DEF Checkpoint
    <3> QED BY <2>3, <3>3 DEF Checkpoint, clock
  <2>4. ASSUME NEW d \in Drivers, HookIdle(d) PROVE TypeOK'
    <3>1. drv' \in [Drivers -> Advances]
      BY <2>4 DEF HookIdle, Advances
    <3> QED BY <2>4, <3>1 DEF HookIdle, clock
  <2>5. ASSUME NEW d \in Drivers, HookBusy(d) PROVE TypeOK'
    <3>1. drv[d].settles + 1 \in 0..(MaxSettles - 1) /\ drv[d].goal \in Goals \cup {NoGoal} /\ drv[d].final \in BOOLEAN
      BY <2>5, BoundsAssumption DEF HookBusy, MayRepeat, Advances
    <3>2. Settling(drv[d].goal, drv[d].final, drv[d].settles + 1, pc) \in Advances
      BY <3>1, SettlingType
    <3>3. drv' \in [Drivers -> Advances]
      BY <2>5, <3>2 DEF HookBusy
    <3> QED BY <2>5, <3>3 DEF HookBusy, clock
  <2>6. ASSUME NEW d \in Drivers, Abort(d) PROVE TypeOK'
    <3>1. Containers \in Shape
      BY DEF Containers, Shape
    <3>2. /\ heap' \subseteq Entries /\ instant' \subseteq Entries /\ deferred' \subseteq Entries
          /\ anchor' \in Int /\ advancing' \in BOOLEAN /\ drv' \in [Drivers -> Advances]
      BY <2>6, <3>1, ReleaseType DEF Abort
    <3> QED BY <2>6, <3>2 DEF Abort
  <2>7. ASSUME NEW d \in Drivers, ServeCurrent(d) PROVE TypeOK'
    <3> DEFINE c == Current(drv[d].goal)
    <3>1. c \in Shape
      BY CurrentType
    <3>2. PICK e \in c.instant, end \in {instantEnd} \cup {w.deadline : w \in c.instant \ instant} :
            Wake(d, c, e, end) /\ anchor' = IF advancing' THEN anchor ELSE NoTime
      BY <2>7 DEF ServeCurrent
    <3>3. end \in Int
      BY <3>1 DEF Shape, Entries
    <3>4. anchor' \in Int
      BY <3>2 DEF NoTime
    <3> HIDE DEF c
    <3>5. /\ now' \in Nat /\ instantEnd' \in Int /\ pc' \in [Tasks -> Places]
          /\ heap' \subseteq Entries /\ instant' \subseteq Entries /\ deferred' \subseteq Entries
          /\ advancing' \in BOOLEAN /\ drv' \in [Drivers -> Advances]
          /\ UNCHANGED <<cancelled, arg, calls>>
      BY <3>1, <3>2, <3>3, WakeType
    <3> QED BY <2>7, <3>4, <3>5 DEF ServeCurrent
  <2>8. ASSUME NEW d \in Drivers, ServeNext(d) PROVE TypeOK'
    <3> DEFINE g == drv[d].goal
               c == Current(g)
               F(first) == Gather([c EXCEPT !.instant = {}], Members(c.heap, first.deadline, g), seq, g)
    <3>1. c \in Shape
      BY CurrentType
    <3>2. PICK first \in c.heap : \E e \in F(first).instant, end \in {w.deadline : w \in F(first).instant} :
            Wake(d, F(first), e, end) /\ anchor' = IF advancing' THEN first.deadline ELSE NoTime
      BY <2>8 DEF ServeNext
    <3> DEFINE f == F(first)
    <3>3. [c EXCEPT !.instant = {}] \in Shape
      BY <3>1 DEF Shape
    <3>4. f \in Shape
      <4> HIDE DEF c, g
      <4> QED BY <3>3, GatherType
    <3>5. PICK e \in f.instant, end \in {w.deadline : w \in f.instant} :
            Wake(d, f, e, end) /\ anchor' = IF advancing' THEN first.deadline ELSE NoTime
      BY <3>2
    <3> HIDE DEF c, g, F, f
    <3>6. end \in Int
      BY <3>4, <3>5 DEF Shape, Entries
    <3>7. anchor' \in Int
      BY <3>1, <3>2, <3>5 DEF NoTime, Shape, Entries
    <3>8. /\ now' \in Nat /\ instantEnd' \in Int /\ pc' \in [Tasks -> Places]
          /\ heap' \subseteq Entries /\ instant' \subseteq Entries /\ deferred' \subseteq Entries
          /\ advancing' \in BOOLEAN /\ drv' \in [Drivers -> Advances]
          /\ UNCHANGED <<cancelled, arg, calls>>
      BY <3>4, <3>5, <3>6, WakeType
    <3> QED BY <2>8, <3>7, <3>8 DEF ServeNext
  <2>9. ASSUME NEW d \in Drivers, NoneDue(d) PROVE TypeOK'
    <3> DEFINE g == drv[d].goal
               c == Current(g)
               s == Gather([c EXCEPT !.instant = {}], {}, 0, g)
    <3>1. c \in Shape
      BY CurrentType
    <3>2. [c EXCEPT !.instant = {}] \in Shape
      BY <3>1 DEF Shape
    <3>3. s \in Shape
      <4> HIDE DEF c, g
      <4> QED BY <3>2, GatherType
    <3>4. g \in Goals \cup {NoGoal} /\ g.t \in Nat
      BY GoalsAssumption DEF Advances, NoGoal
    <3>5. Settling(g, TRUE, 0, pc) \in Advances
      <4> HIDE DEF g
      <4> QED BY <2>0, <3>4, SettlingType
    <3>6. /\ UNCHANGED <<instantEnd, instantSeq, cancelled, seq, pc, arg, calls>>
          /\ \/ now' = g.t /\ Release(d, s)
             \/ /\ heap' = s.heap /\ instant' = {} /\ deferred' = s.deferred /\ anchor' = NoTime
                /\ drv' = [drv EXCEPT ![d] = Settling(g, TRUE, 0, pc)]
                /\ UNCHANGED <<now, advancing>>
      BY <2>9 DEF NoneDue
    <3> HIDE DEF c, g, s
    <3>7. CASE now' = g.t /\ Release(d, s)
      <4>1. /\ heap' \subseteq Entries /\ instant' \subseteq Entries /\ deferred' \subseteq Entries
            /\ anchor' \in Int /\ advancing' \in BOOLEAN /\ drv' \in [Drivers -> Advances]
        BY <3>3, <3>7, ReleaseType
      <4> QED BY <3>4, <3>6, <3>7, <4>1
    <3>8. CASE /\ heap' = s.heap /\ instant' = {} /\ deferred' = s.deferred /\ anchor' = NoTime
               /\ drv' = [drv EXCEPT ![d] = Settling(g, TRUE, 0, pc)]
               /\ UNCHANGED <<now, advancing>>
      <4>1. heap' \subseteq Entries /\ instant' \subseteq Entries /\ deferred' \subseteq Entries
        BY <3>3, <3>8 DEF Shape
      <4>2. drv' \in [Drivers -> Advances]
        BY <3>5, <3>8
      <4>3. anchor' \in Int
        BY <3>8 DEF NoTime
      <4> QED BY <3>6, <3>8, <4>1, <4>2, <4>3
    <3> QED BY <3>6, <3>7, <3>8
  <2>10. ASSUME NEW t \in Tasks, Run(t) \/ WaitPast(t) \/ CancelEarly(t) PROVE TypeOK'
    <3>1. Continue(t) /\ Ran(t) /\ UNCHANGED <<now, clock, cancelled, seq, advancing>>
      BY <2>10 DEF Run, WaitPast, CancelEarly
    <3>2. pc' \in [Tasks -> Places] /\ arg' \in [Tasks -> Args] /\ calls' \in Nat /\ drv' \in [Drivers -> Advances]
      BY <3>1, ContinueType, RanType
    <3> QED BY <3>1, <3>2 DEF clock
  <2>11. ASSUME NEW t \in Tasks, SleepStep(t) PROVE TypeOK'
    <3>1. Ran(t) /\ UNCHANGED <<now, clock, cancelled, seq, advancing>>
      BY <2>11 DEF SleepStep
    <3>2. drv' \in [Drivers -> Advances]
      BY <3>1, RanType
    <3>3. pc' \in [Tasks -> Places] /\ arg' \in [Tasks -> Args] /\ calls' \in Nat
      <4>1. CASE Continue(t)
        BY <4>1, ContinueType
      <4>2. CASE /\ pc' = [pc EXCEPT ![t] = "wait_until"]
                 /\ arg' = [arg EXCEPT ![t].time = now + @]
                 /\ UNCHANGED calls
        BY <4>2 DEF Places, Args
      <4> QED BY <2>11, <4>1, <4>2 DEF SleepStep
    <3> QED BY <3>1, <3>2, <3>3 DEF clock
  <2>12. ASSUME NEW t \in Tasks, Park(t) PROVE TypeOK'
    <3>1. Entry(arg[t].time, arg[t].priority, t) \in Entries
      BY DEF Entry, Entries, Args
    <3>2. pc' \in [Tasks -> Places] /\ arg' \in [Tasks -> Args]
      BY <2>12 DEF Park, Places, Args, NoArg
    <3>3. drv' \in [Drivers -> Advances]
      BY <2>12, RanType DEF Park
    <3> QED BY <2>12, <3>1, <3>2, <3>3 DEF Park
  <2>13. ASSUME NEW t \in Tasks, Resume(t) PROVE TypeOK'
    BY <2>13 DEF Resume, clock, Places
  <2>14. ASSUME NEW t \in Tasks, CancelSleep(t) PROVE TypeOK'
    <3>1. pc' \in [Tasks -> Places] /\ arg' \in [Tasks -> Args] /\ calls' \in Nat /\ drv' \in [Drivers -> Advances]
      BY <2>14, ContinueType, RanType DEF CancelSleep
    <3>2. Live \subseteq Entries
      BY DEF Live, Pending
    <3>3. {w.seq : w \in {v \in Live : v.owner = t}} \subseteq Nat
      BY <3>2 DEF Entries
    <3> QED BY <2>14, <3>1, <3>3 DEF CancelSleep
  <2>15. CASE CallAt
    <3>1. ASSUME NEW x \in Deadlines, NEW p \in Priorities PROVE Entry(x, p, Host) \in Entries
      BY TimesAssumption DEF Entry, Entries
    <3> QED BY <2>15, <3>1 DEF CallAt
  <2>16. CASE CancelCall
    <3>1. Live \subseteq Entries
      BY DEF Live, Pending
    <3> QED BY <2>16, <3>1 DEF CancelCall, clock, Entries
  <2> QED BY <2>1, <2>2, <2>3, <2>4, <2>5, <2>6, <2>7, <2>8, <2>9, <2>10, <2>11, <2>12, <2>13, <2>14, <2>15, <2>16
         DEF Next, Drive, Step
<1> QED BY InitType, <1>2, PTL DEF Spec

-----------------------------------------------------------------------------
(* One driver at a time, and time only moves forward.                        *)

\* No driver's goal is behind it: an advance to the past is a no-op, and every
\* wake stops at the goal (min(t, latest deadline)).
GoalAhead == \A d \in Drivers : drv[d].phase # "idle" => now <= drv[d].goal.t
DriveInv == TypeOK /\ OneDriver /\ GoalAhead

\* The driver that is advancing goes on: it stays the only one.
LEMMA DriverGoesOn ==
    ASSUME TypeOK, OneDriver, NEW d \in Drivers, drv[d].phase # "idle", UNCHANGED advancing,
           NEW r, r.phase # "idle", drv' = [drv EXCEPT ![d] = r]
    PROVE  OneDriver'
<1>1. advancing
  BY DEF OneDriver
<1>2. \A e \in Drivers : drv'[e].phase # "idle" <=> drv[e].phase # "idle"
  BY DEF TypeOK
<1> QED BY <1>1, <1>2 DEF OneDriver

\* The finally block leaves no driver, no instant and nothing set aside.
LEMMA DriverReleases ==
    ASSUME TypeOK, OneDriver, NEW d \in Drivers, drv[d].phase # "idle", NEW c, Release(d, c)
    PROVE  OneDriver' /\ \A e \in Drivers : drv'[e].phase = "idle"
<1>1. \A e \in Drivers : drv'[e].phase = "idle"
  BY DEF Release, TypeOK, OneDriver, Idle
<1> QED BY <1>1 DEF Release, OneDriver

\* A wake moves time forward, never beyond the goal.
LEMMA WakeDrives ==
    ASSUME DriveInv, NEW d \in Drivers, drv[d].phase # "idle", NEW c, NEW e, NEW end \in Int, Wake(d, c, e, end)
    PROVE  now' >= now /\ OneDriver' /\ GoalAhead'
<1> DEFINE g == drv[d].goal
           rest == {w \in c.instant : Sooner(e, w)}
<1>1. g.t \in Nat /\ now \in Nat /\ now <= g.t
  BY GoalsAssumption DEF DriveInv, TypeOK, GoalAhead, Advances, NoGoal
<1>2. now' >= now /\ now' <= g.t
  BY <1>1 DEF Wake
<1>3. CASE UNCHANGED advancing /\ drv' = [drv EXCEPT ![d] = Settling(g, FALSE, 0, pc')]
  <2>1. Settling(g, FALSE, 0, pc').phase # "idle" /\ Settling(g, FALSE, 0, pc').goal = g
    BY DEF Settling
  <2>2. OneDriver'
    BY <1>3, <2>1, DriverGoesOn DEF DriveInv
  <2>3. GoalAhead'
    <3> SUFFICES ASSUME NEW x \in Drivers, drv'[x].phase # "idle" PROVE now' <= drv'[x].goal.t
      BY DEF GoalAhead
    <3>1. CASE x = d
      BY <1>2, <1>3, <2>1, <3>1 DEF DriveInv, TypeOK
    <3>2. CASE x # d
      BY <1>3, <3>2 DEF DriveInv, TypeOK, OneDriver
    <3> QED BY <3>1, <3>2
  <2> QED BY <1>2, <2>2, <2>3
<1>4. CASE Release(d, [c EXCEPT !.instant = rest])
  <2> HIDE DEF rest
  <2>1. OneDriver' /\ \A x \in Drivers : drv'[x].phase = "idle"
    BY <1>4, DriverReleases DEF DriveInv
  <2> QED BY <1>2, <2>1 DEF GoalAhead
<1> QED BY <1>3, <1>4 DEF Wake

\* A step of a task leaves the drivers where they are.
LEMMA RanDrives ==
    ASSUME DriveInv, NEW t, Ran(t) \/ UNCHANGED drv
    PROVE  \A d \in Drivers : drv'[d].phase = drv[d].phase /\ drv'[d].goal = drv[d].goal
  BY DEF DriveInv, TypeOK, Ran, Advances

\* The step lemma of OneDriver and MonotoneTime, by action.
LEMMA DriveStep ==
    ASSUME DriveInv, TypeOK', [Next]_vars
    PROVE  OneDriver' /\ GoalAhead' /\ now' >= now
<1>0. TypeOK /\ OneDriver /\ GoalAhead /\ now \in Nat
  BY DEF DriveInv, TypeOK
<1>1. CASE UNCHANGED vars
  BY <1>0, <1>1 DEF vars, clock, OneDriver, GoalAhead
<1>2. ASSUME NEW d \in Drivers, Begin(d) PROVE OneDriver' /\ GoalAhead' /\ now' >= now
  <2>1. PICK g \in Goals : /\ MayBegin(g)
                           /\ drv' = [drv EXCEPT ![d] = IF g.hook THEN Settling(g, FALSE, 0, pc)
                                       ELSE [Idle EXCEPT !.phase = "serve", !.goal = g]]
    BY <1>2 DEF Begin
  <2>2. drv'[d].phase # "idle" /\ drv'[d].goal = g
    BY <1>0, <2>1 DEF TypeOK, Settling, Idle
  <2>3. \A x \in Drivers \ {d} : drv'[x].phase = "idle"
    BY <1>0, <2>1 DEF MayBegin, OneDriver, TypeOK
  <2>4. UNCHANGED now /\ advancing'
    BY <1>2 DEF Begin
  <2>5. OneDriver'
    BY <2>2, <2>3, <2>4 DEF OneDriver
  <2>6. GoalAhead' /\ now' >= now
    <3>1. g.t \in Nat /\ g.t >= now
      BY <2>1, GoalsAssumption DEF MayBegin
    <3>2. \A x \in Drivers : drv'[x].phase # "idle" => x = d
      BY <2>3
    <3> QED BY <1>0, <2>2, <2>4, <3>1, <3>2 DEF GoalAhead
  <2> QED BY <2>5, <2>6
<1>3. ASSUME NEW d \in Drivers, NEW r, drv[d].phase # "idle", r.phase # "idle", r.goal = drv[d].goal,
             drv' = [drv EXCEPT ![d] = r], UNCHANGED <<now, advancing>>
      PROVE  OneDriver' /\ GoalAhead' /\ now' >= now
  <2>1. OneDriver'
    BY <1>0, <1>3, DriverGoesOn
  <2>2. GoalAhead'
    BY <1>0, <1>3 DEF GoalAhead, TypeOK
  <2> QED BY <1>0, <1>3, <2>1, <2>2
<1>4. ASSUME NEW d \in Drivers, Checkpoint(d) PROVE OneDriver' /\ GoalAhead' /\ now' >= now
  <2> DEFINE r == IF drv[d].left > 1 THEN [drv[d] EXCEPT !.left = drv[d].left - 1, !.owed = Runnable(pc)]
                  ELSE [drv[d] EXCEPT !.left = 0, !.phase = IF drv[d].goal.hook THEN "hook" ELSE "serve"]
  <2>1. r.phase # "idle" /\ r.goal = drv[d].goal /\ drv[d].phase # "idle"
    BY <1>0, <1>4 DEF Checkpoint, TypeOK, Advances
  <2>2. drv' = [drv EXCEPT ![d] = r] /\ UNCHANGED <<now, advancing>>
    BY <1>4 DEF Checkpoint
  <2> HIDE DEF r
  <2> QED BY <1>3, <2>1, <2>2
<1>5. ASSUME NEW d \in Drivers, HookIdle(d) PROVE OneDriver' /\ GoalAhead' /\ now' >= now
  <2> DEFINE r == [drv[d] EXCEPT !.phase = "serve"]
  <2>1. r.phase # "idle" /\ r.goal = drv[d].goal /\ drv[d].phase # "idle"
    BY <1>0, <1>5 DEF HookIdle, TypeOK, Advances
  <2>2. drv' = [drv EXCEPT ![d] = r] /\ UNCHANGED <<now, advancing>>
    BY <1>0, <1>5 DEF HookIdle, TypeOK
  <2> HIDE DEF r
  <2> QED BY <1>3, <2>1, <2>2
<1>6. ASSUME NEW d \in Drivers, HookBusy(d) PROVE OneDriver' /\ GoalAhead' /\ now' >= now
  <2> DEFINE r == Settling(drv[d].goal, drv[d].final, drv[d].settles + 1, pc)
  <2>1. r.phase # "idle" /\ r.goal = drv[d].goal /\ drv[d].phase # "idle"
    BY <1>6 DEF HookBusy, Settling
  <2>2. drv' = [drv EXCEPT ![d] = r] /\ UNCHANGED <<now, advancing>>
    BY <1>6 DEF HookBusy
  <2> HIDE DEF r
  <2> QED BY <1>3, <2>1, <2>2
<1>7. ASSUME NEW d \in Drivers, Abort(d) PROVE OneDriver' /\ GoalAhead' /\ now' >= now
  <2>1. OneDriver' /\ \A x \in Drivers : drv'[x].phase = "idle"
    BY <1>0, <1>7, DriverReleases DEF Abort
  <2> QED BY <1>0, <1>7, <2>1 DEF Abort, GoalAhead
<1>8. ASSUME NEW d \in Drivers, ServeCurrent(d) PROVE OneDriver' /\ GoalAhead' /\ now' >= now
  <2>1. PICK e \in Current(drv[d].goal).instant,
             end \in {instantEnd} \cup {w.deadline : w \in Current(drv[d].goal).instant \ instant} :
          Wake(d, Current(drv[d].goal), e, end)
    BY <1>8 DEF ServeCurrent
  <2>2. Current(drv[d].goal) \in Shape
    BY <1>0, CurrentType
  <2>3. end \in Int
    BY <1>0, <2>1, <2>2 DEF Shape, Entries, TypeOK
  <2>4. drv[d].phase # "idle"
    BY <1>8 DEF ServeCurrent
  <2> QED BY <2>1, <2>3, <2>4, WakeDrives
<1>9. ASSUME NEW d \in Drivers, ServeNext(d) PROVE OneDriver' /\ GoalAhead' /\ now' >= now
  <2> DEFINE c == Current(drv[d].goal)
             F(first) == Gather([c EXCEPT !.instant = {}], Members(c.heap, first.deadline, drv[d].goal), seq,
                                drv[d].goal)
  <2>1. PICK first \in c.heap : \E e \in F(first).instant, end \in {w.deadline : w \in F(first).instant} :
          Wake(d, F(first), e, end)
    BY <1>9 DEF ServeNext
  <2>2. F(first) \in Shape
    <3>1. [c EXCEPT !.instant = {}] \in Shape
      BY <1>0, CurrentType DEF Shape
    <3> HIDE DEF c
    <3> QED BY <3>1, GatherType
  <2> DEFINE f == F(first)
  <2>3. PICK e \in f.instant, end \in {w.deadline : w \in f.instant} : Wake(d, f, e, end)
    BY <2>1
  <2> HIDE DEF c, F, f
  <2>4. end \in Int
    BY <2>2, <2>3 DEF Shape, Entries, f
  <2>5. drv[d].phase # "idle"
    BY <1>9 DEF ServeNext
  <2> QED BY <2>3, <2>4, <2>5, WakeDrives
<1>10. ASSUME NEW d \in Drivers, NoneDue(d) PROVE OneDriver' /\ GoalAhead' /\ now' >= now
  <2> DEFINE g == drv[d].goal
             s == Gather([Current(g) EXCEPT !.instant = {}], {}, 0, g)
             r == Settling(g, TRUE, 0, pc)
  <2>1. \/ now' = g.t /\ Release(d, s)
        \/ drv' = [drv EXCEPT ![d] = r] /\ UNCHANGED <<now, advancing>>
    BY <1>10 DEF NoneDue
  <2>2. drv[d].phase # "idle" /\ g.t >= now
    BY <1>0, <1>10, GoalsAssumption DEF NoneDue, GoalAhead, TypeOK, Advances, NoGoal
  <2>3. r.phase # "idle" /\ r.goal = g
    BY DEF Settling
  <2> HIDE DEF s, r
  <2>4. CASE now' = g.t /\ Release(d, s)
    <3>1. OneDriver' /\ \A x \in Drivers : drv'[x].phase = "idle"
      BY <1>0, <2>2, <2>4, DriverReleases
    <3> QED BY <2>2, <2>4, <3>1 DEF GoalAhead
  <2>5. CASE drv' = [drv EXCEPT ![d] = r] /\ UNCHANGED <<now, advancing>>
    BY <1>3, <2>2, <2>3, <2>5
  <2> QED BY <2>1, <2>4, <2>5
<1>11. ASSUME NEW t \in Tasks, Step(t) \/ Resume(t) \/ CancelEarly(t) \/ CancelSleep(t)
       PROVE  OneDriver' /\ GoalAhead' /\ now' >= now
  <2>1. (Ran(t) \/ UNCHANGED drv) /\ UNCHANGED <<now, instant, deferred, anchor, advancing>>
    BY <1>11 DEF Step, Run, SleepStep, WaitPast, Park, Resume, CancelEarly, CancelSleep, clock
  <2>2. \A d \in Drivers : drv'[d].phase = drv[d].phase /\ drv'[d].goal = drv[d].goal
    BY <2>1, RanDrives
  <2> QED BY <1>0, <2>1, <2>2 DEF OneDriver, GoalAhead
<1>12. CASE CallAt
  BY <1>0, <1>12 DEF CallAt, OneDriver, GoalAhead
<1>13. CASE CancelCall
  BY <1>0, <1>13 DEF CancelCall, clock, OneDriver, GoalAhead
<1> QED BY <1>1, <1>2, <1>4, <1>5, <1>6, <1>7, <1>8, <1>9, <1>10, <1>11, <1>12, <1>13 DEF Next, Drive

\* The guard of advance_to and its finally block keep one driver at a time, and
\* leave everything pending in the heap when it is over, however it ends.
THEOREM OneDriverAlways == Spec => []OneDriver
<1>1. Init => DriveInv
  <2> SUFFICES ASSUME Init PROVE OneDriver /\ GoalAhead
    BY InitType DEF DriveInv
  <2> QED BY DEF Init, OneDriver, GoalAhead, Idle
<1>2. DriveInv /\ TypeOK' /\ [Next]_vars => DriveInv'
  BY DriveStep DEF DriveInv
<1>3. DriveInv => OneDriver
  BY DEF DriveInv
<1> QED BY <1>1, <1>2, <1>3, TypeCorrect, PTL DEF Spec

\* Virtual time never moves back: not by a second driver, a failed advance or a
\* tolerance that reaches beyond the goal.
THEOREM TimeIsMonotone == Spec => MonotoneTime
<1>1. Init => DriveInv
  <2> SUFFICES ASSUME Init PROVE OneDriver /\ GoalAhead
    BY InitType DEF DriveInv
  <2> QED BY DEF Init, OneDriver, GoalAhead, Idle
<1>2. DriveInv /\ TypeOK' /\ [Next]_vars => DriveInv'
  BY DriveStep DEF DriveInv
<1>3. DriveInv /\ TypeOK' /\ [Next]_vars => [now' >= now]_now
  BY DriveStep
<1> QED BY <1>1, <1>2, <1>3, TypeCorrect, PTL DEF Spec, MonotoneTime

-----------------------------------------------------------------------------
(* No sleeper is lost or woken twice.                                        *)

All(c) == c.heap \cup c.instant \cup c.deferred
Apart(c) == c.heap \cap c.instant = {} /\ c.heap \cap c.deferred = {} /\ c.instant \cap c.deferred = {}
\* Containers c hold what is pending, less some cancelled entries.
Keeps(c) == Apart(c) /\ All(c) \subseteq Pending /\ Live \subseteq All(c)

\* Registration numbers are fresh (next(self._seq)).
FreshSeq == (\A w \in Pending : w.seq < seq) /\ (\A n \in cancelled : n < seq)
ParkInv == TypeOK /\ ParkedIffPending /\ FreshSeq

\* _heap_due and _pop_due drop only cancelled entries, and put every other one
\* in one place: the instant, the set-aside ones or back in the heap.
LEMMA GatherKeeps ==
    ASSUME NEW c, Keeps(c), NEW M, M \subseteq c.heap, NEW n, NEW g
    PROVE  Keeps(Gather(c, M, n, g)) /\ c.instant \subseteq Gather(c, M, n, g).instant
<1> DEFINE popped == Popped(c.heap, {w \in c.heap : Skips(w, g)} \cup M)
           joins == Join(popped, n, g)
           aside == {w \in popped : w.seq \notin cancelled /\ SetAside(w, g)}
           dead == {w \in popped : w.seq \in cancelled}
           r == [heap |-> c.heap \ (joins \cup aside \cup dead), instant |-> c.instant \cup joins,
                 deferred |-> c.deferred \cup aside]
<1>1. r = Gather(c, M, n, g)
  BY DEF Gather
<1>2. popped \subseteq c.heap /\ joins \subseteq popped /\ aside \subseteq popped /\ dead \subseteq popped
  BY DEF Popped, Join
<1>3. joins \cap aside = {} /\ \A w \in dead : w.seq \in cancelled
  BY DEF Join, Skips
<1> HIDE DEF popped, joins, aside, dead
<1>4. Apart(r)
  BY <1>2, <1>3 DEF Apart, Keeps
<1>5. All(r) \subseteq Pending
  BY <1>2 DEF All, Keeps
<1>6. Live \subseteq All(r)
  BY <1>3 DEF All, Keeps, Live
<1>7. c.instant \subseteq r.instant
  OBVIOUS
<1> HIDE DEF r
<1>8. Keeps(r)
  BY <1>4, <1>5, <1>6 DEF Keeps
<1> QED BY <1>1, <1>7, <1>8

LEMMA CurrentKeeps ==
    ASSUME ParkInv, NEW g
    PROVE  Keeps(Current(g))
<1>1. Keeps(Containers)
  BY DEF ParkInv, ParkedIffPending, Keeps, Apart, All, Containers, Pending, Live
<1>2. Members(heap, anchor, g) \subseteq Containers.heap
  BY DEF Members, Containers
<1> QED BY <1>1, <1>2, GatherKeeps DEF Current

\* Entries G stop being pending or alive, and whoever they belong to is awake.
LEMMA FewerPending ==
    ASSUME ParkInv, NEW G \in SUBSET Live, Live' = Live \ G, Pending' \subseteq Pending,
           heap' \cap instant' = {} /\ heap' \cap deferred' = {} /\ instant' \cap deferred' = {},
           \A t \in Tasks : pc'[t] = "parked" <=> pc[t] = "parked" /\ \A w \in G : w.owner # t
    PROVE  ParkedIffPending'
<1>1. \A v, w \in Pending' : v.seq = w.seq => v = w
  BY DEF ParkInv, ParkedIffPending
<1>2. \A v, w \in Live' : v.owner = w.owner /\ v.owner \in Tasks => v = w
  BY DEF ParkInv, ParkedIffPending
<1>3. \A t \in Tasks : pc'[t] = "parked" <=> \E w \in Live' : w.owner = t
  <2> SUFFICES ASSUME NEW t \in Tasks PROVE pc'[t] = "parked" <=> \E w \in Live' : w.owner = t
    OBVIOUS
  <2>1. ASSUME pc'[t] = "parked" PROVE \E w \in Live' : w.owner = t
    BY <2>1 DEF ParkInv, ParkedIffPending
  <2>2. ASSUME NEW w \in Live', w.owner = t PROVE pc'[t] = "parked"
    <3>1. \A v \in G : v.owner # t
      BY <2>2 DEF ParkInv, ParkedIffPending
    <3> QED BY <2>2, <3>1 DEF ParkInv, ParkedIffPending
  <2> QED BY <2>1, <2>2
<1> QED BY <1>1, <1>2, <1>3 DEF ParkedIffPending

\* A new entry x is registered: its owner, if a task, parks on it.
LEMMA OneMorePending ==
    ASSUME ParkInv, NEW x \in Entries, x.seq = seq, Pending' = Pending \cup {x}, UNCHANGED cancelled, seq' = seq + 1,
           heap' \cap instant' = {} /\ heap' \cap deferred' = {} /\ instant' \cap deferred' = {},
           x.owner \in Tasks => pc[x.owner] # "parked",
           \A t \in Tasks : pc'[t] = "parked" <=> pc[t] = "parked" \/ x.owner = t
    PROVE  ParkedIffPending' /\ FreshSeq'
<1>1. \A w \in Pending : w.seq \in Nat /\ w.seq < seq
  BY DEF ParkInv, FreshSeq, TypeOK, Pending, Entries
<1>2. x.seq \notin cancelled /\ \A w \in Pending : w.seq # x.seq
  BY <1>1 DEF ParkInv, FreshSeq, TypeOK
<1>3. Live' = Live \cup {x}
  BY <1>2 DEF Live
<1>4. FreshSeq'
  BY <1>1 DEF ParkInv, FreshSeq, TypeOK
<1>5. \A v, w \in Pending' : v.seq = w.seq => v = w
  BY <1>2 DEF ParkInv, ParkedIffPending
<1>6. \A v, w \in Live' : v.owner = w.owner /\ v.owner \in Tasks => v = w
  BY <1>3 DEF ParkInv, ParkedIffPending
<1>7. \A t \in Tasks : pc'[t] = "parked" <=> \E w \in Live' : w.owner = t
  BY <1>3 DEF ParkInv, ParkedIffPending
<1> QED BY <1>4, <1>5, <1>6, <1>7 DEF ParkedIffPending

\* The finally block puts every entry back in the heap.
LEMMA ReleaseKeeps ==
    ASSUME NEW c, NEW d, Release(d, c)
    PROVE  /\ Pending' = All(c)
           /\ heap' \cap instant' = {} /\ heap' \cap deferred' = {} /\ instant' \cap deferred' = {}
  BY DEF Release, PutBack, Pending, All

\* A wake takes out one live entry, the top of the instant, and wakes its sleeper;
\* what it drops on the way is cancelled (lazy deletion).
LEMMA WakeKeeps ==
    ASSUME ParkInv, NEW d, NEW c, Keeps(c), NEW e \in c.instant, NEW end, NextInInstant(e, c.instant),
           Wake(d, c, e, end), seq' >= seq, seq' \in Nat
    PROVE  ParkedIffPending' /\ FreshSeq' /\ e \in Live /\ Live' = Live \ {e} /\ Pending' \subseteq Pending
<1> DEFINE rest == {w \in c.instant : Sooner(e, w)}
<1>1. e \in Live
  BY DEF Keeps, All, Live, NextInInstant
<1>2. \A w \in Pending : w.priority \in Int /\ w.seq \in Nat
  BY DEF ParkInv, TypeOK, Pending, Entries
<1>3. \A w \in Live \cap c.instant : w = e \/ w \in rest
  <2> SUFFICES ASSUME NEW w \in Live, w \in c.instant, w # e PROVE Sooner(e, w)
    OBVIOUS
  <2>1. ~Sooner(w, e)
    BY DEF NextInInstant, Live
  <2>2. w.seq # e.seq /\ w \in Pending /\ e \in Pending
    BY <1>1 DEF ParkInv, ParkedIffPending, Live
  <2> QED BY <1>2, <2>1, <2>2 DEF Sooner
<1>4. e \notin rest
  BY <1>1, <1>2 DEF Sooner, Live
<1>5. \/ heap' = c.heap /\ instant' = rest /\ deferred' = c.deferred
      \/ Release(d, [c EXCEPT !.instant = rest])
  BY DEF Wake
<1>6. rest \subseteq c.instant
  OBVIOUS
<1>7. /\ Pending' = c.heap \cup rest \cup c.deferred
      /\ heap' \cap instant' = {} /\ heap' \cap deferred' = {} /\ instant' \cap deferred' = {}
  <2>1. CASE heap' = c.heap /\ instant' = rest /\ deferred' = c.deferred
    BY <1>6, <2>1 DEF Pending, Keeps, Apart
  <2>2. CASE Release(d, [c EXCEPT !.instant = rest])
    <3>1. All([c EXCEPT !.instant = rest]) = c.heap \cup rest \cup c.deferred
      BY DEF All, Keeps
    <3> HIDE DEF rest
    <3> QED BY <2>2, <3>1, ReleaseKeeps
  <2> QED BY <1>5, <2>1, <2>2
<1>8. UNCHANGED cancelled /\ pc' = IF e.owner \in Tasks THEN [pc EXCEPT ![e.owner] = "ready"] ELSE pc
  BY DEF Wake
<1>9. e \notin c.heap /\ e \notin c.deferred
  BY DEF Keeps, Apart
<1>10. Live' = Live \ {e}
  BY <1>3, <1>4, <1>6, <1>7, <1>8, <1>9 DEF Live, Keeps, All
<1>11. Pending' \subseteq Pending
  BY <1>6, <1>7 DEF Keeps, All
<1>12. \A t \in Tasks : pc'[t] = "parked" <=> pc[t] = "parked" /\ \A w \in {e} : w.owner # t
  BY <1>8 DEF ParkInv, TypeOK
<1>13. ParkedIffPending'
  <2>1. {e} \in SUBSET Live
    BY <1>1
  <2> HIDE DEF rest
  <2> QED BY <1>7, <1>10, <1>11, <1>12, <2>1, FewerPending
<1>14. FreshSeq'
  <2>1. \A w \in Pending' : w.seq < seq'
    BY <1>2, <1>11 DEF ParkInv, FreshSeq, TypeOK
  <2>2. \A n \in cancelled' : n < seq'
    BY <1>8 DEF ParkInv, FreshSeq, TypeOK
  <2> QED BY <2>1, <2>2 DEF FreshSeq
<1> QED BY <1>1, <1>10, <1>11, <1>13, <1>14

\* What t does next never leaves it parked.
LEMMA ContinueKeeps ==
    ASSUME TypeOK, NEW t \in Tasks, Continue(t)
    PROVE  pc'[t] # "parked" /\ \A u \in Tasks \ {t} : pc'[u] = pc[u]
<1>1. PICK at \in {"sleep", "wait_until", "done", "busy"} : pc' = [pc EXCEPT ![t] = at]
  BY DEF Continue
<1> QED BY <1>1 DEF TypeOK

\* The step lemma of ParkedIffPending, by action.
LEMMA ParkStep ==
    ASSUME ParkInv, TypeOK', [Next]_vars
    PROVE  ParkedIffPending' /\ FreshSeq'
<1> USE DEF ParkInv
<1>0. seq \in Nat /\ Live \subseteq Pending /\ Pending \subseteq Entries
  BY DEF TypeOK, Live, Pending
<1>1. ASSUME UNCHANGED <<heap, instant, deferred, cancelled, seq>>,
             \A t \in Tasks : pc'[t] = "parked" <=> pc[t] = "parked"
      PROVE  ParkedIffPending' /\ FreshSeq'
  <2>1. Live' = Live /\ Pending' = Pending
    BY <1>1 DEF Live, Pending
  <2>2. FreshSeq'
    BY <1>1, <2>1 DEF FreshSeq
  <2>3. heap' \cap instant' = {} /\ heap' \cap deferred' = {} /\ instant' \cap deferred' = {}
    BY <1>1 DEF ParkedIffPending
  <2>4. ParkedIffPending'
    BY <1>1, <2>1, <2>3, FewerPending
  <2> QED BY <2>2, <2>4
<1>2. CASE UNCHANGED vars
  BY <1>1, <1>2 DEF vars, clock
<1>3. ASSUME NEW d \in Drivers, Begin(d) \/ Checkpoint(d) \/ HookIdle(d) \/ HookBusy(d)
      PROVE  ParkedIffPending' /\ FreshSeq'
  BY <1>1, <1>3 DEF Begin, Checkpoint, HookIdle, HookBusy, clock
<1>4. ASSUME NEW c, Keeps(c), Pending' \subseteq Pending, All(c) \subseteq Pending',
             heap' \cap instant' = {} /\ heap' \cap deferred' = {} /\ instant' \cap deferred' = {},
             UNCHANGED <<cancelled, seq, pc>>
      PROVE  ParkedIffPending' /\ FreshSeq'
  <2>1. Live' = Live
    BY <1>4 DEF Live, Keeps
  <2>2. FreshSeq'
    BY <1>4 DEF FreshSeq
  <2>3. ParkedIffPending'
    BY <1>4, <2>1, FewerPending
  <2> QED BY <2>2, <2>3
<1>5. ASSUME NEW d \in Drivers, Abort(d) PROVE ParkedIffPending' /\ FreshSeq'
  <2>1. Keeps(Containers) /\ All(Containers) = Pending
    BY DEF ParkedIffPending, Keeps, Apart, All, Containers, Pending, Live
  <2>2. Release(d, Containers) /\ UNCHANGED <<cancelled, seq, pc>>
    BY <1>5 DEF Abort
  <2>3. /\ Pending' = All(Containers)
        /\ heap' \cap instant' = {} /\ heap' \cap deferred' = {} /\ instant' \cap deferred' = {}
    BY <2>2, ReleaseKeeps
  <2> QED BY <1>4, <2>1, <2>2, <2>3
<1>6. ASSUME NEW d \in Drivers, ServeCurrent(d) PROVE ParkedIffPending' /\ FreshSeq'
  <2>1. PICK e \in Current(drv[d].goal).instant,
             end \in {instantEnd} \cup {w.deadline : w \in Current(drv[d].goal).instant \ instant} :
          NextInInstant(e, Current(drv[d].goal).instant) /\ Wake(d, Current(drv[d].goal), e, end)
    BY <1>6 DEF ServeCurrent
  <2>2. Keeps(Current(drv[d].goal))
    BY CurrentKeeps
  <2>3. seq' >= seq /\ seq' \in Nat
    BY <1>0, <1>6 DEF ServeCurrent
  <2> QED BY <2>1, <2>2, <2>3, WakeKeeps
<1>7. ASSUME NEW c, Keeps(c), Exhausted(c), NEW M, M \subseteq c.heap, NEW n, NEW g
      PROVE  Keeps(Gather([c EXCEPT !.instant = {}], M, n, g))
  <2> DEFINE b == [c EXCEPT !.instant = {}]
  <2>1. All(b) = c.heap \cup c.deferred /\ b.heap = c.heap
    BY DEF All, Exhausted
  <2>2. Keeps(b)
    BY <1>7, <2>1 DEF Keeps, Apart, All, Exhausted, Live
  <2> HIDE DEF b
  <2>3. Keeps(Gather(b, M, n, g))
    BY <1>7, <2>1, <2>2, GatherKeeps
  <2> QED BY <2>3 DEF b
<1>8. ASSUME NEW d \in Drivers, ServeNext(d) PROVE ParkedIffPending' /\ FreshSeq'
  <2> DEFINE g == drv[d].goal
             c == Current(g)
             F(first) == Gather([c EXCEPT !.instant = {}], Members(c.heap, first.deadline, g), seq, g)
  <2>1. PICK first \in c.heap : \E e \in F(first).instant, end \in {w.deadline : w \in F(first).instant} :
          NextInInstant(e, F(first).instant) /\ Wake(d, F(first), e, end)
    BY <1>8 DEF ServeNext
  <2>2. Exhausted(c) /\ seq' = seq + 1
    BY <1>8 DEF ServeNext
  <2>3. Keeps(c)
    BY CurrentKeeps
  <2>4. Members(c.heap, first.deadline, g) \subseteq c.heap
    BY DEF Members
  <2> HIDE DEF c, g
  <2>5. Keeps(F(first))
    BY <1>7, <2>2, <2>3, <2>4
  <2> HIDE DEF F
  <2> QED BY <1>0, <2>1, <2>2, <2>5, WakeKeeps
<1>9. ASSUME NEW d \in Drivers, NoneDue(d) PROVE ParkedIffPending' /\ FreshSeq'
  <2> DEFINE g == drv[d].goal
             s == Gather([Current(g) EXCEPT !.instant = {}], {}, 0, g)
  <2>1. /\ Exhausted(Current(g)) /\ UNCHANGED <<cancelled, seq, pc>>
        /\ \/ Release(d, s)
           \/ heap' = s.heap /\ instant' = {} /\ deferred' = s.deferred
    BY <1>9 DEF NoneDue
  <2>2. Keeps(Current(g))
    BY CurrentKeeps
  <2>3. Keeps(s)
    BY <1>7, <2>1, <2>2
  <2>4. s.instant = {}
    BY DEF Gather, Join, Popped, Skips
  <2> HIDE DEF s
  <2>5. Pending' = All(s) /\ heap' \cap instant' = {} /\ heap' \cap deferred' = {} /\ instant' \cap deferred' = {}
    <3>1. CASE Release(d, s)
      BY <3>1, ReleaseKeeps
    <3>2. CASE heap' = s.heap /\ instant' = {} /\ deferred' = s.deferred
      BY <2>3, <2>4, <3>2 DEF Pending, All, Keeps, Apart
    <3> QED BY <2>1, <3>1, <3>2
  <2> QED BY <1>4, <2>1, <2>3, <2>5 DEF Keeps
<1>10. ASSUME NEW t \in Tasks, Run(t) \/ WaitPast(t) \/ CancelEarly(t) \/ SleepStep(t) \/ Resume(t)
       PROVE  ParkedIffPending' /\ FreshSeq'
  <2>1. pc[t] # "parked" /\ UNCHANGED <<heap, instant, deferred, cancelled, seq>>
    BY <1>10 DEF Run, WaitPast, CancelEarly, SleepStep, Resume, clock
  <2>2. pc'[t] # "parked" /\ \A u \in Tasks \ {t} : pc'[u] = pc[u]
    BY <1>10, ContinueKeeps DEF Run, WaitPast, CancelEarly, SleepStep, Resume, TypeOK
  <2> QED BY <1>1, <2>1, <2>2
<1>11. ASSUME NEW t \in Tasks, Park(t) PROVE ParkedIffPending' /\ FreshSeq'
  <2> DEFINE x == Entry(arg[t].time, arg[t].priority, t)
  <2>1. x \in Entries /\ x.seq = seq /\ x.owner = t
    BY DEF Entry, Entries, TypeOK, Args
  <2>2. /\ heap' = heap \cup {x} /\ UNCHANGED <<instant, deferred, cancelled>> /\ seq' = seq + 1
        /\ pc[t] = "wait_until" /\ pc' = [pc EXCEPT ![t] = "parked"]
    BY <1>11 DEF Park
  <2> HIDE DEF x
  <2>3. x \notin Pending
    BY <1>0, <2>1 DEF FreshSeq, Entries
  <2>4. Pending' = Pending \cup {x}
    BY <2>2 DEF Pending
  <2>5. heap' \cap instant' = {} /\ heap' \cap deferred' = {} /\ instant' \cap deferred' = {}
    BY <2>2, <2>3 DEF Pending, ParkedIffPending
  <2>6. \A u \in Tasks : pc'[u] = "parked" <=> pc[u] = "parked" \/ x.owner = u
    BY <2>1, <2>2 DEF TypeOK
  <2> QED BY <2>1, <2>2, <2>4, <2>5, <2>6, OneMorePending
<1>12. ASSUME NEW t \in Tasks, CancelSleep(t) PROVE ParkedIffPending' /\ FreshSeq'
  <2> DEFINE G == {v \in Live : v.owner = t}
             drop == Popped(heap, {w \in heap : w.seq \in cancelled'})
  <2>1. /\ cancelled' = cancelled \cup {w.seq : w \in G} /\ heap' = heap \ drop
        /\ UNCHANGED <<instant, deferred, seq>> /\ Continue(t)
    BY <1>12 DEF CancelSleep
  <2>2. drop \subseteq heap /\ \A w \in drop : w.seq \in cancelled'
    BY DEF Popped
  <2>3. G \in SUBSET Live
    OBVIOUS
  <2> HIDE DEF drop
  <2>4. Pending' \subseteq Pending
    BY <2>1 DEF Pending
  <2>5. Live' = Live \ G
    BY <2>1, <2>2, <2>4 DEF Live, Pending, ParkedIffPending
  <2>6. pc'[t] # "parked" /\ \A u \in Tasks \ {t} : pc'[u] = pc[u]
    BY <2>1, ContinueKeeps
  <2>7. \A u \in Tasks : pc'[u] = "parked" <=> pc[u] = "parked" /\ \A w \in G : w.owner # u
    BY <2>6 DEF ParkedIffPending
  <2>8. heap' \cap instant' = {} /\ heap' \cap deferred' = {} /\ instant' \cap deferred' = {}
    BY <2>1 DEF ParkedIffPending
  <2>9. FreshSeq'
    BY <1>0, <2>1, <2>4 DEF FreshSeq
  <2>10. ParkedIffPending'
    <3> HIDE DEF G
    <3> QED BY <2>3, <2>4, <2>5, <2>7, <2>8, FewerPending
  <2> QED BY <2>9, <2>10
<1>13. CASE CallAt
  <2>1. PICK x \in Deadlines, p \in Priorities :
          IF anchor # NoTime /\ x <= now
          THEN instant' = instant \cup {Entry(x, p, Host)} /\ UNCHANGED heap
          ELSE heap' = heap \cup {Entry(x, p, Host)} /\ UNCHANGED instant
    BY <1>13 DEF CallAt
  <2> DEFINE n == Entry(x, p, Host)
  <2>2. n \in Entries /\ n.seq = seq /\ n.owner = Host
    BY TimesAssumption DEF Entry, Entries, TypeOK
  <2> HIDE DEF n
  <2>3. n \notin Pending
    BY <1>0, <2>2 DEF FreshSeq, Entries
  <2>4. Pending' = Pending \cup {n}
    BY <1>13, <2>1 DEF Pending, CallAt, n
  <2>5. heap' \cap instant' = {} /\ heap' \cap deferred' = {} /\ instant' \cap deferred' = {}
    BY <1>13, <2>1, <2>3 DEF Pending, ParkedIffPending, CallAt, n
  <2>6. UNCHANGED <<cancelled, pc>> /\ seq' = seq + 1
    BY <1>13 DEF CallAt
  <2> QED BY <2>2, <2>4, <2>5, <2>6, ActorsAssumption, OneMorePending
<1>14. CASE CancelCall
  <2>1. PICK e \in Live : e.owner = Host /\ cancelled' = cancelled \cup {e.seq}
    BY <1>14 DEF CancelCall
  <2>2. UNCHANGED <<heap, instant, deferred, seq, pc>>
    BY <1>14 DEF CancelCall, clock
  <2>3. Pending' = Pending
    BY <2>2 DEF Pending
  <2>4. Live' = Live \ {e}
    BY <2>1, <2>3 DEF Live, ParkedIffPending
  <2>5. \A t \in Tasks : pc'[t] = "parked" <=> pc[t] = "parked" /\ \A w \in {e} : w.owner # t
    BY <2>1, <2>2, ActorsAssumption
  <2>6. FreshSeq'
    BY <1>0, <2>1, <2>2, <2>3 DEF FreshSeq
  <2>7. heap' \cap instant' = {} /\ heap' \cap deferred' = {} /\ instant' \cap deferred' = {}
    BY <2>2 DEF ParkedIffPending
  <2>8. {e} \in SUBSET Live /\ Pending' \subseteq Pending
    BY <2>3
  <2> QED BY <2>4, <2>5, <2>6, <2>7, <2>8, FewerPending
<1> QED BY <1>2, <1>3, <1>5, <1>6, <1>8, <1>9, <1>10, <1>11, <1>12, <1>13, <1>14 DEF Next, Drive, Step

\* No sleeper is ever lost or woken twice, whatever is cancelled, raised or
\* retried: parked tasks and live entries correspond one to one.
THEOREM NoSleeperLost == Spec => []ParkedIffPending
<1>1. Init => ParkInv
  <2> SUFFICES ASSUME Init PROVE ParkedIffPending /\ FreshSeq
    BY InitType DEF ParkInv
  <2> QED BY DEF Init, ParkedIffPending, FreshSeq, Pending, Live
<1>2. ParkInv /\ TypeOK' /\ [Next]_vars => ParkInv'
  BY ParkStep DEF ParkInv
<1>3. ParkInv => ParkedIffPending
  BY DEF ParkInv
<1> QED BY <1>1, <1>2, <1>3, TypeCorrect, PTL DEF Spec

-----------------------------------------------------------------------------
(* A sleep takes time, and an advance leaves nobody behind.                  *)

\* A sleeper was registered before its deadline.
Stamped == \A w \in Pending : w.registeredAt <= now /\ (w.owner \in Tasks => w.registeredAt < w.deadline)
Active(d) == drv[d].phase # "idle"

\* The sleepers of an instant lie before its end; one beyond the goal was not
\* registered at the goal.
InstantOK ==
    \A w \in instant : w.owner \in Tasks =>
        /\ w.deadline <= instantEnd
        /\ \A d \in Drivers : Active(d) => w.deadline <= drv[d].goal.t \/ w.registeredAt < drv[d].goal.t

\* What is set aside lies beyond the goal and was registered there.
AsideOK == \A w \in deferred, d \in Drivers : Active(d) => SetAside(w, drv[d].goal)

SleepInv == ParkInv /\ DriveInv /\ Stamped /\ InstantOK /\ AsideOK

\* What comes into the instant is due and not set aside; what is set aside is so
\* for the goal at hand (_pop_due, _heap_due).
LEMMA GatherTakes ==
    ASSUME NEW c, NEW M, NEW n, NEW g, \A w \in M : Due(w, g)
    PROVE  /\ \A w \in Gather(c, M, n, g).instant : w \in c.instant \/ (w \in M /\ Due(w, g) /\ ~SetAside(w, g))
           /\ \A w \in Gather(c, M, n, g).deferred : w \in c.deferred \/ SetAside(w, g)
           /\ Gather(c, M, n, g).heap \subseteq c.heap
<1> DEFINE popped == Popped(c.heap, {w \in c.heap : Skips(w, g)} \cup M)
           joins == Join(popped, n, g)
           aside == {w \in popped : w.seq \notin cancelled /\ SetAside(w, g)}
           dead == {w \in popped : w.seq \in cancelled}
<1>1. /\ Gather(c, M, n, g).instant = c.instant \cup joins
      /\ Gather(c, M, n, g).deferred = c.deferred \cup aside
      /\ Gather(c, M, n, g).heap = c.heap \ (joins \cup aside \cup dead)
  BY DEF Gather
<1>2. \A w \in joins : w \in popped /\ ~Skips(w, g)
  BY DEF Join
<1>3. \A w \in popped : Skips(w, g) \/ w \in M
  BY DEF Popped
<1>4. \A w \in joins : w \in M /\ ~SetAside(w, g)
  BY <1>2, <1>3 DEF Skips
<1> QED BY <1>1, <1>4

LEMMA CurrentTakes ==
    ASSUME NEW g
    PROVE  /\ \A w \in Current(g).instant : w \in instant \/ (Due(w, g) /\ ~SetAside(w, g))
           /\ \A w \in Current(g).deferred : w \in deferred \/ SetAside(w, g)
           /\ Current(g).heap \subseteq heap
<1>1. \A w \in Members(heap, anchor, g) : Due(w, g)
  BY DEF Members
<1>2. Containers.heap = heap /\ Containers.instant = instant /\ Containers.deferred = deferred
  BY DEF Containers
<1>3. CASE anchor = NoTime
  BY <1>2, <1>3 DEF Current
<1>4. CASE anchor # NoTime
  <2>1. Current(g) = Gather(Containers, Members(heap, anchor, g), instantSeq, g)
    BY <1>4 DEF Current
  <2> QED BY <1>1, <1>2, <2>1, GatherTakes
<1> QED BY <1>3, <1>4

\* An exhausted instant is dropped before the next one is gathered.
LEMMA DropKeeps ==
    ASSUME ParkInv, NEW c, Keeps(c), Exhausted(c), NEW M, M \subseteq c.heap, NEW n, NEW g
    PROVE  Keeps(Gather([c EXCEPT !.instant = {}], M, n, g))
<1> DEFINE b == [c EXCEPT !.instant = {}]
<1>1. All(b) = c.heap \cup c.deferred /\ b.heap = c.heap
  BY DEF All, Exhausted
<1>2. Keeps(b)
  BY <1>1 DEF Keeps, Apart, All, Exhausted, Live
<1> HIDE DEF b
<1>3. Keeps(Gather(b, M, n, g))
  BY <1>1, <1>2, GatherKeeps
<1> QED BY <1>3 DEF b

LEMMA DropTakes ==
    ASSUME NEW c \in Shape, NEW M, NEW n, NEW g, \A w \in M : Due(w, g)
    PROVE  /\ \A w \in Gather([c EXCEPT !.instant = {}], M, n, g).instant : Due(w, g) /\ ~SetAside(w, g)
           /\ \A w \in Gather([c EXCEPT !.instant = {}], M, n, g).deferred : w \in c.deferred \/ SetAside(w, g)
           /\ Gather([c EXCEPT !.instant = {}], M, n, g).heap \subseteq c.heap
<1> DEFINE b == [c EXCEPT !.instant = {}]
<1>1. b.instant = {} /\ b.deferred = c.deferred /\ b.heap = c.heap
  BY DEF Shape
<1> HIDE DEF b
<1>2. /\ \A w \in Gather(b, M, n, g).instant : w \in b.instant \/ (w \in M /\ Due(w, g) /\ ~SetAside(w, g))
      /\ \A w \in Gather(b, M, n, g).deferred : w \in b.deferred \/ SetAside(w, g)
      /\ Gather(b, M, n, g).heap \subseteq b.heap
  BY GatherTakes
<1>3. /\ \A w \in Gather(b, M, n, g).instant : Due(w, g) /\ ~SetAside(w, g)
      /\ \A w \in Gather(b, M, n, g).deferred : w \in c.deferred \/ SetAside(w, g)
      /\ Gather(b, M, n, g).heap \subseteq c.heap
  BY <1>1, <1>2
<1> QED BY <1>3 DEF b

\* A driver wakes e, the top of the instant of f, which ends at end.
Wakes(d, f, e, end) ==
    /\ Keeps(f) /\ e \in f.instant /\ end \in Int /\ NextInInstant(e, f.instant) /\ Wake(d, f, e, end)
    /\ \A w \in f.instant : \/ w \in instant /\ instantEnd <= end
                            \/ Due(w, drv[d].goal) /\ ~SetAside(w, drv[d].goal) /\ w.deadline <= end
    /\ \A w \in f.deferred : w \in deferred \/ SetAside(w, drv[d].goal)

LEMMA ServeWakes ==
    ASSUME ParkInv, NEW d \in Drivers, ServeCurrent(d) \/ ServeNext(d)
    PROVE  /\ \E f, e, end : Wakes(d, f, e, end)
           /\ drv[d].phase = "serve" /\ seq' >= seq /\ seq' \in Nat
<1> DEFINE g == drv[d].goal
           c == Current(g)
<1>0. seq \in Nat /\ TypeOK
  BY DEF ParkInv, TypeOK
<1>1. c \in Shape /\ Keeps(c)
  BY <1>0, CurrentType, CurrentKeeps
<1>2. /\ \A w \in c.instant : w \in instant \/ (Due(w, g) /\ ~SetAside(w, g))
      /\ \A w \in c.deferred : w \in deferred \/ SetAside(w, g)
  BY CurrentTakes
<1>3. CASE ServeCurrent(d)
  <2>1. PICK e \in c.instant, end \in {instantEnd} \cup {w.deadline : w \in c.instant \ instant} :
          /\ NextInInstant(e, c.instant)
          /\ Latest(end, {instantEnd} \cup {w.deadline : w \in c.instant \ instant})
          /\ Wake(d, c, e, end)
    BY <1>3 DEF ServeCurrent
  <2> HIDE DEF c
  <2>2. end \in Int /\ instantEnd <= end /\ \A w \in c.instant \ instant : w.deadline <= end
    BY <1>0, <1>1, <2>1 DEF Latest, Shape, Entries, TypeOK
  <2>3. Wakes(d, c, e, end)
    BY <1>1, <1>2, <2>1, <2>2 DEF Wakes
  <2>4. seq' = seq /\ drv[d].phase = "serve"
    BY <1>3 DEF ServeCurrent
  <2> QED BY <1>0, <2>3, <2>4
<1>4. CASE ServeNext(d)
  <2> DEFINE F(first) == Gather([c EXCEPT !.instant = {}], Members(c.heap, first.deadline, g), seq, g)
  <2>1. PICK first \in c.heap : \E e \in F(first).instant, end \in {w.deadline : w \in F(first).instant} :
          /\ NextInInstant(e, F(first).instant)
          /\ Latest(end, {w.deadline : w \in F(first).instant})
          /\ Wake(d, F(first), e, end)
    BY <1>4 DEF ServeNext
  <2>2. Exhausted(c) /\ seq' = seq + 1 /\ drv[d].phase = "serve"
    BY <1>4 DEF ServeNext
  <2>3. Members(c.heap, first.deadline, g) \subseteq c.heap /\ \A w \in Members(c.heap, first.deadline, g) : Due(w, g)
    BY DEF Members
  <2>4. [c EXCEPT !.instant = {}] \in Shape
    BY <1>1 DEF Shape
  <2> HIDE DEF c, g
  <2>5. Keeps(F(first)) /\ F(first) \in Shape
    BY <1>1, <2>2, <2>3, <2>4, DropKeeps, GatherType
  <2>6. /\ \A w \in F(first).instant : Due(w, g) /\ ~SetAside(w, g)
        /\ \A w \in F(first).deferred : w \in c.deferred \/ SetAside(w, g)
    BY <1>1, <2>3, DropTakes
  <2> DEFINE f == F(first)
  <2> HIDE DEF F
  <2>7. PICK e \in f.instant, end \in {w.deadline : w \in f.instant} :
          /\ NextInInstant(e, f.instant)
          /\ Latest(end, {w.deadline : w \in f.instant})
          /\ Wake(d, f, e, end)
    BY <2>1
  <2> HIDE DEF f
  <2>8. end \in Int /\ \A w \in f.instant : w.deadline <= end
    BY <2>5, <2>7 DEF Latest, Shape, Entries, f
  <2>9. Wakes(d, f, e, end)
    BY <1>2, <2>5, <2>6, <2>7, <2>8 DEF Wakes, f, g
  <2> QED BY <1>0, <2>2, <2>9
<1> QED BY <1>3, <1>4

\* A wake takes out that one entry and no other.
LEMMA WakesFire ==
    ASSUME ParkInv, NEW d \in Drivers, NEW f, NEW e, NEW end, Wakes(d, f, e, end), seq' >= seq, seq' \in Nat
    PROVE  /\ Fired = {e} /\ Pending' \subseteq Pending /\ e \in Pending
           /\ instant' \subseteq f.instant /\ deferred' \subseteq f.deferred
           /\ instantEnd' = end /\ UNCHANGED cancelled
<1>1. e \in Live /\ Live' = Live \ {e} /\ Pending' \subseteq Pending /\ Wake(d, f, e, end)
  BY WakeKeeps DEF Wakes
<1>2. UNCHANGED cancelled /\ instantEnd' = end
  BY <1>1 DEF Wake
<1>3. Fired = {w \in Live : w \notin Pending'}
  BY <1>2 DEF Fired, Live, Pending
<1>4. Fired = {e}
  BY <1>1, <1>2, <1>3 DEF Live
<1>5. instant' \subseteq f.instant /\ deferred' \subseteq f.deferred
  BY <1>1 DEF Wake, Release
<1>6. e \in Pending
  BY <1>1 DEF Live
<1> QED BY <1>1, <1>2, <1>4, <1>5, <1>6

\* Only Begin sets a goal.
LEMMA GoalsStay ==
    ASSUME TypeOK, Next, ~\E d \in Drivers : Begin(d), NEW x \in Drivers, Active(x)'
    PROVE  Active(x) /\ drv'[x].goal = drv[x].goal
<1>1. ASSUME NEW d \in Drivers, NEW r, drv[d].phase # "idle", r.goal = drv[d].goal, drv' = [drv EXCEPT ![d] = r]
      PROVE  Active(x) /\ drv'[x].goal = drv[x].goal
  BY <1>1 DEF TypeOK, Active
<1>2. ASSUME NEW d \in Drivers, NEW c, Release(d, c) PROVE Active(x) /\ drv'[x].goal = drv[x].goal
  BY <1>2 DEF TypeOK, Active, Release, Idle
<1>3. ASSUME NEW d \in Drivers, Checkpoint(d) PROVE Active(x) /\ drv'[x].goal = drv[x].goal
  <2> DEFINE r == IF drv[d].left > 1 THEN [drv[d] EXCEPT !.left = drv[d].left - 1, !.owed = Runnable(pc)]
                  ELSE [drv[d] EXCEPT !.left = 0, !.phase = IF drv[d].goal.hook THEN "hook" ELSE "serve"]
  <2>1. r.goal = drv[d].goal /\ drv[d].phase # "idle"
    BY <1>3 DEF Checkpoint, TypeOK, Advances
  <2>2. drv' = [drv EXCEPT ![d] = r]
    BY <1>3 DEF Checkpoint
  <2> HIDE DEF r
  <2> QED BY <1>1, <2>1, <2>2
<1>4. ASSUME NEW d \in Drivers, HookIdle(d) PROVE Active(x) /\ drv'[x].goal = drv[x].goal
  <2> DEFINE r == [drv[d] EXCEPT !.phase = "serve"]
  <2>1. r.goal = drv[d].goal /\ drv[d].phase # "idle"
    BY <1>4 DEF HookIdle, TypeOK, Advances
  <2>2. drv' = [drv EXCEPT ![d] = r]
    BY <1>4 DEF HookIdle, TypeOK
  <2> HIDE DEF r
  <2> QED BY <1>1, <2>1, <2>2
<1>5. ASSUME NEW d \in Drivers, NEW final, NEW n, NEW at, drv[d].phase # "idle",
             drv' = [drv EXCEPT ![d] = Settling(drv[d].goal, final, n, at)]
      PROVE  Active(x) /\ drv'[x].goal = drv[x].goal
  <2>1. Settling(drv[d].goal, final, n, at).goal = drv[d].goal
    BY DEF Settling
  <2> QED BY <1>1, <1>5, <2>1
<1>6. ASSUME NEW d \in Drivers, HookBusy(d) PROVE Active(x) /\ drv'[x].goal = drv[x].goal
  BY <1>5, <1>6 DEF HookBusy
<1>7. ASSUME NEW d \in Drivers, Abort(d) PROVE Active(x) /\ drv'[x].goal = drv[x].goal
  BY <1>2, <1>7 DEF Abort
<1>8. ASSUME NEW d \in Drivers, drv[d].phase # "idle", NEW c, NEW e, NEW end, Wake(d, c, e, end)
      PROVE  Active(x) /\ drv'[x].goal = drv[x].goal
  <2>1. CASE drv' = [drv EXCEPT ![d] = Settling(drv[d].goal, FALSE, 0, pc')]
    <3>1. PICK at : at = pc'
      OBVIOUS
    <3> QED BY <1>5, <1>8, <2>1, <3>1
  <2>2. CASE Release(d, [c EXCEPT !.instant = {w \in c.instant : Sooner(e, w)}])
    BY <1>2, <2>2
  <2> QED BY <1>8, <2>1, <2>2 DEF Wake
<1>9. ASSUME NEW d \in Drivers, ServeCurrent(d) \/ ServeNext(d) PROVE Active(x) /\ drv'[x].goal = drv[x].goal
  <2>1. drv[d].phase # "idle" /\ \E c, e, end : Wake(d, c, e, end)
    BY <1>9 DEF ServeCurrent, ServeNext
  <2> QED BY <1>8, <2>1
<1>10. ASSUME NEW d \in Drivers, NoneDue(d) PROVE Active(x) /\ drv'[x].goal = drv[x].goal
  <2>1. /\ drv[d].phase # "idle"
        /\ \/ \E c : Release(d, c)
           \/ drv' = [drv EXCEPT ![d] = Settling(drv[d].goal, TRUE, 0, pc)]
    BY <1>10 DEF NoneDue
  <2> QED BY <1>2, <1>5, <2>1
<1>11. ASSUME NEW t, Ran(t) \/ UNCHANGED drv PROVE Active(x) /\ drv'[x].goal = drv[x].goal
  BY <1>11 DEF TypeOK, Ran, Advances, Active
<1>12. ASSUME NEW t \in Tasks, Step(t) \/ Resume(t) \/ CancelEarly(t) \/ CancelSleep(t)
       PROVE  Active(x) /\ drv'[x].goal = drv[x].goal
  <2>1. Ran(t) \/ UNCHANGED drv
    BY <1>12 DEF Step, Run, SleepStep, WaitPast, Park, Resume, CancelEarly, CancelSleep
  <2> QED BY <1>11, <2>1
<1>13. CASE CallAt \/ CancelCall
  BY <1>11, <1>13 DEF CallAt, CancelCall
<1> QED BY <1>3, <1>4, <1>6, <1>7, <1>9, <1>10, <1>12, <1>13 DEF Next, Drive

LEMMA PendingTypes ==
    ASSUME TypeOK, NEW w \in Pending
    PROVE  w.deadline \in Nat /\ w.registeredAt \in Nat /\ w.seq \in Nat /\ w.priority \in Int /\ now \in Nat /\ instantEnd \in Int
  BY DEF TypeOK, Pending, Entries

LEMMA GoalType == ASSUME TypeOK, NEW d \in Drivers PROVE drv[d].goal.t \in Nat
  BY GoalsAssumption DEF TypeOK, Advances, NoGoal

\* A step that registers nobody and begins nothing.
LEMMA NobodyNew ==
    ASSUME SleepInv, Next, TypeOK', ~\E d \in Drivers : Begin(d), now' >= now, Pending' \subseteq Pending
    PROVE  /\ Stamped'
           /\ instant' \subseteq instant /\ UNCHANGED instantEnd => InstantOK'
           /\ deferred' \subseteq deferred => AsideOK'
<1>0. TypeOK /\ now \in Nat /\ now' \in Nat
  BY DEF SleepInv, ParkInv, TypeOK
<1>1. Stamped'
  <2> SUFFICES ASSUME NEW w \in Pending' PROVE w.registeredAt <= now' /\ (w.owner \in Tasks => w.registeredAt < w.deadline)
    BY DEF Stamped
  <2>1. w.registeredAt \in Nat /\ w.registeredAt <= now /\ (w.owner \in Tasks => w.registeredAt < w.deadline)
    BY <1>0, PendingTypes DEF SleepInv, Stamped
  <2> QED BY <1>0, <2>1
<1>2. \A x \in Drivers : Active(x)' => Active(x) /\ drv'[x].goal = drv[x].goal
  BY <1>0, GoalsStay
<1>3. ASSUME instant' \subseteq instant, UNCHANGED instantEnd PROVE InstantOK'
  BY <1>2, <1>3 DEF SleepInv, InstantOK
<1>4. ASSUME deferred' \subseteq deferred PROVE AsideOK'
  BY <1>2, <1>4 DEF SleepInv, AsideOK
<1> QED BY <1>1, <1>3, <1>4

\* The step lemma of SleepTakesTime and NobodyLeftBehind, by action.
LEMMA SleepingStep ==
    ASSUME SleepInv, TypeOK', [Next]_vars
    PROVE  Stamped' /\ InstantOK' /\ AsideOK'
<1>0. TypeOK /\ now \in Nat /\ now' \in Nat /\ now' >= now
  BY DriveStep DEF SleepInv, ParkInv, TypeOK
<1>1. CASE UNCHANGED vars
  BY <1>1 DEF vars, clock, SleepInv, Stamped, InstantOK, AsideOK, Active, Pending
<1>2. ASSUME NEW d \in Drivers, Begin(d) PROVE Stamped' /\ InstantOK' /\ AsideOK'
  <2>1. UNCHANGED <<now, heap, instant, deferred>> /\ ~advancing
    BY <1>2 DEF Begin, clock, MayBegin
  <2>2. instant = {} /\ deferred = {}
    BY <2>1 DEF SleepInv, DriveInv, OneDriver
  <2> QED BY <2>1, <2>2 DEF SleepInv, Stamped, InstantOK, AsideOK, Pending
<1> SUFFICES ASSUME Next, ~\E d \in Drivers : Begin(d) PROVE Stamped' /\ InstantOK' /\ AsideOK'
  BY <1>1, <1>2
<1>3. \A x \in Drivers : Active(x)' => Active(x) /\ drv'[x].goal = drv[x].goal
  BY <1>0, GoalsStay
<1>4. ASSUME UNCHANGED instantEnd, heap' \subseteq Pending, instant' \subseteq instant, deferred' \subseteq deferred
      PROVE  Stamped' /\ InstantOK' /\ AsideOK'
  <2>1. Pending' \subseteq Pending
    BY <1>4 DEF Pending
  <2> QED BY <1>0, <1>4, <2>1, NobodyNew
<1>5. ASSUME NEW d \in Drivers, Checkpoint(d) \/ HookIdle(d) \/ HookBusy(d) PROVE Stamped' /\ InstantOK' /\ AsideOK'
  BY <1>4, <1>5 DEF Checkpoint, HookIdle, HookBusy, clock, Pending
<1>6. ASSUME NEW d \in Drivers, Abort(d) PROVE Stamped' /\ InstantOK' /\ AsideOK'
  <2>1. heap' = Pending /\ instant' = {} /\ deferred' = {} /\ UNCHANGED instantEnd
    BY <1>6 DEF Abort, Release, PutBack, Containers, Pending
  <2> QED BY <1>4, <2>1
<1>7. ASSUME NEW d \in Drivers, ServeCurrent(d) \/ ServeNext(d) PROVE Stamped' /\ InstantOK' /\ AsideOK'
  <2> DEFINE g == drv[d].goal
  <2>1. drv[d].phase = "serve" /\ seq' >= seq /\ seq' \in Nat /\ \E f, e, end : Wakes(d, f, e, end)
    BY <1>7, ServeWakes DEF SleepInv
  <2>2. PICK f, e, end : Wakes(d, f, e, end)
    BY <2>1
  <2>3. /\ Pending' \subseteq Pending /\ instant' \subseteq f.instant /\ deferred' \subseteq f.deferred /\ instantEnd' = end
    BY <2>1, <2>2, WakesFire DEF SleepInv
  <2>4. /\ \A w \in f.instant : \/ w \in instant /\ instantEnd <= end
                                \/ Due(w, g) /\ ~SetAside(w, g) /\ w.deadline <= end
        /\ \A w \in f.deferred : w \in deferred \/ SetAside(w, g)
        /\ end \in Int
    BY <2>2 DEF Wakes
  <2>5. \A x \in Drivers : Active(x)' => x = d /\ drv'[x].goal = g
    BY <1>3, <2>1 DEF SleepInv, DriveInv, OneDriver, Active
  <2>6. Active(d) /\ g.t \in Nat
    BY <1>0, <2>1, GoalType DEF Active
  <2>7. Stamped'
    BY <1>0, <2>3, NobodyNew
  <2> HIDE DEF g
  <2>8. InstantOK'
    <3> SUFFICES ASSUME NEW w \in instant', w.owner \in Tasks
                 PROVE  w.deadline <= end /\ (w.deadline <= g.t \/ w.registeredAt < g.t)
      BY <2>3, <2>5 DEF InstantOK
    <3>1. w \in Pending /\ w \in f.instant
      BY <2>3 DEF Pending
    <3>2. w.deadline \in Nat /\ w.registeredAt \in Nat /\ instantEnd \in Int
      BY <1>0, <3>1, PendingTypes
    <3>3. CASE w \in instant /\ instantEnd <= end
      <4>1. w.deadline <= instantEnd /\ (w.deadline <= g.t \/ w.registeredAt < g.t)
        BY <2>6, <3>3 DEF SleepInv, InstantOK, g
      <4> QED BY <2>4, <3>2, <3>3, <4>1
    <3>4. CASE Due(w, g) /\ ~SetAside(w, g) /\ w.deadline <= end
      BY <2>6, <3>2, <3>4 DEF SetAside
    <3> QED BY <2>4, <3>1, <3>3, <3>4
  <2>9. AsideOK'
    <3> SUFFICES ASSUME NEW w \in deferred' PROVE SetAside(w, g)
      BY <2>5 DEF AsideOK
    <3>1. w \in deferred \/ SetAside(w, g)
      BY <2>3, <2>4
    <3> QED BY <2>6, <3>1 DEF SleepInv, AsideOK, g
  <2> QED BY <2>7, <2>8, <2>9
<1>8. ASSUME NEW d \in Drivers, NoneDue(d) PROVE Stamped' /\ InstantOK' /\ AsideOK'
  <2> DEFINE g == drv[d].goal
             s == Gather([Current(g) EXCEPT !.instant = {}], {}, 0, g)
  <2>1. /\ drv[d].phase = "serve" /\ Exhausted(Current(g)) /\ UNCHANGED instantEnd
        /\ \/ Release(d, s)
           \/ heap' = s.heap /\ instant' = {} /\ deferred' = s.deferred
    BY <1>8 DEF NoneDue
  <2>2. Keeps(s)
    BY <2>1, CurrentKeeps, DropKeeps DEF SleepInv
  <2>3. \A w \in s.deferred : w \in deferred \/ SetAside(w, g)
    <3>1. Current(g) \in Shape
      BY <1>0, CurrentType
    <3>2. \A w \in s.deferred : w \in Current(g).deferred \/ SetAside(w, g)
      BY <3>1, DropTakes
    <3> QED BY <3>2, CurrentTakes
  <2> HIDE DEF s
  <2>4. Pending' \subseteq All(s) /\ deferred' \subseteq s.deferred /\ instant' = {}
    BY <2>1 DEF Release, PutBack, Pending, All
  <2>5. Pending' \subseteq Pending
    BY <2>2, <2>4 DEF Keeps
  <2>6. Stamped' /\ InstantOK'
    BY <1>0, <2>1, <2>4, <2>5, NobodyNew
  <2>7. \A x \in Drivers : Active(x)' => x = d /\ drv'[x].goal = g
    BY <1>3, <2>1 DEF SleepInv, DriveInv, OneDriver, Active
  <2>8. AsideOK'
    <3> SUFFICES ASSUME NEW w \in deferred' PROVE SetAside(w, g)
      BY <2>7 DEF AsideOK
    <3>1. w \in deferred \/ SetAside(w, g)
      BY <2>3, <2>4
    <3>2. Active(d)
      BY <2>1 DEF Active
    <3> QED BY <3>1, <3>2 DEF SleepInv, AsideOK
  <2> QED BY <2>6, <2>8
<1>9. ASSUME NEW t \in Tasks, Run(t) \/ WaitPast(t) \/ CancelEarly(t) \/ SleepStep(t) \/ Resume(t) \/ CancelSleep(t)
      PROVE  Stamped' /\ InstantOK' /\ AsideOK'
  <2>1. heap' \subseteq heap /\ UNCHANGED <<instant, deferred, instantEnd>>
    BY <1>9 DEF Run, WaitPast, CancelEarly, SleepStep, Resume, CancelSleep, clock
  <2> QED BY <1>4, <2>1 DEF Pending
<1>10. ASSUME NEW t \in Tasks, Park(t) PROVE Stamped' /\ InstantOK' /\ AsideOK'
  <2> DEFINE x == Entry(arg[t].time, arg[t].priority, t)
  <2>1. heap' = heap \cup {x} /\ UNCHANGED <<now, instant, deferred, instantEnd>> /\ arg[t].time > now /\ arg[t].time \in Nat
    BY <1>0, <1>10 DEF Park, TypeOK, Args
  <2>2. x.registeredAt = now /\ x.deadline = arg[t].time
    BY DEF Entry
  <2> HIDE DEF x
  <2>3. Pending' = Pending \cup {x}
    BY <2>1 DEF Pending
  <2>4. Stamped'
    BY <1>0, <2>1, <2>2, <2>3 DEF SleepInv, Stamped
  <2> QED BY <1>3, <2>1, <2>4 DEF SleepInv, InstantOK, AsideOK
<1>11. CASE CallAt
  <2>1. PICK x \in Deadlines, p \in Priorities :
          IF anchor # NoTime /\ x <= now
          THEN instant' = instant \cup {Entry(x, p, Host)} /\ UNCHANGED heap
          ELSE heap' = heap \cup {Entry(x, p, Host)} /\ UNCHANGED instant
    BY <1>11 DEF CallAt
  <2> DEFINE n == Entry(x, p, Host)
  <2>2. n.registeredAt = now /\ n.owner \notin Tasks
    BY ActorsAssumption DEF Entry
  <2>3. UNCHANGED <<now, deferred, instantEnd>>
    BY <1>11 DEF CallAt
  <2>4. Pending' = Pending \cup {n} /\ instant' \subseteq instant \cup {n}
    BY <2>1, <2>3 DEF Pending
  <2> HIDE DEF n
  <2>5. Stamped'
    BY <1>0, <2>2, <2>3, <2>4 DEF SleepInv, Stamped
  <2>6. InstantOK'
    BY <1>3, <2>2, <2>3, <2>4 DEF SleepInv, InstantOK
  <2> QED BY <1>3, <2>3, <2>5, <2>6 DEF SleepInv, AsideOK
<1>12. CASE CancelCall
  BY <1>4, <1>12 DEF CancelCall, clock, Pending
<1> QED BY <1>5, <1>6, <1>7, <1>8, <1>9, <1>10, <1>11, <1>12 DEF Next, Drive, Step

LEMMA SleepAlways == Spec => []SleepInv
<1>1. Init => SleepInv
  <2> SUFFICES ASSUME Init PROVE SleepInv
    OBVIOUS
  <2>1. TypeOK /\ OneDriver /\ GoalAhead /\ ParkedIffPending /\ FreshSeq
    BY InitType DEF Init, OneDriver, GoalAhead, Idle, ParkedIffPending, FreshSeq, Pending, Live
  <2>2. Stamped /\ InstantOK /\ AsideOK
    BY DEF Init, Stamped, InstantOK, AsideOK, Pending
  <2> QED BY <2>1, <2>2 DEF SleepInv, ParkInv, DriveInv
<1>2. SleepInv /\ TypeOK' /\ [Next]_vars => SleepInv'
  BY SleepingStep, ParkStep, DriveStep DEF SleepInv, ParkInv, DriveInv
<1> QED BY <1>1, <1>2, TypeCorrect, PTL DEF Spec

\* Only a wake takes a live entry out.
LEMMA OnlyWakesFire ==
    ASSUME ParkInv, [Next]_vars, Fired # {}
    PROVE  \E d \in Drivers : ServeCurrent(d) \/ ServeNext(d)
<1>0. Fired = {w \in Live : w \notin Pending' /\ w.seq \notin cancelled'}
  BY DEF Fired, Pending
<1>1. ASSUME Live \subseteq Pending' PROVE FALSE
  BY <1>0, <1>1
<1>2. ASSUME UNCHANGED <<heap, instant, deferred>> PROVE FALSE
  BY <1>1, <1>2 DEF Live, Pending
<1>3. CASE UNCHANGED vars
  BY <1>2, <1>3 DEF vars, clock
<1>4. ASSUME NEW d \in Drivers, Begin(d) \/ Checkpoint(d) \/ HookIdle(d) \/ HookBusy(d) PROVE FALSE
  BY <1>2, <1>4 DEF Begin, Checkpoint, HookIdle, HookBusy, clock
<1>5. ASSUME NEW d \in Drivers, Abort(d) PROVE FALSE
  <2>1. heap' = Pending
    BY <1>5 DEF Abort, Release, PutBack, Containers, Pending
  <2> QED BY <1>1, <2>1 DEF Live, Pending
<1>6. ASSUME NEW d \in Drivers, NoneDue(d) PROVE FALSE
  <2> DEFINE g == drv[d].goal
             s == Gather([Current(g) EXCEPT !.instant = {}], {}, 0, g)
  <2>1. /\ Exhausted(Current(g))
        /\ \/ Release(d, s)
           \/ heap' = s.heap /\ instant' = {} /\ deferred' = s.deferred
    BY <1>6 DEF NoneDue
  <2>2. Keeps(s) /\ s.instant = {}
    <3>1. Keeps(s)
      BY <2>1, CurrentKeeps, DropKeeps
    <3>2. s.instant = {}
      BY DEF Gather, Join, Popped, Skips
    <3> QED BY <3>1, <3>2
  <2> HIDE DEF s
  <2>3. All(s) \subseteq Pending'
    BY <2>1, <2>2 DEF Release, PutBack, Pending, All
  <2> QED BY <1>1, <2>2, <2>3 DEF Keeps
<1>7. ASSUME NEW t \in Tasks, Run(t) \/ WaitPast(t) \/ CancelEarly(t) \/ SleepStep(t) \/ Resume(t) PROVE FALSE
  BY <1>2, <1>7 DEF Run, WaitPast, CancelEarly, SleepStep, Resume, clock
<1>8. ASSUME NEW t \in Tasks, Park(t) PROVE FALSE
  BY <1>1, <1>8 DEF Park, Live, Pending
<1>9. ASSUME NEW t \in Tasks, CancelSleep(t) PROVE FALSE
  <2>1. UNCHANGED <<instant, deferred>> /\ heap' = heap \ Popped(heap, {w \in heap : w.seq \in cancelled'})
    BY <1>9 DEF CancelSleep
  <2>2. \A w \in heap : w \in heap' \/ w.seq \in cancelled'
    BY <2>1 DEF Popped
  <2> QED BY <1>0, <2>1, <2>2 DEF Live, Pending
<1>10. CASE CallAt
  BY <1>1, <1>10 DEF CallAt, Live, Pending
<1>11. CASE CancelCall
  BY <1>2, <1>11 DEF CancelCall, clock
<1> QED BY <1>3, <1>4, <1>5, <1>6, <1>7, <1>8, <1>9, <1>10, <1>11 DEF Next, Drive, Step

\* Nobody wakes at the moment at which it went to sleep: a re-sleep inside the
\* tolerance of an advance cannot spin (the set-aside entries of _heap_due).
THEOREM SleepsTakeTime == Spec => SleepTakesTime
<1>1. ASSUME SleepInv, TypeOK', [Next]_vars PROVE \A w \in Fired : w.owner \in Tasks => now' > w.registeredAt
  <2> SUFFICES ASSUME NEW w \in Fired, w.owner \in Tasks PROVE now' > w.registeredAt
    OBVIOUS
  <2>1. PICK d \in Drivers : ServeCurrent(d) \/ ServeNext(d)
    BY <1>1, OnlyWakesFire DEF SleepInv
  <2> DEFINE g == drv[d].goal
  <2>2. drv[d].phase = "serve" /\ seq' >= seq /\ seq' \in Nat /\ \E f, e, end : Wakes(d, f, e, end)
    BY <1>1, <2>1, ServeWakes DEF SleepInv
  <2>3. PICK f, e, end : Wakes(d, f, e, end)
    BY <2>2
  <2>4. w = e /\ e \in Pending
    BY <1>1, <2>2, <2>3, WakesFire DEF SleepInv
  <2>5. g.t \in Nat /\ end \in Int /\ now \in Nat /\ w.deadline \in Nat /\ w.registeredAt \in Nat /\ instantEnd \in Int
    BY <1>1, <2>3, <2>4, GoalType, PendingTypes DEF Wakes, SleepInv, ParkInv
  <2>6. now' = IF now < (IF g.t < end THEN g.t ELSE end) THEN (IF g.t < end THEN g.t ELSE end) ELSE now
    BY <2>3 DEF Wakes, Wake
  <2>7. w.registeredAt < w.deadline
    BY <1>1, <2>4 DEF SleepInv, Stamped
  <2>8. \/ w \in instant /\ instantEnd <= end
        \/ Due(w, g) /\ ~SetAside(w, g) /\ w.deadline <= end
    BY <2>3, <2>4 DEF Wakes
  <2>9. Active(d)
    BY <2>2 DEF Active
  <2> HIDE DEF g
  <2>10. w.deadline <= end /\ (w.deadline <= g.t \/ w.registeredAt < g.t)
    <3>1. CASE w \in instant /\ instantEnd <= end
      <4>1. w.deadline <= instantEnd /\ (w.deadline <= g.t \/ w.registeredAt < g.t)
        BY <1>1, <2>9, <3>1 DEF SleepInv, InstantOK, g
      <4> QED BY <2>5, <3>1, <4>1
    <3>2. CASE Due(w, g) /\ ~SetAside(w, g) /\ w.deadline <= end
      BY <2>5, <3>2 DEF SetAside
    <3> QED BY <2>8, <3>1, <3>2
  <2> QED BY <2>5, <2>6, <2>7, <2>10
<1>2. SleepInv /\ TypeOK' /\ [Next]_vars => [\A w \in Fired : w.owner \in Tasks => now' > w.registeredAt]_vars
  BY <1>1
<1> QED BY <1>2, SleepAlways, TypeCorrect, PTL DEF Spec, SleepTakesTime

-----------------------------------------------------------------------------
(* The earliest entry of a heap, and the tolerance.                          *)

\* The order of the heap is total and strict (_Waiter.__lt__).
LEMMA BeforeOrder ==
    ASSUME NEW u \in Entries, NEW v \in Entries, NEW w \in Entries
    PROVE  /\ ~Before(v, v) /\ ~(Before(v, w) /\ Before(w, v))
           /\ v.seq # w.seq => Before(v, w) \/ Before(w, v)
           /\ Before(u, v) /\ Before(v, w) => Before(u, w)
<1>1. /\ {u.deadline, v.deadline, w.deadline} \subseteq Int /\ {u.seq, v.seq, w.seq} \subseteq Int
      /\ {u.priority, v.priority, w.priority} \subseteq Int
  BY DEF Entries
<1> QED BY <1>1 DEF Before, Sooner

\* The least-number principle, from the well-foundedness of < on Nat.
LEMMA LeastNat == ASSUME NEW T, T \subseteq Nat, T # {} PROVE \E x \in T : \A y \in T : x <= y
<1>1. PICK x \in T : \A y \in T : ~(<<y, x>> \in OpToRel(<, Nat))
  BY NatLessThanWellFounded, WFMin
<1>2. ASSUME NEW y \in T PROVE x <= y
  <2>1. ~(y < x)
    BY <1>1 DEF OpToRel
  <2> QED BY <2>1
<1> QED BY <1>2

\* A set of entries whose numbers are distinct and below n0 has an earliest one:
\* by induction on the numbers, as priorities may be any integers.
LEMMA EarliestEntry ==
    ASSUME NEW H \in SUBSET Entries, NEW n0 \in Nat, \A w \in H : w.seq < n0, H # {},
           \A v, w \in H : v.seq = w.seq => v = w
    PROVE  \E m \in H : \A v \in H : v = m \/ Before(m, v)
<1> DEFINE Min(m, n) == m \in H /\ m.seq < n /\ \A v \in H : v.seq < n => v = m \/ Before(m, v)
           T == {n \in Nat : (\E w \in H : w.seq < n) /\ ~\E m \in H : Min(m, n)}
<1>0. \A w \in H : w \in Entries /\ w.seq \in Nat
  BY DEF Entries
<1>1. ASSUME T # {} PROVE FALSE
  <2>1. PICK n \in T : \A k \in T : n <= k
    BY <1>1, LeastNat
  <2>2. PICK w \in H : w.seq < n
    BY <2>1
  <2>3. n \in Nat /\ n - 1 \in Nat /\ n - 1 \notin T
    BY <1>0, <2>1, <2>2
  <2>4. \A v \in H : v.seq < n => v.seq < n - 1 \/ v.seq = n - 1
    BY <1>0, <2>3
  <2>5. CASE \E v \in H : v.seq < n - 1
    <3>1. PICK m \in H : Min(m, n - 1)
      BY <2>3, <2>5
    <3>2. m.seq < n
      BY <1>0, <2>3, <3>1
    <3>3. CASE \E x \in H : x.seq = n - 1 /\ ~Before(m, x)
      <4>1. PICK x \in H : x.seq = n - 1 /\ ~Before(m, x)
        BY <3>3
      <4>2. x.seq # m.seq /\ x.seq < n
        BY <1>0, <2>3, <3>1, <4>1
      <4>3. Before(x, m)
        BY <1>0, <4>1, <4>2, BeforeOrder
      <4>4. ASSUME NEW v \in H, v.seq < n PROVE v = x \/ Before(x, v)
        <5>1. CASE v.seq = n - 1
          BY <4>1, <5>1
        <5>2. CASE v.seq < n - 1
          <6>1. v = m \/ Before(m, v)
            BY <3>1, <5>2
          <6> QED BY <1>0, <4>3, <6>1, BeforeOrder
        <5> QED BY <2>4, <4>4, <5>1, <5>2
      <4> QED BY <2>1, <4>2, <4>4
    <3>4. CASE \A x \in H : x.seq = n - 1 => Before(m, x)
      <4>1. \A v \in H : v.seq < n => v = m \/ Before(m, v)
        BY <2>4, <3>1, <3>4
      <4> QED BY <2>1, <3>2, <4>1
    <3> QED BY <3>3, <3>4
  <2>6. CASE ~\E v \in H : v.seq < n - 1
    <3>1. w.seq = n - 1 /\ \A v \in H : v.seq < n => v = w
      BY <2>2, <2>4, <2>6
    <3> QED BY <2>1, <2>2, <3>1
  <2> QED BY <2>5, <2>6
<1>2. n0 \notin T /\ \E w \in H : w.seq < n0
  BY <1>1
<1>3. PICK m \in H : Min(m, n0)
  BY <1>2
<1> QED BY <1>3

\* Beyond the goal, what is not near it is followed only by what is not.
LEMMA Times == ASSUME NEW x \in Nat, NEW y \in Nat, NEW z \in Nat, x <= y PROVE x * z <= y * z /\ x * z \in Nat /\ y * z \in Nat
  OBVIOUS

LEMMA NearFades ==
    ASSUME NEW a \in Nat, NEW v \in Nat, NEW b \in Nat, NEW g, g.rtol \in Nat, g.atol \in Nat, b < v, v <= a, ~Near(v, b, g)
    PROVE  ~Near(a, b, g)
<1> DEFINE U == RtolUnit
           r == g.rtol
<1>1. U \in Nat /\ r \in Nat
  BY BoundsAssumption
<1>2. ~(v - b <= g.atol) /\ ~((v - b) * U <= r * v)
  BY DEF Near
<1>3. PICK p \in Nat, q \in Nat : p = v - b /\ q = a - v
  OBVIOUS
<1> HIDE DEF U, r
<1>4. r < U
  <2> SUFFICES ASSUME U <= r PROVE FALSE
    BY <1>1
  <2>1. p * U <= v * U /\ p * U \in Nat /\ v * U \in Nat
    BY <1>1, <1>3, Times
  <2>2. U * v <= r * v /\ U * v \in Nat /\ r * v \in Nat
    BY <1>1, Times
  <2>3. U * v = v * U
    BY <1>1
  <2> QED BY <1>2, <1>3, <2>1, <2>2, <2>3
<1>5. r * q <= U * q /\ r * q \in Nat /\ U * q \in Nat
  BY <1>1, <1>3, <1>4, Times
<1>6. (a - b) * U = p * U + U * q /\ r * a = r * v + r * q
  <2>1. a - b = p + q /\ a = v + q
    BY <1>3
  <2>2. (p + q) * U = p * U + U * q /\ r * (v + q) = r * v + r * q
    BY <1>1, <1>3
  <2> QED BY <2>1, <2>2
<1>7. p * U \in Nat /\ r * v \in Nat /\ ~(p * U <= r * v)
  BY <1>1, <1>2, <1>3
<1>8. ~((a - b) * U <= r * a)
  BY <1>5, <1>6, <1>7
<1>9. ~(a - b <= g.atol)
  BY <1>2
<1> QED BY <1>8, <1>9 DEF Near, U, r

\* If the earliest entry that is not skipped is not due, none is.
LEMMA NoneIsDue ==
    ASSUME ParkInv, NEW c \in Shape, c.heap \subseteq Pending, NEW g \in Goals \cup {NoGoal},
           \A w \in c.heap : First(w, c, g) => ~Due(w, g),
           NEW w \in c.heap, ~Skips(w, g)
    PROVE  w.deadline > g.t /\ ~Due(w, g)
<1> DEFINE H == {v \in c.heap : ~Skips(v, g)}
<1>0. g.t \in Nat /\ g.rtol \in Nat /\ g.atol \in Nat
  BY GoalsAssumption DEF NoGoal
<1>1. \A v \in c.heap : v \in Entries /\ v.deadline \in Nat
  BY DEF Shape, Entries
<1>2. PICK m \in H : \A v \in H : v = m \/ Before(m, v)
  <2>1. H \in SUBSET Entries /\ H # {}
    BY <1>1
  <2>2. seq \in Nat /\ \A v \in H : v.seq < seq
    BY DEF ParkInv, TypeOK, FreshSeq
  <2>3. \A u, v \in H : u.seq = v.seq => u = v
    BY DEF ParkInv, ParkedIffPending
  <2> HIDE DEF H
  <2> QED BY <2>1, <2>2, <2>3, EarliestEntry
<1>3. First(m, c, g)
  <2> SUFFICES ASSUME NEW v \in c.heap, Before(v, m), ~Skips(v, g) PROVE FALSE
    BY DEF First
  <2>1. v = m \/ Before(m, v)
    BY <1>2
  <2> QED BY <1>1, <2>1, BeforeOrder
<1>4. m.deadline > g.t /\ ~Near(m.deadline, g.t, g) /\ m.deadline \in Nat
  BY <1>0, <1>1, <1>3 DEF Due
<1>5. w.deadline \in Nat /\ m.deadline <= w.deadline
  BY <1>1, <1>2, <1>4 DEF Before
<1>6. ~Near(w.deadline, g.t, g)
  BY <1>0, <1>4, <1>5, NearFades
<1>7. w.deadline > g.t
  BY <1>0, <1>4, <1>5
<1> QED BY <1>0, <1>5, <1>6, <1>7 DEF Due

\* An advance that ends without a wake has found nothing due.
LEMMA EndsAtGoal ==
    ASSUME SleepInv, Next, NEW d \in Drivers, Serves(d), drv'[d] = Idle, Fired = {}
    PROVE  NoneDue(d) /\ drv[d].final
<1>0. TypeOK /\ drv[d].phase = "serve" /\ drv'[d].phase = "idle" /\ Idle.phase = "idle"
  BY DEF SleepInv, ParkInv, Serves, Idle
<1>1. ~CanRun
  BY <1>0 DEF CanRun
<1>2. PICK x \in Drivers : Drive(x)
  BY <1>1 DEF Next, Step, Run, SleepStep, WaitPast, Park, Resume, CancelEarly, CancelSleep, CallAt, CancelCall
<1>3. x = d
  <2>1. CASE Begin(x)
    BY <1>0, <2>1 DEF Begin, MayBegin, SleepInv, DriveInv, OneDriver
  <2>2. CASE ~Begin(x)
    <3>1. drv[x].phase # "idle"
      BY <1>2, <2>2 DEF Drive, Checkpoint, HookIdle, HookBusy, Abort, ServeCurrent, ServeNext, NoneDue
    <3> QED BY <1>0, <3>1 DEF SleepInv, DriveInv, OneDriver
  <2> QED BY <2>1, <2>2
<1>4. ~(ServeCurrent(d) \/ ServeNext(d))
  <2> SUFFICES ASSUME ServeCurrent(d) \/ ServeNext(d) PROVE FALSE
    OBVIOUS
  <2>1. seq' >= seq /\ seq' \in Nat /\ \E f, e, end : Wakes(d, f, e, end)
    BY ServeWakes DEF SleepInv
  <2>2. PICK f, e, end : Wakes(d, f, e, end)
    BY <2>1
  <2>3. Fired = {e}
    BY <2>1, <2>2, WakesFire DEF SleepInv
  <2> QED BY <2>3
<1>5. NoneDue(d)
  BY <1>0, <1>2, <1>3, <1>4 DEF Drive, Begin, Checkpoint, HookIdle, HookBusy, Abort
<1>6. drv[d].final
  <2> SUFFICES ASSUME ~drv[d].final PROVE FALSE
    OBVIOUS
  <2>1. drv' = [drv EXCEPT ![d] = Settling(drv[d].goal, TRUE, 0, pc)]
    BY <1>5 DEF NoneDue
  <2>2. drv'[d].phase = "settle"
    BY <1>0, <2>1 DEF TypeOK, Settling
  <2> QED BY <1>0, <2>2
<1> QED BY <1>5, <1>6

\* When nothing is due, what is pending lies beyond the goal, and inside the
\* tolerance only if it was registered there.
LEMMA BeyondGoal ==
    ASSUME SleepInv, NEW d \in Drivers, Active(d), NoneDue(d), drv[d].final, NEW w \in heap', w.seq \notin cancelled
    PROVE  w.deadline > now' /\ (Due(w, drv[d].goal) => w.registeredAt = now')
<1> DEFINE g == drv[d].goal
           c == Current(g)
           s == Gather([c EXCEPT !.instant = {}], {}, 0, g)
<1>1. /\ Exhausted(c) /\ now' = g.t /\ heap' = PutBack(s)
      /\ \A v \in c.heap : First(v, c, g) => ~Due(v, g)
  BY DEF NoneDue, Release
<1>2. g \in Goals \cup {NoGoal} /\ g.t \in Nat /\ now \in Nat /\ now <= g.t /\ Active(d)
  BY GoalType DEF SleepInv, ParkInv, DriveInv, TypeOK, Advances, GoalAhead, Active, Serves
<1>3. c \in Shape /\ Keeps(c)
  BY CurrentType, CurrentKeeps DEF SleepInv, ParkInv
<1>4. s.instant = {} /\ s.heap \subseteq c.heap /\ \A v \in s.deferred : v \in c.deferred \/ SetAside(v, g)
  <2>1. s.instant = {}
    BY DEF Gather, Join, Popped, Skips
  <2> HIDE DEF c, g
  <2> QED BY <1>3, <2>1, DropTakes
<1>5. \A v \in c.deferred : v \in deferred \/ SetAside(v, g)
  BY CurrentTakes
<1>6. w \in c.heap \/ w \in deferred \/ SetAside(w, g)
  <2> HIDE DEF s, c, g
  <2> QED BY <1>1, <1>4, <1>5 DEF PutBack
<1>7. w \in Pending
  <2>1. Keeps(s)
    BY <1>1, <1>3, DropKeeps DEF SleepInv
  <2> HIDE DEF s
  <2> QED BY <1>1, <2>1 DEF Keeps, All, PutBack
<1>8. w.registeredAt \in Nat /\ w.deadline \in Nat /\ w.registeredAt <= g.t
  <2>1. w.registeredAt \in Nat /\ w.deadline \in Nat /\ w.registeredAt <= now
    BY <1>7, PendingTypes DEF SleepInv, ParkInv, Stamped
  <2> HIDE DEF g
  <2> QED BY <1>2, <2>1
<1>9. CASE w \in deferred \/ SetAside(w, g)
  <2>1. w.deadline > g.t /\ w.registeredAt >= g.t
    BY <1>2, <1>9 DEF SleepInv, AsideOK, SetAside
  <2> HIDE DEF g
  <2>2. w.registeredAt = g.t
    BY <1>2, <1>8, <2>1
  <2> QED BY <1>1, <2>1, <2>2
<1>10. CASE w \in c.heap /\ ~SetAside(w, g)
  <2>1. ~Skips(w, g) /\ c.heap \subseteq Pending
    BY <1>3, <1>10 DEF Skips, Keeps, All
  <2> HIDE DEF c
  <2>2. w.deadline > g.t /\ ~Due(w, g)
    BY <1>1, <1>2, <1>3, <1>10, <2>1, NoneIsDue DEF SleepInv
  <2> QED BY <1>1, <2>2
<1> QED BY <1>6, <1>9, <1>10

\* An advance that reaches its goal has woken everybody due: what is pending lies
\* beyond the goal, and inside the tolerance only if it was registered there, for
\* any deadlines, priorities and tolerances (advance_to, _heap_due).
THEOREM NobodyIsLeftBehind == Spec => NobodyLeftBehind
<1>1. ASSUME SleepInv, TypeOK', Next, NEW d \in Drivers, Serves(d), drv'[d] = Idle, Fired = {},
             NEW w \in heap', w.seq \notin cancelled
      PROVE  w.deadline > now' /\ (Due(w, drv[d].goal) => w.registeredAt = now')
  BY <1>1, EndsAtGoal, BeyondGoal DEF Serves, Active
<1>2. SleepInv /\ TypeOK' /\ [Next]_vars =>
        [\A d \in Drivers : Serves(d) /\ drv'[d] = Idle /\ Fired = {} =>
           \A w \in heap' : w.seq \notin cancelled => w.deadline > now' /\ (Due(w, drv[d].goal) => w.registeredAt = now')]_vars
  BY <1>1
<1> QED BY <1>2, SleepAlways, TypeCorrect, PTL DEF Spec, NobodyLeftBehind
-----------------------------------------------------------------------------
(* The instant being served: one now(), the wake order, wakes on time.       *)

\* Times between two that are near are near: the tolerance has no gaps.
LEMMA NearShrinks ==
    ASSUME NEW a \in Nat, NEW x \in Nat, NEW y \in Nat, NEW b \in Nat, NEW g, g.rtol \in Nat, g.atol \in Nat,
           a <= x, x <= y, y <= b, Near(b, a, g)
    PROVE  Near(x, y, g) /\ Near(y, x, g)
<1> DEFINE U == RtolUnit
           r == g.rtol
<1>0. U \in Nat /\ r \in Nat
  BY BoundsAssumption
<1>1. Near(y, a, g)
  <2>1. CASE y = a
    <3>1. a - a <= g.atol
      OBVIOUS
    <3> QED BY <2>1, <3>1 DEF Near
  <2>2. CASE a < y
    BY <2>2, NearFades
  <2> QED BY <2>1, <2>2
<1>2. y - a <= g.atol \/ (y - a) * U <= r * y
  BY <1>1 DEF Near
<1>3. PICK p \in Nat, q \in Nat : p = y - x /\ q = y - a /\ p <= q
  OBVIOUS
<1> HIDE DEF U, r
<1>4. p * U <= q * U /\ p * U \in Nat /\ q * U \in Nat /\ r * y \in Nat
  BY <1>0, <1>3, Times
<1>5. p <= g.atol \/ p * U <= r * y
  BY <1>2, <1>3, <1>4
<1>6. y - x <= g.atol \/ (y - x) * U <= r * y
  BY <1>3, <1>5
<1>7. Near(y, x, g)
  BY <1>6 DEF Near, U, r
<1>8. Near(x, y, g)
  <2>1. CASE x = y
    BY <1>7, <2>1
  <2>2. CASE x < y
    BY <1>6, <2>2 DEF Near, U, r
  <2> QED BY <2>1, <2>2
<1> QED BY <1>7, <1>8

LEMMA GoalTypes == ASSUME NEW g \in Goals PROVE g.t \in Nat /\ g.rtol \in Nat /\ g.atol \in Nat
  BY GoalsAssumption

\* Whatever is before a due entry is due.
LEMMA DueEarlier ==
    ASSUME NEW g \in Goals, NEW v, NEW w, v.deadline \in Nat, w.deadline \in Nat, v.deadline <= w.deadline, Due(w, g)
    PROVE  Due(v, g)
<1>0. g.t \in Nat /\ g.rtol \in Nat /\ g.atol \in Nat
  BY GoalTypes
<1>1. CASE v.deadline <= g.t
  BY <1>1 DEF Due
<1>2. CASE g.t < v.deadline
  <2>1. Near(w.deadline, g.t, g)
    BY <1>0, <1>2 DEF Due
  <2>2. Near(v.deadline, g.t, g)
    BY <1>0, <1>2, <2>1, NearShrinks
  <2> QED BY <2>2 DEF Due
<1> QED BY <1>0, <1>1, <1>2

\* The instant anchored at a and numbered n, ending at end, of the containers f:
\* whoever registered before it and is not of it comes later or is beyond reach;
\* whoever is of it is due, and near a unless it joined by call_at.
Ordered(f, a, n, end, t, g) ==
    /\ \A w \in f.heap : w.seq < n /\ ~Skips(w, g) => a <= w.deadline /\ ~(Due(w, g) /\ Near(w.deadline, a, g))
    /\ \A w \in f.instant :
         /\ Due(w, g)
         /\ w.seq < n => a <= w.deadline /\ w.deadline <= end /\ Near(w.deadline, a, g)
         /\ ~(w.seq < n) => w.deadline <= t

Open(d) ==
    /\ instantSeq < seq /\ anchor \in Nat
    /\ now >= drv[d].goal.t \/ now >= instantEnd
    /\ Ordered(Containers, anchor, instantSeq, instantEnd, now, drv[d].goal)
OpenOK == \A d \in Drivers : Active(d) => drv[d].goal \in Goals /\ (anchor # NoTime => Open(d))

\* An entry still pending is not late, but for a tolerance of some goal.
Timely(w, t) == t <= w.deadline \/ w.deadline <= w.registeredAt \/ \E g \in Goals : Near(w.deadline, t, g)
OnTime == \A w \in Live : Timely(w, now)

ClockInv == SleepInv /\ OpenOK /\ OnTime

\* While an instant is served nobody in the heap joins it any more.
LEMMA CurrentStays ==
    ASSUME NEW g, anchor # NoTime, NEW n, n = instantSeq, NEW end, NEW t, Ordered(Containers, anchor, n, end, t, g)
    PROVE  Current(g).instant = instant /\ Ordered(Current(g), anchor, n, end, t, g)
<1> DEFINE M == Members(heap, anchor, g)
           popped == Popped(heap, {w \in heap : Skips(w, g)} \cup M)
           joins == Join(popped, n, g)
           aside == {w \in popped : w.seq \notin cancelled /\ SetAside(w, g)}
           dead == {w \in popped : w.seq \in cancelled}
<1>1. Containers.heap = heap /\ Containers.instant = instant /\ Containers.deferred = deferred
  BY DEF Containers
<1>2. Current(g).instant = instant \cup joins /\ Current(g).heap = heap \ (joins \cup aside \cup dead)
  BY <1>1 DEF Current, Gather
<1>3. \A w \in joins : w \in heap /\ w \in M /\ ~Skips(w, g) /\ w.seq < n
  BY DEF Join, Popped
<1>4. \A w \in M : Due(w, g) /\ Near(w.deadline, anchor, g)
  BY DEF Members
<1> HIDE DEF M, popped, joins, aside, dead
<1>5. joins = {}
  BY <1>1, <1>3, <1>4 DEF Ordered
<1>6. Current(g).instant = instant /\ Current(g).heap \subseteq heap
  BY <1>2, <1>5
<1> QED BY <1>1, <1>6 DEF Ordered

\* A new instant takes everything that is due and near its anchor.
LEMMA NextOrdered ==
    ASSUME NEW c \in Shape, NEW g \in Goals, NEW first \in c.heap, First(first, c, g), \A w \in c.heap : w.seq < seq,
           NEW f, f = Gather([c EXCEPT !.instant = {}], Members(c.heap, first.deadline, g), seq, g),
           NEW end, \A w \in f.instant : w.deadline <= end, NEW t
    PROVE  Ordered(f, first.deadline, seq, end, t, g)
<1> DEFINE a == first.deadline
           M == Members(c.heap, a, g)
           S == {w \in c.heap : Skips(w, g)} \cup M
           popped == Popped(c.heap, S)
           joins == Join(popped, seq, g)
           aside == {w \in popped : w.seq \notin cancelled /\ SetAside(w, g)}
           dead == {w \in popped : w.seq \in cancelled}
           b == [c EXCEPT !.instant = {}]
<1>0. g.t \in Nat /\ g.rtol \in Nat /\ g.atol \in Nat
  BY GoalTypes
<1>1. b.heap = c.heap /\ b.instant = {}
  BY DEF Shape
<1>2. f.instant = joins /\ f.heap = c.heap \ (joins \cup aside \cup dead)
  <2> HIDE DEF b
  <2>1. f = Gather(b, M, seq, g)
    BY DEF b
  <2> QED BY <1>1, <2>1 DEF Gather
<1>3. \A w \in c.heap : w.deadline \in Nat
  BY DEF Shape, Entries
<1>4. ASSUME NEW w \in c.heap, ~Skips(w, g) PROVE a <= w.deadline
  <2>1. ~Before(w, first)
    BY <1>4 DEF First
  <2> QED BY <1>3, <2>1 DEF Before
<1>5. \A w \in joins : w \in c.heap /\ w \in M /\ ~Skips(w, g)
  BY DEF Join, Popped
<1>6. \A w \in M : Due(w, g) /\ Near(w.deadline, a, g)
  BY DEF Members
<1>7. \A w \in f.instant : Due(w, g) /\ w.seq < seq /\ a <= w.deadline /\ w.deadline <= end /\ Near(w.deadline, a, g)
  <2> HIDE DEF M, joins, a
  <2> QED BY <1>2, <1>4, <1>5, <1>6
<1>8. ASSUME NEW w \in f.heap, ~Skips(w, g), Due(w, g), Near(w.deadline, a, g) PROVE FALSE
  <2>1. w \in c.heap /\ w \notin joins
    BY <1>2, <1>8
  <2>2. w \notin popped
    BY <1>8, <2>1 DEF Join
  <2>3. PICK v \in c.heap : (v = w \/ Before(v, w)) /\ v \notin S
    BY <2>1, <2>2 DEF Popped
  <2>4. w \in S
    BY <1>8, <2>1 DEF Members
  <2>5. Before(v, w) /\ ~Skips(v, g) /\ ~(Due(v, g) /\ Near(v.deadline, a, g))
    BY <2>3, <2>4 DEF Members
  <2>6. v.deadline <= w.deadline
    BY <1>3, <2>1, <2>5 DEF Before
  <2>7. a <= v.deadline /\ a \in Nat
    BY <1>3, <1>4, <2>5
  <2> HIDE DEF a
  <2>8. Due(v, g)
    BY <1>3, <1>8, <2>1, <2>6, DueEarlier
  <2>9. Near(v.deadline, a, g)
    <3>1. v.deadline \in Nat /\ w.deadline \in Nat /\ a <= a
      BY <1>3, <2>1, <2>7
    <3> QED BY <1>0, <1>8, <2>6, <2>7, <3>1, NearShrinks
  <2> QED BY <2>5, <2>8, <2>9
<1>9. \A w \in f.heap : w \in c.heap
  BY <1>2
<1> QED BY <1>4, <1>7, <1>8, <1>9 DEF Ordered

\* A driver wakes e, the top of f's instant: it goes on with the open instant,
\* at the same now(), or opens one with a number of its own.
Serving(d, f, e, end, a) ==
    /\ Wakes(d, f, e, end) /\ (\A w \in f.deferred : SetAside(w, drv[d].goal))
    /\ a \in Nat /\ instantSeq' < seq'
    /\ anchor' = IF advancing' THEN a ELSE NoTime
    /\ Ordered(f, a, instantSeq', end, now', drv[d].goal)
    /\ \/ anchor # NoTime /\ now' = now
       \/ instantSeq' = seq /\ (\A w \in Pending : w.seq < instantSeq') /\ \E x \in f.instant : x.deadline = end

LEMMA ServeOrders ==
    ASSUME SleepInv, OpenOK, TypeOK', NEW d \in Drivers, ServeCurrent(d) \/ ServeNext(d)
    PROVE  \E f, e, end, a : Serving(d, f, e, end, a)
<1> DEFINE g == drv[d].goal
           c == Current(g)
<1>0. TypeOK /\ ParkInv /\ seq \in Nat /\ now \in Nat /\ now' \in Nat /\ instantEnd \in Int /\ instantSeq \in Nat
  BY DEF SleepInv, ParkInv, TypeOK
<1>1. c \in Shape /\ Keeps(c)
  BY <1>0, CurrentType, CurrentKeeps
<1>2. /\ \A w \in c.instant : w \in instant \/ (Due(w, g) /\ ~SetAside(w, g))
      /\ \A w \in c.deferred : w \in deferred \/ SetAside(w, g)
  BY CurrentTakes
<1>3. drv[d].phase = "serve" /\ Active(d) /\ g \in Goals /\ g.t \in Nat /\ now <= g.t
  <2>1. drv[d].phase = "serve"
    BY DEF ServeCurrent, ServeNext
  <2>2. Active(d) /\ g \in Goals
    BY <2>1 DEF Active, OpenOK
  <2>3. now <= g.t
    BY <2>2 DEF SleepInv, DriveInv, GoalAhead, Active
  <2> HIDE DEF g
  <2> QED BY <2>1, <2>2, <2>3, GoalTypes
<1>4. \A w \in c.deferred : SetAside(w, g)
  BY <1>2, <1>3 DEF SleepInv, AsideOK
<1>5. \A w \in All(c) : w \in Pending /\ w.seq < seq
  BY <1>0, <1>1 DEF Keeps, ParkInv, FreshSeq
<1>6. CASE ServeCurrent(d)
  <2>1. anchor # NoTime /\ UNCHANGED <<instantSeq, seq>>
    BY <1>6 DEF ServeCurrent
  <2>2. Open(d)
    BY <1>3, <2>1 DEF OpenOK
  <2>3. c.instant = instant /\ Ordered(c, anchor, instantSeq, instantEnd, now, g)
    BY <2>1, <2>2, CurrentStays DEF Open
  <2>4. PICK e \in c.instant, end \in {instantEnd} \cup {w.deadline : w \in c.instant \ instant} :
          /\ NextInInstant(e, c.instant)
          /\ Wake(d, c, e, end)
          /\ anchor' = IF advancing' THEN anchor ELSE NoTime
    BY <1>6 DEF ServeCurrent
  <2> HIDE DEF c
  <2>5. end = instantEnd
    BY <2>3, <2>4
  <2>6. now' = now
    <3>1. now' = IF now < (IF g.t < end THEN g.t ELSE end) THEN (IF g.t < end THEN g.t ELSE end) ELSE now
      BY <2>4 DEF Wake
    <3>2. now >= g.t \/ now >= end
      BY <2>2, <2>5 DEF Open
    <3> HIDE DEF g
    <3> QED BY <1>0, <1>3, <2>5, <3>1, <3>2
  <2>7. Wakes(d, c, e, end)
    <3>1. \A w \in c.instant : w \in instant /\ instantEnd <= end
      BY <1>0, <2>3, <2>5
    <3> QED BY <1>0, <1>1, <1>2, <2>4, <2>5, <3>1 DEF Wakes
  <2>8. Serving(d, c, e, end, anchor)
    BY <1>4, <2>1, <2>2, <2>3, <2>4, <2>5, <2>6, <2>7 DEF Serving, Open
  <2> QED BY <2>8
<1>7. CASE ServeNext(d)
  <2> DEFINE F(first) == Gather([c EXCEPT !.instant = {}], Members(c.heap, first.deadline, g), seq, g)
  <2>1. PICK first \in c.heap : First(first, c, g) /\ \E e \in F(first).instant, end \in {w.deadline : w \in F(first).instant} :
          /\ NextInInstant(e, F(first).instant)
          /\ Latest(end, {w.deadline : w \in F(first).instant})
          /\ Wake(d, F(first), e, end)
          /\ anchor' = IF advancing' THEN first.deadline ELSE NoTime
    BY <1>7 DEF ServeNext
  <2>2. Exhausted(c) /\ instantSeq' = seq /\ seq' = seq + 1
    BY <1>7 DEF ServeNext
  <2>3. Members(c.heap, first.deadline, g) \subseteq c.heap /\ \A w \in Members(c.heap, first.deadline, g) : Due(w, g)
    BY DEF Members
  <2>4. [c EXCEPT !.instant = {}] \in Shape /\ first.deadline \in Nat
    BY <1>1 DEF Shape, Entries
  <2> HIDE DEF c, g
  <2>5. Keeps(F(first)) /\ F(first) \in Shape
    BY <1>0, <1>1, <2>2, <2>3, <2>4, DropKeeps, GatherType
  <2>6. /\ \A w \in F(first).instant : Due(w, g) /\ ~SetAside(w, g)
        /\ \A w \in F(first).deferred : SetAside(w, g)
    <3>1. /\ \A w \in F(first).instant : Due(w, g) /\ ~SetAside(w, g)
          /\ \A w \in F(first).deferred : w \in c.deferred \/ SetAside(w, g)
      BY <1>1, <2>3, DropTakes
    <3> QED BY <1>4, <3>1
  <2>7. PICK f : f = F(first)
    OBVIOUS
  <2>8. f = Gather([c EXCEPT !.instant = {}], Members(c.heap, first.deadline, g), seq, g)
    BY <2>7
  <2> HIDE DEF F
  <2>9. PICK e \in f.instant, end \in {w.deadline : w \in f.instant} :
          /\ NextInInstant(e, f.instant)
          /\ Latest(end, {w.deadline : w \in f.instant})
          /\ Wake(d, f, e, end)
          /\ anchor' = IF advancing' THEN first.deadline ELSE NoTime
    BY <2>1, <2>7
  <2>10. end \in Int /\ (\A w \in f.instant : w.deadline <= end) /\ \E x \in f.instant : x.deadline = end
    <3>1. \A w \in f.instant : w.deadline \in Nat
      BY <2>5, <2>7 DEF Shape, Entries
    <3> QED BY <2>9, <3>1 DEF Latest
  <2>11. Wakes(d, f, e, end)
    BY <2>5, <2>6, <2>7, <2>9, <2>10 DEF Wakes, g
  <2>12. \A w \in c.heap : w.seq < seq
    BY <1>5 DEF All
  <2>13. Ordered(f, first.deadline, seq, end, now', g)
    BY <1>1, <1>3, <2>1, <2>8, <2>10, <2>12, NextOrdered
  <2>14. \A w \in Pending : w.seq < seq
    BY <1>0 DEF ParkInv, FreshSeq
  <2>15. seq < seq + 1
    BY <1>0
  <2>16. \A w \in f.deferred : SetAside(w, g)
    BY <2>6, <2>7
  <2>17. Serving(d, f, e, end, first.deadline)
    BY <2>2, <2>4, <2>9, <2>10, <2>11, <2>13, <2>14, <2>15, <2>16 DEF Serving, g
  <2> QED BY <2>17
<1> QED BY <1>6, <1>7

\* What is known of a wake.
LEMMA ServingFacts ==
    ASSUME SleepInv, OpenOK, TypeOK', NEW d \in Drivers, ServeCurrent(d) \/ ServeNext(d),
           NEW f, NEW e, NEW end, NEW a, Serving(d, f, e, end, a)
    PROVE  /\ Serves(d) /\ drv[d].goal \in Goals /\ a \in Nat /\ end \in Int
           /\ now \in Nat /\ now' \in Nat /\ now <= drv[d].goal.t
           /\ now' = IF now < (IF drv[d].goal.t < end THEN drv[d].goal.t ELSE end)
                     THEN (IF drv[d].goal.t < end THEN drv[d].goal.t ELSE end) ELSE now
           /\ Fired = {e} /\ e \in Live /\ e \in f.instant /\ Apart(f) /\ All(f) \subseteq Pending /\ Live \subseteq All(f)
           /\ Pending' \subseteq Pending /\ instantEnd' = end /\ UNCHANGED cancelled
           /\ \/ heap' = f.heap /\ instant' = {w \in f.instant : Sooner(e, w)} /\ deferred' = f.deferred
              \/ heap' = f.heap \cup {w \in f.instant : Sooner(e, w)} \cup f.deferred
                 /\ instant' = {} /\ deferred' = {} /\ anchor' = NoTime
<1>0. ParkInv /\ TypeOK /\ now \in Nat /\ now' \in Nat
  BY DEF SleepInv, ParkInv, TypeOK
<1>1. Serves(d) /\ Active(d) /\ seq' >= seq /\ seq' \in Nat
  BY <1>0, ServeWakes DEF Serves, Active
<1>2. Wakes(d, f, e, end) /\ a \in Nat /\ end \in Int /\ Wake(d, f, e, end) /\ e \in f.instant
      /\ Apart(f) /\ All(f) \subseteq Pending /\ Live \subseteq All(f)
  BY DEF Serving, Wakes, Keeps
<1>3. Fired = {e} /\ Pending' \subseteq Pending /\ instantEnd' = end /\ UNCHANGED cancelled
  BY <1>0, <1>1, <1>2, WakesFire
<1>4. e \in Live
  BY <1>3 DEF Fired
<1>5. drv[d].goal \in Goals /\ now <= drv[d].goal.t
  BY <1>1 DEF OpenOK, SleepInv, DriveInv, GoalAhead, Active
<1>6. now' = IF now < (IF drv[d].goal.t < end THEN drv[d].goal.t ELSE end)
             THEN (IF drv[d].goal.t < end THEN drv[d].goal.t ELSE end) ELSE now
  BY <1>2 DEF Wake
<1> DEFINE rest == {w \in f.instant : Sooner(e, w)}
<1>7. \/ heap' = f.heap /\ instant' = rest /\ deferred' = f.deferred
      \/ Release(d, [f EXCEPT !.instant = rest])
  BY <1>2 DEF Wake
<1>8. ASSUME Release(d, [f EXCEPT !.instant = rest])
      PROVE  heap' = f.heap \cup rest \cup f.deferred /\ instant' = {} /\ deferred' = {} /\ anchor' = NoTime
  <2>1. f.instant # {}
    BY <1>2
  <2> HIDE DEF rest
  <2> QED BY <1>8 DEF Release, PutBack
<1> HIDE DEF rest
<1> QED BY <1>0, <1>1, <1>2, <1>3, <1>4, <1>5, <1>6, <1>7, <1>8 DEF rest

\* A step that leaves the instant as it is, and at most registers an entry.
LEMMA OpenStays ==
    ASSUME SleepInv, OpenOK, Next, TypeOK', ~\E d \in Drivers : Begin(d),
           UNCHANGED <<now, anchor, instantEnd, instantSeq>>, cancelled \subseteq cancelled', seq' >= seq,
           \A w \in heap' : w \in heap \/ w.seq = seq,
           \A w \in instant' : w \in instant \/ (w.seq = seq /\ w.deadline <= now)
    PROVE  OpenOK'
<1>0. TypeOK /\ now \in Nat /\ seq \in Nat /\ seq' \in Nat /\ instantSeq \in Nat
  BY DEF SleepInv, ParkInv, TypeOK
<1> SUFFICES ASSUME NEW x \in Drivers, Active(x)' PROVE drv'[x].goal \in Goals /\ (anchor' # NoTime => Open(x)')
  BY DEF OpenOK
<1>1. Active(x) /\ drv'[x].goal = drv[x].goal
  BY <1>0, GoalsStay
<1>2. PICK g \in Goals : g = drv[x].goal /\ g = drv'[x].goal
  BY <1>1 DEF OpenOK
<1>3. g.t \in Nat /\ now <= g.t
  BY <1>1, <1>2, GoalTypes DEF SleepInv, DriveInv, GoalAhead, Active
<1> SUFFICES ASSUME anchor # NoTime PROVE Open(x)'
  BY <1>2
<1>4. /\ instantSeq < seq /\ anchor \in Nat /\ (now >= g.t \/ now >= instantEnd)
      /\ Ordered(Containers, anchor, instantSeq, instantEnd, now, g)
  BY <1>1, <1>2 DEF OpenOK, Open
<1>5. /\ Containers.heap = heap /\ Containers.instant = instant
      /\ Containers.heap' = heap' /\ Containers.instant' = instant'
  BY DEF Containers
<1>6. ~(seq < instantSeq) /\ instantSeq < seq'
  BY <1>0, <1>4
<1>7. ASSUME NEW w \in heap', w.seq < instantSeq, ~Skips(w, g)'
      PROVE  anchor <= w.deadline /\ ~(Due(w, g) /\ Near(w.deadline, anchor, g))
  <2>1. w \in heap /\ ~Skips(w, g)
    BY <1>6, <1>7 DEF Skips
  <2> QED BY <1>4, <1>5, <1>7, <2>1 DEF Ordered
<1>8. ASSUME NEW w \in instant'
      PROVE  /\ Due(w, g)
             /\ w.seq < instantSeq => anchor <= w.deadline /\ w.deadline <= instantEnd /\ Near(w.deadline, anchor, g)
             /\ ~(w.seq < instantSeq) => w.deadline <= now
  <2>1. CASE w \in instant
    BY <1>4, <1>5, <2>1 DEF Ordered
  <2>2. CASE w.seq = seq /\ w.deadline <= now
    <3>1. w.deadline \in Nat
      BY DEF TypeOK, Entries
    <3>2. w.deadline <= g.t
      BY <1>0, <1>3, <2>2, <3>1
    <3> QED BY <1>6, <2>2, <3>2 DEF Due
  <2> QED BY <1>8, <2>1, <2>2
<1>9. Ordered(Containers, anchor, instantSeq, instantEnd, now, g)'
  BY <1>5, <1>7, <1>8 DEF Ordered
<1> QED BY <1>2, <1>4, <1>6, <1>9 DEF Open

\* After a wake the instant is open, or the advance is over.
LEMMA ServingOpen ==
    ASSUME SleepInv, OpenOK, Next, TypeOK', ~\E x \in Drivers : Begin(x), NEW d \in Drivers, ServeCurrent(d) \/ ServeNext(d)
    PROVE  OpenOK'
<1>0. TypeOK /\ advancing \in BOOLEAN
  BY DEF SleepInv, ParkInv, TypeOK
<1>1. PICK f, e, end, a : Serving(d, f, e, end, a)
  BY ServeOrders
<1> SUFFICES ASSUME NEW x \in Drivers, Active(x)' PROVE drv'[x].goal \in Goals /\ (anchor' # NoTime => Open(x)')
  BY DEF OpenOK
<1>2. Active(x) /\ drv'[x].goal = drv[x].goal
  BY <1>0, GoalsStay
<1>3. Serves(d) /\ drv[d].goal \in Goals
  BY <1>1, ServingFacts
<1>4. x = d
  BY <1>2, <1>3 DEF SleepInv, DriveInv, OneDriver, Active, Serves
<1>5. PICK g \in Goals : g = drv[d].goal /\ g = drv'[x].goal
  BY <1>2, <1>3, <1>4
<1>6. /\ now \in Nat /\ now' \in Nat /\ end \in Int /\ a \in Nat /\ instantEnd' = end /\ UNCHANGED cancelled
      /\ now' = IF now < (IF g.t < end THEN g.t ELSE end) THEN (IF g.t < end THEN g.t ELSE end) ELSE now
      /\ \/ heap' = f.heap /\ instant' \subseteq f.instant
         \/ anchor' = NoTime
  <2>1. /\ now \in Nat /\ now' \in Nat /\ end \in Int /\ a \in Nat /\ instantEnd' = end /\ UNCHANGED cancelled
        /\ now' = IF now < (IF drv[d].goal.t < end THEN drv[d].goal.t ELSE end)
                  THEN (IF drv[d].goal.t < end THEN drv[d].goal.t ELSE end) ELSE now
    BY <1>1, ServingFacts
  <2>2. \/ heap' = f.heap /\ instant' = {w \in f.instant : Sooner(e, w)}
        \/ anchor' = NoTime
    BY <1>1, ServingFacts
  <2> QED BY <1>5, <2>1, <2>2
<1>7. instantSeq' < seq' /\ anchor' \in {a, NoTime} /\ Ordered(f, a, instantSeq', end, now', g)
  BY <1>1, <1>5 DEF Serving
<1> SUFFICES ASSUME anchor' # NoTime PROVE Open(x)'
  BY <1>5
<1>8. heap' = f.heap /\ instant' \subseteq f.instant /\ anchor' = a
  BY <1>6, <1>7
<1>9. now' >= g.t \/ now' >= end
  BY <1>6, GoalTypes
<1>10. Containers.heap' = heap' /\ Containers.instant' = instant'
  BY DEF Containers
<1>11. \A w : Skips(w, g)' = Skips(w, g)
  BY <1>6 DEF Skips
<1>12. Ordered(Containers, anchor, instantSeq, instantEnd, now, g)'
  <2>1. ASSUME NEW w \in heap', w.seq < instantSeq', ~Skips(w, g)'
        PROVE  anchor' <= w.deadline /\ ~(Due(w, g) /\ Near(w.deadline, anchor', g))
    BY <1>7, <1>8, <1>11, <2>1 DEF Ordered
  <2>2. ASSUME NEW w \in instant'
        PROVE  /\ Due(w, g)
               /\ w.seq < instantSeq' => anchor' <= w.deadline /\ w.deadline <= instantEnd' /\ Near(w.deadline, anchor', g)
               /\ ~(w.seq < instantSeq') => w.deadline <= now'
    BY <1>6, <1>7, <1>8, <2>2 DEF Ordered
  <2> QED BY <1>10, <2>1, <2>2 DEF Ordered
<1> QED BY <1>5, <1>6, <1>7, <1>8, <1>9, <1>12 DEF Open

LEMMA OpenStep ==
    ASSUME SleepInv, OpenOK, TypeOK', [Next]_vars
    PROVE  OpenOK'
<1>0. TypeOK /\ seq \in Nat /\ seq + 1 >= seq /\ seq >= seq
  BY DEF SleepInv, ParkInv, TypeOK
<1>1. CASE UNCHANGED vars
  BY <1>1 DEF vars, clock, OpenOK, Open, Active, Ordered, Containers, Skips
<1>2. ASSUME NEW d \in Drivers, Begin(d) PROVE OpenOK'
  <2>1. anchor' = NoTime
    BY <1>2 DEF Begin, MayBegin, clock, SleepInv, DriveInv, OneDriver
  <2>2. PICK g \in Goals : drv' = [drv EXCEPT ![d] = IF g.hook THEN Settling(g, FALSE, 0, pc)
                                                  ELSE [Idle EXCEPT !.phase = "serve", !.goal = g]]
    BY <1>2 DEF Begin
  <2>3. drv'[d].goal = g /\ \A x \in Drivers \ {d} : drv'[x] = drv[x]
    BY <1>0, <2>2 DEF TypeOK, Settling, Idle
  <2> QED BY <2>1, <2>3 DEF OpenOK, Active
<1> SUFFICES ASSUME Next, ~\E d \in Drivers : Begin(d) PROVE OpenOK'
  BY <1>1, <1>2
<1>3. ASSUME anchor' = NoTime PROVE OpenOK'
  <2>1. \A x \in Drivers : Active(x)' => Active(x) /\ drv'[x].goal = drv[x].goal
    BY <1>0, GoalsStay
  <2> QED BY <1>3, <2>1 DEF OpenOK
<1>4. ASSUME UNCHANGED <<now, anchor, instantEnd, instantSeq, seq>>, cancelled \subseteq cancelled', heap' \subseteq heap, instant' \subseteq instant
      PROVE  OpenOK'
  BY <1>0, <1>4, OpenStays
<1>5. ASSUME NEW d \in Drivers, Checkpoint(d) \/ HookIdle(d) \/ HookBusy(d) PROVE OpenOK'
  BY <1>4, <1>5 DEF Checkpoint, HookIdle, HookBusy, clock
<1>6. ASSUME NEW d \in Drivers, Abort(d) \/ NoneDue(d) PROVE OpenOK'
  BY <1>3, <1>6 DEF Abort, NoneDue, Release
<1>7. ASSUME NEW d \in Drivers, ServeCurrent(d) \/ ServeNext(d) PROVE OpenOK'
  BY <1>7, ServingOpen
<1>8. ASSUME NEW t \in Tasks, Run(t) \/ WaitPast(t) \/ CancelEarly(t) \/ SleepStep(t) \/ Resume(t) PROVE OpenOK'
  BY <1>4, <1>8 DEF Run, WaitPast, CancelEarly, SleepStep, Resume, clock
<1>9. ASSUME NEW t \in Tasks, CancelSleep(t) PROVE OpenOK'
  <2>1. UNCHANGED <<now, instant, anchor, instantEnd, instantSeq, seq>> /\ heap' \subseteq heap /\ cancelled \subseteq cancelled'
    BY <1>9 DEF CancelSleep
  <2> QED BY <1>4, <2>1
<1>10. ASSUME NEW t \in Tasks, Park(t) PROVE OpenOK'
  <2>1. UNCHANGED <<now, instant, anchor, instantEnd, instantSeq, cancelled>> /\ seq' = seq + 1
    BY <1>10 DEF Park
  <2>2. \A w \in heap' : w \in heap \/ w.seq = seq
    BY <1>10 DEF Park, Entry
  <2> QED BY <1>0, <2>1, <2>2, OpenStays
<1>11. CASE CallAt
  <2>1. UNCHANGED <<now, anchor, instantEnd, instantSeq, cancelled>> /\ seq' = seq + 1
    BY <1>11 DEF CallAt
  <2>2. \A w \in heap' : w \in heap \/ w.seq = seq
    BY <1>11 DEF CallAt, Entry
  <2>3. \A w \in instant' : w \in instant \/ (w.seq = seq /\ w.deadline <= now)
    BY <1>11 DEF CallAt, Entry
  <2> QED BY <1>0, <2>1, <2>2, <2>3, OpenStays
<1>12. CASE CancelCall
  BY <1>4, <1>12 DEF CancelCall, clock
<1> QED BY <1>5, <1>6, <1>7, <1>8, <1>9, <1>10, <1>11, <1>12 DEF Next, Drive, Step

\* Time moves to the instant or the goal, and past nobody: whoever a new now()
\* lies beyond is of the instant, hence near it.
LEMMA ServingTimely ==
    ASSUME SleepInv, OpenOK, OnTime, TypeOK', NEW d \in Drivers, ServeCurrent(d) \/ ServeNext(d),
           NEW f, NEW e, NEW end, NEW a, Serving(d, f, e, end, a), NEW w \in Live
    PROVE  Timely(w, now')
<1>1. CASE now' = now
  BY <1>1 DEF OnTime
<1> SUFFICES ASSUME now' # now PROVE Timely(w, now')
  BY <1>1
<1>2. PICK g \in Goals : g = drv[d].goal
  BY ServingFacts
<1>3. g.t \in Nat /\ g.rtol \in Nat /\ g.atol \in Nat
  BY GoalTypes
<1>4. /\ now \in Nat /\ now' \in Nat /\ end \in Int /\ a \in Nat
      /\ now' = IF now < (IF g.t < end THEN g.t ELSE end) THEN (IF g.t < end THEN g.t ELSE end) ELSE now
  <2>1. /\ now \in Nat /\ now' \in Nat /\ end \in Int /\ a \in Nat
        /\ now' = IF now < (IF drv[d].goal.t < end THEN drv[d].goal.t ELSE end)
                  THEN (IF drv[d].goal.t < end THEN drv[d].goal.t ELSE end) ELSE now
    BY ServingFacts
  <2> QED BY <1>2, <2>1
<1>5. now' <= g.t /\ now' <= end
  BY <1>3, <1>4
<1>6. /\ instantSeq' = seq /\ (\A v \in Pending : v.seq < instantSeq') /\ (\E x \in f.instant : x.deadline = end)
      /\ Ordered(f, a, instantSeq', end, now', g)
      /\ \A v \in f.deferred : SetAside(v, g)
  BY <1>2 DEF Serving
<1>7. All(f) \subseteq Pending /\ Live \subseteq All(f)
  BY ServingFacts
<1>8. TypeOK /\ w \in Pending /\ w.seq \notin cancelled
  BY DEF Live, SleepInv, ParkInv
<1>9. w.deadline \in Nat
  BY <1>8, PendingTypes
<1>10. Near(end, a, g) /\ end \in Nat
  <2>1. PICK x \in f.instant : x.deadline = end
    BY <1>6
  <2>2. x \in Pending
    BY <1>7 DEF All
  <2>3. x.seq < instantSeq' /\ x.deadline \in Nat
    BY <1>6, <1>8, <2>2, PendingTypes
  <2> QED BY <1>6, <2>1, <2>3 DEF Ordered
<1> SUFFICES ASSUME w.deadline < now' PROVE Near(w.deadline, now', g)
  BY <1>4, <1>9 DEF Timely
<1>11. ASSUME a <= w.deadline PROVE Near(w.deadline, now', g) /\ Near(w.deadline, a, g)
  <2>1. PICK x \in Nat : x = w.deadline
    BY <1>9
  <2>2. PICK y \in Nat : y = now'
    BY <1>4
  <2>3. a <= x /\ x <= y /\ y <= end /\ x <= end /\ a <= a
    BY <1>4, <1>5, <1>10, <1>11, <2>1, <2>2
  <2>4. Near(x, y, g) /\ Near(x, a, g)
    BY <1>3, <1>4, <1>10, <2>3, NearShrinks
  <2> QED BY <2>1, <2>2, <2>4
<1>12. CASE SetAside(w, g)
  BY <1>3, <1>4, <1>5, <1>9, <1>12 DEF SetAside
<1>13. CASE w \in f.instant
  BY <1>6, <1>8, <1>11, <1>13 DEF Ordered
<1>14. CASE w \in f.heap /\ ~SetAside(w, g)
  <2>1. a <= w.deadline /\ ~(Due(w, g) /\ Near(w.deadline, a, g))
    BY <1>6, <1>8, <1>14 DEF Ordered, Skips
  <2>2. Due(w, g)
    <3>1. w.deadline <= g.t
      BY <1>3, <1>4, <1>5, <1>9
    <3> QED BY <3>1 DEF Due
  <2> QED BY <1>11, <2>1, <2>2
<1> QED BY <1>6, <1>7, <1>12, <1>13, <1>14 DEF All

LEMMA OnTimeStep ==
    ASSUME SleepInv, OpenOK, OnTime, TypeOK', [Next]_vars
    PROVE  OnTime'
<1>0. ParkInv /\ TypeOK /\ now \in Nat /\ now' \in Nat
  BY DEF SleepInv, ParkInv, TypeOK
<1>1. ASSUME UNCHANGED now, \A w \in Live' : w \in Live \/ (w.registeredAt = now /\ w.deadline \in Nat) PROVE OnTime'
  <2> SUFFICES ASSUME NEW w \in Live' PROVE Timely(w, now')
    BY DEF OnTime, Timely
  <2>1. CASE w \in Live
    BY <1>1, <2>1 DEF OnTime
  <2>2. CASE w.registeredAt = now /\ w.deadline \in Nat
    BY <1>0, <1>1, <2>2 DEF Timely
  <2> QED BY <1>1, <2>1, <2>2
<1>2. ASSUME UNCHANGED now, Pending' \subseteq Pending, cancelled \subseteq cancelled' PROVE OnTime'
  BY <1>1, <1>2 DEF Live
<1>3. CASE UNCHANGED vars
  BY <1>2, <1>3 DEF vars, clock, Pending
<1>4. ASSUME NEW d \in Drivers, Begin(d) \/ Checkpoint(d) \/ HookIdle(d) \/ HookBusy(d) PROVE OnTime'
  BY <1>2, <1>4 DEF Begin, Checkpoint, HookIdle, HookBusy, clock, Pending
<1>5. ASSUME NEW d \in Drivers, Abort(d) PROVE OnTime'
  <2>1. Pending' = Pending /\ UNCHANGED <<now, cancelled>>
    BY <1>5 DEF Abort, Release, PutBack, Containers, Pending
  <2> QED BY <1>2, <2>1
<1>6. ASSUME NEW d \in Drivers, ServeCurrent(d) \/ ServeNext(d) PROVE OnTime'
  <2>1. PICK f, e, end, a : Serving(d, f, e, end, a)
    BY <1>6, ServeOrders
  <2>2. Pending' \subseteq Pending /\ UNCHANGED cancelled
    BY <1>6, <2>1, ServingFacts
  <2>3. \A w \in Live : Timely(w, now')
    BY <1>6, <2>1, ServingTimely
  <2> QED BY <2>2, <2>3 DEF OnTime, Timely, Live
<1>7. ASSUME NEW d \in Drivers, NoneDue(d) PROVE OnTime'
  <2> DEFINE g == drv[d].goal
             s == Gather([Current(g) EXCEPT !.instant = {}], {}, 0, g)
  <2>1. /\ drv[d].phase = "serve" /\ Exhausted(Current(g)) /\ UNCHANGED cancelled
        /\ \/ drv[d].final /\ Release(d, s)
           \/ heap' = s.heap /\ instant' = {} /\ deferred' = s.deferred /\ UNCHANGED now
    BY <1>7 DEF NoneDue
  <2>2. CASE drv[d].final /\ Release(d, s)
    <3>1. Active(d)
      BY <2>1 DEF Active
    <3>2. \A w \in heap' : w.seq \notin cancelled => w.deadline > now'
      BY <1>7, <2>2, <3>1, BeyondGoal
    <3>3. Pending' = heap'
      BY <2>2 DEF Release, Pending
    <3>4. \A w \in Live' : w \in Pending' /\ w.seq \notin cancelled /\ w.deadline \in Nat
      BY <2>1 DEF Live, Pending, TypeOK, Entries
    <3>5. \A w \in Live' : now' <= w.deadline
      BY <1>0, <3>2, <3>3, <3>4
    <3> QED BY <3>5 DEF OnTime, Timely
  <2>3. CASE heap' = s.heap /\ instant' = {} /\ deferred' = s.deferred /\ UNCHANGED now
    <3>1. Keeps(s)
      BY <1>0, <2>1, CurrentKeeps, DropKeeps
    <3> HIDE DEF s
    <3>2. Pending' \subseteq Pending
      BY <2>3, <3>1 DEF Keeps, All, Pending
    <3> QED BY <1>2, <2>1, <2>3, <3>2
  <2> QED BY <2>1, <2>2, <2>3
<1>8. ASSUME NEW t \in Tasks, Run(t) \/ WaitPast(t) \/ CancelEarly(t) \/ SleepStep(t) \/ Resume(t) PROVE OnTime'
  BY <1>2, <1>8 DEF Run, WaitPast, CancelEarly, SleepStep, Resume, clock, Pending
<1>9. ASSUME NEW t \in Tasks, CancelSleep(t) PROVE OnTime'
  <2>1. UNCHANGED <<now, instant, deferred>> /\ heap' \subseteq heap /\ cancelled \subseteq cancelled'
    BY <1>9 DEF CancelSleep
  <2> QED BY <1>2, <2>1 DEF Pending
<1>10. ASSUME NEW t \in Tasks, Park(t) PROVE OnTime'
  <2>1. UNCHANGED <<now, cancelled>> /\ Pending' = Pending \cup {Entry(arg[t].time, arg[t].priority, t)}
    BY <1>10 DEF Park, Pending
  <2>2. \A w \in Live' : w \in Live \/ (w.registeredAt = now /\ w.deadline = arg[t].time)
    BY <2>1 DEF Live, Entry
  <2>3. arg[t].time \in Nat
    BY <1>0 DEF TypeOK, Args
  <2> QED BY <1>1, <2>1, <2>2, <2>3
<1>11. CASE CallAt
  <2>1. PICK x \in Deadlines, p \in Priorities :
          IF anchor # NoTime /\ x <= now
          THEN instant' = instant \cup {Entry(x, p, Host)} /\ UNCHANGED heap
          ELSE heap' = heap \cup {Entry(x, p, Host)} /\ UNCHANGED instant
    BY <1>11 DEF CallAt
  <2>2. UNCHANGED <<now, deferred, cancelled>> /\ x \in Nat
    BY <1>11, TimesAssumption DEF CallAt
  <2>3. Pending' = Pending \cup {Entry(x, p, Host)}
    BY <2>1, <2>2 DEF Pending
  <2>4. \A w \in Live' : w \in Live \/ (w.registeredAt = now /\ w.deadline = x)
    BY <2>2, <2>3 DEF Live, Entry
  <2> QED BY <1>1, <2>2, <2>4
<1>12. CASE CancelCall
  BY <1>2, <1>12 DEF CancelCall, clock, Pending
<1> QED BY <1>3, <1>4, <1>5, <1>6, <1>7, <1>8, <1>9, <1>10, <1>11, <1>12 DEF Next, Drive, Step

LEMMA ClockAlways == Spec => []ClockInv
<1>1. Init => OpenOK /\ OnTime
  BY DEF Init, OpenOK, OnTime, Active, Idle, Live, Pending
<1>2. SleepInv /\ OpenOK /\ OnTime /\ TypeOK' /\ [Next]_vars => OpenOK' /\ OnTime'
  BY OpenStep, OnTimeStep
<1> QED BY <1>1, <1>2, SleepAlways, TypeCorrect, PTL DEF Spec, ClockInv

\* A step that fires is a wake, by the one driver that serves.
LEMMA FiredIsServed ==
    ASSUME SleepInv, OpenOK, TypeOK', [Next]_vars, NEW w \in Fired, NEW d \in Drivers, Serves(d)
    PROVE  /\ ServeCurrent(d) \/ ServeNext(d)
           /\ \E f, end, a : Serving(d, f, w, end, a)
<1>1. PICK x \in Drivers : ServeCurrent(x) \/ ServeNext(x)
  BY OnlyWakesFire DEF SleepInv
<1>2. x = d
  <2>1. drv[x].phase = "serve"
    BY <1>1 DEF ServeCurrent, ServeNext
  <2> QED BY <2>1 DEF SleepInv, DriveInv, OneDriver, Serves
<1>3. PICK f, e, end, a : Serving(d, f, e, end, a)
  BY <1>1, <1>2, ServeOrders
<1>4. Fired = {e}
  BY <1>1, <1>2, <1>3, ServingFacts
<1> QED BY <1>1, <1>2, <1>3, <1>4

\* Nobody wakes early but for the goal's tolerance, at the goal, nor late but
\* for a tolerance, unless registered past due: now() is set to the end of the
\* instant or the goal before the wake (_advance_to, _pop_due).
THEOREM WakesAreOnTime == Spec => WakesOnTime
<1>1. ASSUME ClockInv, TypeOK', [Next]_vars, NEW w \in Fired, NEW d \in Drivers, Serves(d)
      PROVE  /\ w.deadline <= now' \/ (Near(w.deadline, now', drv[d].goal) /\ now' = drv[d].goal.t)
             /\ now' <= w.deadline \/ w.deadline <= w.registeredAt \/ \E g \in Goals : Near(w.deadline, now', g)
  <2>0. SleepInv /\ OpenOK /\ OnTime
    BY <1>1 DEF ClockInv
  <2>1. ServeCurrent(d) \/ ServeNext(d)
    BY <1>1, <2>0, FiredIsServed
  <2>2. PICK f, end, a : Serving(d, f, w, end, a)
    BY <1>1, <2>0, FiredIsServed
  <2>3. PICK g \in Goals : g = drv[d].goal
    BY <1>1, <2>0, <2>1, <2>2, ServingFacts
  <2>4. /\ now \in Nat /\ now' \in Nat /\ end \in Int /\ w \in Live /\ w \in f.instant /\ now <= g.t
        /\ now' = IF now < (IF g.t < end THEN g.t ELSE end) THEN (IF g.t < end THEN g.t ELSE end) ELSE now
    <3>1. /\ now \in Nat /\ now' \in Nat /\ end \in Int /\ w \in Live /\ w \in f.instant /\ now <= drv[d].goal.t
          /\ now' = IF now < (IF drv[d].goal.t < end THEN drv[d].goal.t ELSE end)
                    THEN (IF drv[d].goal.t < end THEN drv[d].goal.t ELSE end) ELSE now
      BY <1>1, <2>0, <2>1, <2>2, ServingFacts
    <3> QED BY <2>3, <3>1
  <2>5. w.deadline \in Nat /\ g.t \in Nat
    <3>1. TypeOK /\ w \in Pending
      BY <2>0, <2>4 DEF SleepInv, ParkInv, Live
    <3> QED BY <3>1, PendingTypes, GoalTypes
  <2>6. Due(w, g) /\ (w.deadline <= end \/ w.deadline <= now')
    BY <2>2, <2>3, <2>4 DEF Serving, Ordered
  <2>7. w.deadline <= now' \/ (Near(w.deadline, now', g) /\ now' = g.t)
    <3>1. CASE w.deadline <= g.t
      BY <2>4, <2>5, <2>6, <3>1
    <3>2. CASE w.deadline > g.t /\ w.deadline <= end
      <4>1. now' = g.t
        BY <2>4, <2>5, <3>2
      <4>2. Near(w.deadline, g.t, g)
        BY <2>5, <2>6, <3>2 DEF Due
      <4> QED BY <4>1, <4>2
    <3> QED BY <2>5, <2>6, <3>1, <3>2
  <2>8. Timely(w, now')
    BY <1>1, <2>0, <2>1, <2>2, <2>4, ServingTimely
  <2> QED BY <2>3, <2>7, <2>8 DEF Timely
<1>2. ClockInv /\ TypeOK' /\ [Next]_vars =>
        [\A w \in Fired, d \in Drivers : Serves(d) =>
           /\ w.deadline <= now' \/ (Near(w.deadline, now', drv[d].goal) /\ now' = drv[d].goal.t)
           /\ now' <= w.deadline \/ w.deadline <= w.registeredAt \/ \E g \in Goals : Near(w.deadline, now', g)]_vars
  BY <1>1
<1> QED BY <1>2, ClockAlways, TypeCorrect, PTL DEF Spec, WakesOnTime

\* The wake order is (instant, priority, registration): whoever could have been
\* woken first is of the same instant and behind (_pop_due, _Waiter.__lt__).
THEOREM WakesInOrder == Spec => WakeOrder
<1>1. ASSUME ClockInv, TypeOK', [Next]_vars, NEW w \in Fired, NEW d \in Drivers, Serves(d),
             NEW v \in heap' \cup instant' \cup deferred', v.seq \notin cancelled, v.deadline <= w.deadline,
             v.seq < instantSeq', ~SetAside(v, drv[d].goal), w.seq < instantSeq' \/ v \in instant'
      PROVE  Sooner(w, v) /\ (w.seq < instantSeq' => Near(v.deadline, w.deadline, drv[d].goal))
  <2>0. SleepInv /\ OpenOK
    BY <1>1 DEF ClockInv
  <2>1. ServeCurrent(d) \/ ServeNext(d)
    BY <1>1, <2>0, FiredIsServed
  <2>2. PICK f, end, a : Serving(d, f, w, end, a)
    BY <1>1, <2>0, FiredIsServed
  <2>3. PICK g \in Goals : g = drv[d].goal
    BY <1>1, <2>0, <2>1, <2>2, ServingFacts
  <2>4. /\ a \in Nat /\ w \in f.instant /\ Apart(f) /\ All(f) \subseteq Pending
        /\ \/ heap' = f.heap /\ instant' = {x \in f.instant : Sooner(w, x)} /\ deferred' = f.deferred
           \/ heap' = f.heap \cup {x \in f.instant : Sooner(w, x)} \cup f.deferred /\ instant' = {} /\ deferred' = {}
    BY <1>1, <2>0, <2>1, <2>2, ServingFacts
  <2>5. Ordered(f, a, instantSeq', end, now', g) /\ \A x \in f.deferred : SetAside(x, g)
    BY <2>2, <2>3 DEF Serving
  <2>6. v \in f.heap \/ (v \in f.instant /\ Sooner(w, v))
    BY <1>1, <2>3, <2>4, <2>5
  <2>7. v.deadline \in Nat /\ w.deadline \in Nat /\ g.rtol \in Nat /\ g.atol \in Nat
    <3>1. v \in Pending /\ w \in Pending /\ TypeOK
      BY <2>0, <2>4, <2>6 DEF All, SleepInv, ParkInv
    <3> QED BY <3>1, PendingTypes, GoalTypes
  <2>8. ASSUME w.seq < instantSeq', a <= v.deadline PROVE Near(v.deadline, a, g) /\ Near(v.deadline, w.deadline, g)
    <3>1. Near(w.deadline, a, g)
      BY <2>4, <2>5, <2>8 DEF Ordered
    <3>2. a <= a /\ w.deadline <= w.deadline
      BY <2>4, <2>7
    <3>3. Near(v.deadline, w.deadline, g)
      BY <1>1, <2>4, <2>7, <2>8, <3>1, <3>2, NearShrinks
    <3>4. Near(v.deadline, a, g)
      BY <1>1, <2>4, <2>7, <2>8, <3>1, <3>2, NearShrinks
    <3> QED BY <3>3, <3>4
  <2>9. CASE v \in f.heap
    <3>1. v \notin instant' /\ w.seq < instantSeq'
      BY <1>1, <2>4, <2>9 DEF Apart
    <3>2. a <= v.deadline /\ ~(Due(v, g) /\ Near(v.deadline, a, g))
      BY <1>1, <2>3, <2>5, <2>9 DEF Ordered, Skips
    <3>3. Due(w, g)
      BY <2>4, <2>5 DEF Ordered
    <3>4. Due(v, g)
      BY <1>1, <2>7, <3>3, DueEarlier
    <3> QED BY <2>8, <3>1, <3>2, <3>4
  <2>10. CASE v \in f.instant /\ Sooner(w, v)
    <3>1. a <= v.deadline
      BY <1>1, <2>5, <2>10 DEF Ordered
    <3> QED BY <2>3, <2>8, <2>10, <3>1
  <2> QED BY <2>6, <2>9, <2>10
<1>2. ClockInv /\ TypeOK' /\ [Next]_vars =>
        [\A w \in Fired, d \in Drivers : Serves(d) =>
           \A v \in heap' \cup instant' \cup deferred' :
              (/\ v.seq \notin cancelled /\ v.deadline <= w.deadline
               /\ v.seq < instantSeq' /\ ~SetAside(v, drv[d].goal)
               /\ w.seq < instantSeq' \/ v \in instant')
                => Sooner(w, v) /\ (w.seq < instantSeq' => Near(v.deadline, w.deadline, drv[d].goal))]_vars
  BY <1>1
<1> QED BY <1>2, ClockAlways, TypeCorrect, PTL DEF Spec, WakeOrder

\* Everybody woken in an instant reads the same now(), whatever the tolerance
\* and whoever joins it (_pop_due keeps _instant_end, _advance_to the time).
THEOREM OneNowPerInstant == Spec => OneNow
<1>1. ASSUME ClockInv, TypeOK', [Next]_vars, anchor # NoTime, anchor' = anchor, instantSeq' = instantSeq
      PROVE  now' = now
  <2>0. SleepInv /\ OpenOK /\ TypeOK /\ seq \in Nat /\ instantSeq \in Nat
    BY <1>1 DEF ClockInv, SleepInv, ParkInv, TypeOK
  <2>1. ASSUME NEW d \in Drivers, ServeCurrent(d) \/ ServeNext(d) PROVE now' = now
    <3>1. PICK f, e, end, a : Serving(d, f, e, end, a)
      BY <1>1, <2>0, <2>1, ServeOrders
    <3>2. Active(d)
      BY <2>1 DEF ServeCurrent, ServeNext, Active
    <3>3. instantSeq < seq
      BY <1>1, <2>0, <3>2 DEF OpenOK, Open
    <3>4. instantSeq' # seq
      BY <1>1, <2>0, <3>3
    <3> QED BY <3>1, <3>4 DEF Serving
  <2>2. ASSUME NEW d \in Drivers, NoneDue(d) PROVE now' = now
    BY <1>1, <2>2 DEF NoneDue, Release
  <2>3. ASSUME NEW d \in Drivers, Begin(d) \/ Checkpoint(d) \/ HookIdle(d) \/ HookBusy(d) \/ Abort(d) PROVE now' = now
    BY <2>3 DEF Begin, Checkpoint, HookIdle, HookBusy, Abort
  <2>4. ASSUME NEW t \in Tasks, Step(t) \/ Resume(t) \/ CancelEarly(t) \/ CancelSleep(t) PROVE now' = now
    BY <2>4 DEF Step, Run, SleepStep, WaitPast, Park, Resume, CancelEarly, CancelSleep
  <2>5. CASE CallAt \/ CancelCall \/ UNCHANGED vars
    BY <2>5 DEF CallAt, CancelCall, vars
  <2> QED BY <1>1, <2>1, <2>2, <2>3, <2>4, <2>5 DEF Next, Drive
<1>2. ClockInv /\ TypeOK' /\ [Next]_vars => [anchor # NoTime /\ anchor' = anchor /\ instantSeq' = instantSeq => now' = now]_vars
  BY <1>1
<1> QED BY <1>2, ClockAlways, TypeCorrect, PTL DEF Spec, OneNow

-----------------------------------------------------------------------------
(* Time waits for work.                                                      *)

\* The checkpoints a task needs, at most, until it parks or ends: one in sleep(),
\* one in wait_until(), and if calls may return at once (past) two for every
\* call that is still to come after the first n.
Mine == Tasks \ External
Spare(n, past) == IF past THEN 2 * (MaxCalls - n) ELSE 0
Hops(at, n, past) ==
    IF at = "ready" THEN 3 + Spare(n, past)
    ELSE IF at = "sleep" THEN 2 + Spare(n, past)
    ELSE IF at = "wait_until" THEN 1 + Spare(n, past) ELSE 0

\* The rounds left of a settle are enough for every task, and after it none has work.
Owing(d, t) == IF t \in drv[d].owed THEN 0 ELSE 1
InTime(d, t, past) ==
    /\ drv[d].phase = "settle" => Hops(pc[t], calls, past) + Owing(d, t) <= drv[d].left
    /\ drv[d].phase \in {"hook", "serve"} => Hops(pc[t], calls, past) = 0
NobodyElsewhere == calls <= MaxCalls /\ \A t \in Mine : pc[t] # "busy"
WorkOK(past) == NobodyElsewhere /\ \A t \in Mine, d \in Drivers : InTime(d, t, past)
EnoughRounds(past) == Rounds >= 3 + (IF past THEN 2 * MaxCalls ELSE 0)

LEMMA HopsType ==
    ASSUME NEW at, NEW n \in Nat, n <= MaxCalls, NEW past \in BOOLEAN
    PROVE  /\ Hops(at, n, past) \in Nat /\ Spare(n, past) \in Nat
           /\ at \in {"ready", "sleep", "wait_until"} => Hops(at, n, past) > 0
           /\ at \notin {"ready", "sleep", "wait_until"} => Hops(at, n, past) = 0
           /\ EnoughRounds(past) => Hops(at, n, past) <= Rounds
<1>1. MaxCalls \in Nat /\ Rounds \in Nat \ {0}
  BY BoundsAssumption
<1>2. Spare(n, past) \in Nat /\ (EnoughRounds(past) => 3 + Spare(n, past) <= Rounds)
  BY <1>1 DEF Spare, EnoughRounds
<1>3. Hops(at, n, past) \in Nat /\ Hops(at, n, past) <= 3 + Spare(n, past)
  BY <1>2 DEF Hops
<1>4. at \in {"ready", "sleep", "wait_until"} => Hops(at, n, past) > 0
  BY <1>2 DEF Hops
<1>5. at \notin {"ready", "sleep", "wait_until"} => Hops(at, n, past) = 0
  BY DEF Hops
<1>6. EnoughRounds(past) => Hops(at, n, past) <= Rounds
  BY <1>1, <1>2, <1>3
<1> QED BY <1>2, <1>3, <1>4, <1>5, <1>6

\* Calls of others never make a task need more.
LEMMA HopsShrink ==
    ASSUME NEW at, NEW n \in Nat, NEW m \in Nat, n <= m, m <= MaxCalls, NEW past \in BOOLEAN
    PROVE  Hops(at, m, past) <= Hops(at, n, past)
<1>1. MaxCalls \in Nat /\ Spare(m, past) <= Spare(n, past) /\ Spare(m, past) \in Nat /\ Spare(n, past) \in Nat
  BY BoundsAssumption DEF Spare
<1> QED BY <1>1 DEF Hops

\* A settle that begins has rounds enough.
LEMMA SettleBegins ==
    ASSUME TypeOK', NobodyElsewhere', NEW past \in BOOLEAN, EnoughRounds(past),
           NEW d \in Drivers, drv'[d].phase = "settle", drv'[d].left = Rounds, drv'[d].owed = Runnable(pc'),
           \A x \in Drivers \ {d} : drv'[x].phase = "idle"
    PROVE  WorkOK(past)'
<1> SUFFICES ASSUME NEW t \in Mine, NEW x \in Drivers PROVE InTime(x, t, past)'
  BY DEF WorkOK
<1>1. CASE x = d
  <2> DEFINE h == Hops(pc'[t], calls', past)
  <2>1. calls' \in Nat /\ calls' <= MaxCalls /\ Rounds \in Nat \ {0} /\ t \in Tasks
    BY BoundsAssumption DEF TypeOK, NobodyElsewhere, Mine
  <2>2. h \in Nat /\ h <= Rounds /\ (t \notin Runnable(pc') => h = 0)
    BY <2>1, HopsType DEF Runnable
  <2>3. h + Owing(d, t)' <= Rounds
    <3> HIDE DEF h
    <3>1. CASE t \in Runnable(pc')
      <4>1. Owing(d, t)' = 0
        BY <3>1 DEF Owing
      <4> QED BY <2>1, <2>2, <4>1
    <3>2. CASE t \notin Runnable(pc')
      <4>1. Owing(d, t)' = 1
        BY <3>2 DEF Owing
      <4> QED BY <2>1, <2>2, <3>2, <4>1
    <3> QED BY <3>1, <3>2
  <2> QED BY <1>1, <2>3 DEF InTime
<1>2. CASE x # d
  BY <1>2 DEF InTime
<1> QED BY <1>1, <1>2

LEMMA AllIdle ==
    ASSUME NobodyElsewhere', NEW past, \A x \in Drivers : drv'[x].phase = "idle" PROVE WorkOK(past)'
  BY DEF WorkOK, InTime

\* A step of u brings it nearer to its next sleep; the others stay where they are.
LEMMA TaskWorks ==
    ASSUME TypeOK, TypeOK', NEW past \in BOOLEAN, WorkOK(past), NEW u \in Tasks, Ran(u),
           \A t \in Tasks \ {u} : pc'[t] = pc[t], calls' \in {calls, calls + 1}, calls' <= MaxCalls,
           u \in Mine => pc'[u] # "busy" /\ Hops(pc'[u], calls', past) + 1 <= Hops(pc[u], calls, past)
    PROVE  WorkOK(past)'
<1>1. /\ calls \in Nat /\ calls' \in Nat /\ calls <= calls' /\ calls <= MaxCalls /\ Mine \subseteq Tasks /\ MaxCalls \in Nat
      /\ NobodyElsewhere'
  BY BoundsAssumption DEF TypeOK, WorkOK, NobodyElsewhere, Mine
<1> SUFFICES ASSUME NEW t \in Mine, NEW d \in Drivers PROVE InTime(d, t, past)'
  BY <1>1 DEF WorkOK
<1>2. PICK h \in Nat, k \in Nat : h = Hops(pc[t], calls, past) /\ k = Hops(pc'[t], calls', past)
  BY <1>1, HopsType DEF NobodyElsewhere
<1>3. drv'[d].phase = drv[d].phase /\ drv'[d].left = drv[d].left /\ drv'[d].owed = drv[d].owed \ {u}
      /\ drv[d].left \in 0..Rounds
  BY DEF Ran, TypeOK, Advances
<1>4. Rounds \in Nat /\ Owing(d, t) \in {0, 1} /\ Owing(d, t)' \in {0, 1}
  BY BoundsAssumption DEF Owing
<1>5. InTime(d, t, past)
  BY DEF WorkOK
<1>6. CASE t = u
  <2>1. k + 1 <= h
    BY <1>2, <1>6
  <2>2. drv[d].phase = "settle" => k + Owing(d, t)' <= drv[d].left
    <3>1. drv[d].phase = "settle" => h + Owing(d, t) <= drv[d].left
      BY <1>2, <1>5 DEF InTime
    <3> QED BY <1>3, <1>4, <2>1, <3>1
  <2>3. drv[d].phase \in {"hook", "serve"} => h = 0
    BY <1>2, <1>5 DEF InTime
  <2> QED BY <1>2, <1>3, <2>1, <2>2, <2>3 DEF InTime
<1>7. CASE t # u
  <2>1. k <= h
    BY <1>1, <1>2, <1>7, HopsShrink
  <2>2. Owing(d, t)' = Owing(d, t)
    BY <1>3, <1>7 DEF Owing
  <2>3. drv[d].phase = "settle" => k + Owing(d, t)' <= drv[d].left
    <3>1. drv[d].phase = "settle" => h + Owing(d, t) <= drv[d].left
      BY <1>2, <1>5 DEF InTime
    <3> QED BY <1>3, <1>4, <2>1, <2>2, <3>1
  <2>4. drv[d].phase \in {"hook", "serve"} => h = 0
    BY <1>2, <1>5 DEF InTime
  <2>5. h = 0 => k = 0
    BY <2>1
  <2> QED BY <1>2, <1>3, <2>3, <2>4, <2>5 DEF InTime
<1> QED BY <1>6, <1>7

\* The next call a task makes costs it less than the checkpoint it has passed,
\* unless an earlier call returned at once (past).
LEMMA ContinueWorks ==
    ASSUME TypeOK, calls <= MaxCalls, NEW past \in BOOLEAN, NEW u \in Tasks, Continue(u),
           u \in Mine => pc[u] = "ready" \/ (past /\ pc[u] \in {"sleep", "wait_until"})
    PROVE  /\ \A t \in Tasks \ {u} : pc'[t] = pc[t]
           /\ calls' \in {calls, calls + 1} /\ calls' <= MaxCalls
           /\ u \in Mine => pc'[u] # "busy" /\ Hops(pc'[u], calls', past) + 1 <= Hops(pc[u], calls, past)
<1>1. calls \in Nat /\ MaxCalls \in Nat /\ pc \in [Tasks -> Places]
  BY BoundsAssumption DEF TypeOK
<1>2. \A t \in Tasks \ {u} : pc'[t] = pc[t]
  BY <1>1 DEF Continue
<1>3. calls' \in {calls, calls + 1} /\ calls' <= MaxCalls
  BY <1>1 DEF Continue
<1>4. ASSUME u \in Mine PROVE pc'[u] # "busy" /\ Hops(pc'[u], calls', past) + 1 <= Hops(pc[u], calls, past)
  <2>1. Hops(pc[u], calls, past) >= 1 + Spare(calls, past) /\ Spare(calls, past) \in Nat
    BY <1>1, <1>4 DEF Hops, Spare
  <2>2. CASE pc'[u] = "done"
    <3>1. Hops(pc'[u], calls', past) = 0
      BY <2>2 DEF Hops
    <3>2. Hops(pc[u], calls, past) \in Nat
      BY <1>1, HopsType
    <3> QED BY <2>1, <2>2, <3>1, <3>2
  <2>3. CASE calls < MaxCalls /\ calls' = calls + 1 /\ pc'[u] \in {"sleep", "wait_until"}
    <3>2. ~past => Spare(calls, past) = 0 /\ Spare(calls', past) = 0
      BY DEF Spare
    <3>3. CASE past
      <4>4. PICK s \in Nat : Spare(calls', past) = s /\ Spare(calls, past) = s + 2
        <5>1. Spare(calls, past) = 2 * (MaxCalls - calls) /\ Spare(calls', past) = 2 * (MaxCalls - (calls + 1))
          BY <2>3, <3>3 DEF Spare
        <5>2. /\ 2 * (MaxCalls - (calls + 1)) \in Nat
              /\ 2 * (MaxCalls - calls) = 2 * (MaxCalls - (calls + 1)) + 2
          BY <1>1, <2>3
        <5> QED BY <5>1, <5>2
      <4>1. Hops(pc'[u], calls', past) \in {2 + s, 1 + s}
        BY <2>3, <4>4 DEF Hops
      <4>2. Hops(pc'[u], calls', past) + 1 <= 1 + Spare(calls, past)
        BY <4>1, <4>4
      <4>3. Hops(pc[u], calls, past) \in Nat
        BY <1>1, HopsType
      <4> QED BY <2>1, <2>3, <4>1, <4>2, <4>3, <4>4
    <3>4. CASE ~past
      <4>1. Hops(pc[u], calls, past) = 3
        BY <1>4, <3>2, <3>4 DEF Hops
      <4>2. Hops(pc'[u], calls', past) <= 2 /\ Hops(pc'[u], calls', past) \in Nat
        BY <2>3, <3>2, <3>4 DEF Hops
      <4> QED BY <2>3, <4>1, <4>2
    <3> QED BY <3>3, <3>4
  <2>4. u \notin External
    BY <1>4 DEF Mine
  <2>5. \/ pc'[u] = "done"
        \/ calls < MaxCalls /\ calls' = calls + 1 /\ pc'[u] \in {"sleep", "wait_until"}
    BY <1>1, <2>4 DEF Continue
  <2> QED BY <2>2, <2>3, <2>5
<1> QED BY <1>2, <1>3, <1>4

\* A driver that opens a settle, or lets go, owes nobody more than it can give.
LEMMA DriverWorks ==
    ASSUME TypeOK, OneDriver, TypeOK', NEW past \in BOOLEAN, EnoughRounds(past), NobodyElsewhere',
           NEW d \in Drivers, drv[d].phase # "idle",
           \/ \E c : Release(d, c)
           \/ \E g, final, n : drv' = [drv EXCEPT ![d] = Settling(g, final, n, pc')]
    PROVE  WorkOK(past)'
<1>1. ASSUME NEW c, Release(d, c) PROVE WorkOK(past)'
  <2>1. \A x \in Drivers : drv'[x].phase = "idle"
    BY <1>1, DriverReleases
  <2> QED BY <2>1, AllIdle
<1>2. ASSUME NEW g, NEW final, NEW n, drv' = [drv EXCEPT ![d] = Settling(g, final, n, pc')] PROVE WorkOK(past)'
  <2>1. drv'[d] = Settling(g, final, n, pc') /\ \A x \in Drivers \ {d} : drv'[x] = drv[x]
    BY <1>2 DEF TypeOK
  <2>2. drv'[d].phase = "settle" /\ drv'[d].left = Rounds /\ drv'[d].owed = Runnable(pc')
    BY <2>1 DEF Settling
  <2>3. \A x \in Drivers \ {d} : drv'[x].phase = "idle"
    BY <2>1 DEF OneDriver
  <2> QED BY <2>2, <2>3, SettleBegins
<1> QED BY <1>1, <1>2

\* A wake lets the woken task run: nobody is elsewhere, and the driver settles or lets go.
LEMMA WakeWorks ==
    ASSUME TypeOK, OneDriver, TypeOK', NEW past \in BOOLEAN, EnoughRounds(past), NobodyElsewhere,
           NEW d \in Drivers, drv[d].phase # "idle", NEW c, NEW e, NEW end, Wake(d, c, e, end)
    PROVE  WorkOK(past)'
<1>1. NobodyElsewhere'
  BY DEF Wake, NobodyElsewhere, TypeOK, Mine
<1>2. \/ \E x : Release(d, x)
      \/ \E g, final, n : drv' = [drv EXCEPT ![d] = Settling(g, final, n, pc')]
  BY DEF Wake
<1> QED BY <1>1, <1>2, DriverWorks

\* A round is over: every task has run once, and is one checkpoint nearer.
LEMMA RoundWorks ==
    ASSUME TypeOK, OneDriver, TypeOK', NEW past \in BOOLEAN, WorkOK(past), NEW d \in Drivers, Checkpoint(d)
    PROVE  WorkOK(past)'
<1>1. UNCHANGED <<pc, calls>> /\ calls \in Nat /\ calls <= MaxCalls /\ NobodyElsewhere' /\ Mine \subseteq Tasks
  BY DEF Checkpoint, TypeOK, WorkOK, NobodyElsewhere, Mine
<1> SUFFICES ASSUME NEW t \in Mine, NEW x \in Drivers PROVE InTime(x, t, past)'
  BY <1>1 DEF WorkOK
<1>2. CASE x # d
  <2>1. drv'[x] = drv[x] /\ drv[x].phase = "idle"
    BY <1>2 DEF Checkpoint, OneDriver, TypeOK
  <2> QED BY <2>1 DEF InTime
<1>3. CASE x = d
  <2>1. PICK h \in Nat : h = Hops(pc[t], calls, past) /\ (t \notin Runnable(pc) => h = 0)
    BY <1>1, HopsType DEF Runnable
  <2>2. h + 1 <= drv[d].left /\ drv[d].left \in Nat
    <3>1. InTime(d, t, past) /\ drv[d].phase = "settle" /\ drv[d].owed = {}
      BY DEF WorkOK, Checkpoint
    <3>2. drv[d].left \in Nat
      BY BoundsAssumption DEF TypeOK, Advances
    <3> QED BY <2>1, <3>1, <3>2 DEF InTime, Owing
  <2>3. CASE drv[d].left > 1
    <3>1. drv'[d].phase = "settle" /\ drv'[d].left = drv[d].left - 1 /\ drv'[d].owed = Runnable(pc)
      BY <2>3 DEF Checkpoint, TypeOK, Advances
    <3>2. CASE t \in Runnable(pc)
      <4>1. Owing(d, t)' = 0
        BY <1>1, <3>1, <3>2 DEF Owing
      <4> QED BY <1>1, <1>3, <2>1, <2>2, <3>1, <4>1 DEF InTime
    <3>3. CASE t \notin Runnable(pc)
      <4>1. Owing(d, t)' = 1
        BY <1>1, <3>1, <3>3 DEF Owing
      <4> QED BY <1>1, <1>3, <2>1, <2>2, <2>3, <3>1, <3>3, <4>1 DEF InTime
    <3> QED BY <3>2, <3>3
  <2>4. CASE ~(drv[d].left > 1)
    <3>1. h = 0
      BY <2>2, <2>4
    <3>2. drv'[d].phase \in {"hook", "serve"}
      BY <2>4 DEF Checkpoint, TypeOK, Advances
    <3> QED BY <1>1, <1>3, <2>1, <3>1, <3>2 DEF InTime
  <2> QED BY <2>3, <2>4
<1> QED BY <1>2, <1>3

\* A call on the clock that returns although no time has passed.
AtOnce(t) == WaitPast(t) \/ (SleepStep(t) /\ arg[t].time <= 0)
Hooked == \A g \in Goals : g.hook

\* Where a driver is, and whose turn it is: the step lemma by action.
LEMMA WorkStep ==
    ASSUME TypeOK, OneDriver, TypeOK', NEW past \in BOOLEAN, EnoughRounds(past), Hooked, WorkOK(past), [Next]_vars,
           past \/ \A t \in Mine : ~AtOnce(t)
    PROVE  WorkOK(past)'
<1>1. /\ calls \in Nat /\ calls <= MaxCalls /\ NobodyElsewhere /\ Mine \subseteq Tasks /\ MaxCalls \in Nat
      /\ pc \in [Tasks -> Places] /\ drv \in [Drivers -> Advances]
  BY BoundsAssumption DEF TypeOK, WorkOK, NobodyElsewhere, Mine
<1>2. CASE UNCHANGED vars
  BY <1>2 DEF vars, WorkOK, NobodyElsewhere, InTime, Owing
<1>3. ASSUME NEW d \in Drivers, Begin(d) PROVE WorkOK(past)'
  <2>1. PICK g \in Goals : drv' = [drv EXCEPT ![d] = Settling(g, FALSE, 0, pc)] /\ ~advancing
    BY <1>3 DEF Begin, MayBegin, Hooked
  <2>2. UNCHANGED <<pc, calls>> /\ NobodyElsewhere'
    BY <1>1, <1>3 DEF Begin, NobodyElsewhere
  <2>3. drv'[d].phase = "settle" /\ drv'[d].left = Rounds /\ drv'[d].owed = Runnable(pc')
    BY <1>1, <2>1, <2>2 DEF Settling
  <2>4. \A x \in Drivers \ {d} : drv'[x].phase = "idle"
    BY <1>1, <2>1 DEF OneDriver
  <2> QED BY <2>2, <2>3, <2>4, SettleBegins
<1>4. ASSUME NEW d \in Drivers, Checkpoint(d) PROVE WorkOK(past)'
  BY <1>4, RoundWorks
<1>5. ASSUME NEW d \in Drivers, HookIdle(d) PROVE WorkOK(past)'
  <2>1. UNCHANGED <<pc, calls>> /\ drv[d].phase = "hook" /\ drv'[d].phase = "serve"
        /\ \A x \in Drivers \ {d} : drv'[x] = drv[x]
    BY <1>1, <1>5 DEF HookIdle
  <2>2. ASSUME NEW t \in Mine, NEW x \in Drivers PROVE InTime(x, t, past)'
    <3>1. InTime(x, t, past)
      BY DEF WorkOK
    <3>2. CASE x = d
      BY <2>1, <3>1, <3>2 DEF InTime
    <3>3. CASE x # d
      <4>1. drv'[x] = drv[x]
        BY <2>1, <3>3
      <4> QED BY <2>1, <3>1, <4>1 DEF InTime, Owing
    <3> QED BY <3>2, <3>3
  <2>3. NobodyElsewhere'
    BY <1>1, <2>1 DEF NobodyElsewhere
  <2> QED BY <2>2, <2>3 DEF WorkOK
<1>6. ASSUME NEW d \in Drivers, HookBusy(d) \/ Abort(d) \/ NoneDue(d) PROVE WorkOK(past)'
  <2>1. UNCHANGED <<pc, calls>> /\ drv[d].phase # "idle" /\ NobodyElsewhere'
    BY <1>1, <1>6 DEF HookBusy, Abort, NoneDue, NobodyElsewhere
  <2>2. \/ \E c : Release(d, c)
        \/ \E g, final, n : drv' = [drv EXCEPT ![d] = Settling(g, final, n, pc)]
    <3>1. CASE HookBusy(d)
      BY <3>1 DEF HookBusy
    <3>2. CASE Abort(d)
      BY <3>2 DEF Abort
    <3>3. CASE NoneDue(d)
      BY <3>3 DEF NoneDue
    <3> QED BY <1>6, <3>1, <3>2, <3>3
  <2> QED BY <2>1, <2>2, DriverWorks
<1>7. ASSUME NEW d \in Drivers, ServeCurrent(d) PROVE WorkOK(past)'
  <2>1. PICK c, e, end : Wake(d, c, e, end)
    BY <1>7 DEF ServeCurrent
  <2>2. drv[d].phase # "idle"
    BY <1>7 DEF ServeCurrent
  <2> QED BY <1>1, <2>1, <2>2, WakeWorks
<1>8. ASSUME NEW d \in Drivers, ServeNext(d) PROVE WorkOK(past)'
  <2>1. PICK c, e, end : Wake(d, c, e, end)
    BY <1>8 DEF ServeNext
  <2>2. drv[d].phase # "idle"
    BY <1>8 DEF ServeNext
  <2> QED BY <1>1, <2>1, <2>2, WakeWorks
<1>9. ASSUME NEW u \in Tasks, Continue(u), Ran(u),
             u \in Mine => pc[u] = "ready" \/ (past /\ pc[u] \in {"sleep", "wait_until"})
      PROVE  WorkOK(past)'
  BY <1>1, <1>9, ContinueWorks, TaskWorks
<1>10. ASSUME NEW u \in Tasks, Ran(u), UNCHANGED calls,
              \/ pc[u] = "sleep" /\ pc' = [pc EXCEPT ![u] = "wait_until"]
              \/ pc[u] = "wait_until" /\ pc' = [pc EXCEPT ![u] = "parked"]
       PROVE  WorkOK(past)'
  <2>1. \A t \in Tasks \ {u} : pc'[t] = pc[t]
    BY <1>1, <1>10
  <2>2. pc'[u] # "busy" /\ Hops(pc'[u], calls', past) + 1 <= Hops(pc[u], calls, past)
    <3>1. PICK s \in Nat : s = Spare(calls, past)
      BY <1>1, HopsType
    <3>2. CASE pc[u] = "sleep" /\ pc'[u] = "wait_until"
      <4>1. Hops(pc[u], calls, past) = 2 + s /\ Hops(pc'[u], calls', past) = 1 + s
        BY <1>10, <3>1, <3>2 DEF Hops
      <4> QED BY <3>2, <4>1
    <3>3. CASE pc[u] = "wait_until" /\ pc'[u] = "parked"
      <4>1. Hops(pc[u], calls, past) = 1 + s /\ Hops(pc'[u], calls', past) = 0
        BY <1>10, <3>1, <3>3 DEF Hops
      <4> QED BY <3>3, <4>1
    <3> QED BY <1>1, <1>10, <3>2, <3>3
  <2>3. calls' \in {calls, calls + 1} /\ calls' <= MaxCalls
    BY <1>1, <1>10
  <2> QED BY <1>10, <2>1, <2>2, <2>3, TaskWorks
<1>11. ASSUME NEW u \in Tasks, Step(u) PROVE WorkOK(past)'
  <2>1. CASE Run(u)
    BY <1>9, <2>1 DEF Run
  <2>2. CASE SleepStep(u)
    <3>1. CASE arg[u].time <= 0 /\ Continue(u)
      <4>1. u \in Mine => past
        BY <2>2, <3>1 DEF AtOnce
      <4> QED BY <1>9, <2>2, <3>1, <4>1 DEF SleepStep
    <3>2. CASE pc' = [pc EXCEPT ![u] = "wait_until"] /\ UNCHANGED calls
      BY <1>10, <2>2, <3>2 DEF SleepStep
    <3> QED BY <2>2, <3>1, <3>2 DEF SleepStep
  <2>3. CASE WaitPast(u)
    <3>1. u \in Mine => past
      BY <2>3 DEF AtOnce
    <3> QED BY <1>9, <2>3, <3>1 DEF WaitPast
  <2>4. CASE Park(u)
    BY <1>10, <2>4 DEF Park
  <2> QED BY <1>11, <2>1, <2>2, <2>3, <2>4 DEF Step
<1>12. ASSUME NEW u \in Tasks, CancelEarly(u) \/ CancelSleep(u) PROVE WorkOK(past)'
  <2>1. Continue(u) /\ Ran(u) /\ u \notin Mine
    BY <1>12 DEF CancelEarly, CancelSleep, Mine
  <2>2. /\ \A t \in Tasks \ {u} : pc'[t] = pc[t]
        /\ calls' \in {calls, calls + 1} /\ calls' <= MaxCalls
    BY <1>1, <2>1, ContinueWorks
  <2> QED BY <2>1, <2>2, TaskWorks
<1>13. ASSUME \A t \in Mine : pc'[t] = pc[t], UNCHANGED drv, calls' \in {calls, calls + 1}, calls' <= MaxCalls
       PROVE  WorkOK(past)'
  <2>1. NobodyElsewhere'
    BY <1>1, <1>13 DEF NobodyElsewhere
  <2>2. ASSUME NEW t \in Mine, NEW d \in Drivers PROVE InTime(d, t, past)'
    <3>1. PICK h \in Nat, k \in Nat : h = Hops(pc[t], calls, past) /\ k = Hops(pc'[t], calls', past)
      BY <1>1, <1>13, HopsType
    <3>2. k <= h
      BY <1>1, <1>13, <3>1, HopsShrink
    <3>3. InTime(d, t, past) /\ drv[d].left \in Nat /\ Owing(d, t) \in Nat /\ Owing(d, t)' = Owing(d, t)
      BY <1>1, <1>13, BoundsAssumption DEF WorkOK, Advances, Owing
    <3> QED BY <1>13, <3>1, <3>2, <3>3 DEF InTime
  <2> QED BY <2>1, <2>2 DEF WorkOK
<1>14. ASSUME NEW u \in Tasks, Resume(u) PROVE WorkOK(past)'
  <2>1. u \notin Mine
    BY <1>1, <1>14 DEF Resume, NobodyElsewhere
  <2>2. (\A t \in Mine : pc'[t] = pc[t]) /\ UNCHANGED <<drv, calls>>
    BY <1>1, <1>14, <2>1 DEF Resume
  <2> QED BY <1>1, <1>13, <2>2
<1>15. CASE CallAt \/ CancelCall
  <2>1. UNCHANGED <<pc, drv>> /\ calls' \in {calls, calls + 1} /\ calls' <= MaxCalls
    BY <1>1, <1>15 DEF CallAt, CancelCall
  <2> QED BY <1>13, <2>1
<1> QED BY <1>2, <1>3, <1>4, <1>5, <1>6, <1>7, <1>8, <1>11, <1>12, <1>14, <1>15 DEF Next, Drive

LEMMA WorkInit == ASSUME Init, NEW past PROVE WorkOK(past)
  BY BoundsAssumption DEF Init, Idle, WorkOK, NobodyElsewhere, InTime, Mine

\* Time moves only when a driver serves, and then nobody has work.
LEMMA WorkDone ==
    ASSUME TypeOK, NEW past \in BOOLEAN, WorkOK(past), [Next]_vars, now' # now
    PROVE  (Tasks \ External) \cap Runnable(pc) = {}
<1>1. PICK d \in Drivers : drv[d].phase = "serve"
  <2>1. \E d \in Drivers : ServeCurrent(d) \/ ServeNext(d) \/ NoneDue(d)
    <3>1. ~UNCHANGED vars /\ ~CallAt /\ ~CancelCall
      BY DEF vars, CallAt, CancelCall
    <3>2. ASSUME NEW t \in Tasks PROVE ~(Step(t) \/ Resume(t) \/ CancelEarly(t) \/ CancelSleep(t))
      BY DEF Step, Run, SleepStep, WaitPast, Park, Resume, CancelEarly, CancelSleep
    <3>3. ASSUME NEW d \in Drivers PROVE ~(Begin(d) \/ Checkpoint(d) \/ HookIdle(d) \/ HookBusy(d) \/ Abort(d))
      BY DEF Begin, Checkpoint, HookIdle, HookBusy, Abort
    <3> QED BY <3>1, <3>2, <3>3 DEF Next, Drive
  <2> QED BY <2>1 DEF ServeCurrent, ServeNext, NoneDue
<1>2. ASSUME NEW t \in Mine PROVE t \notin Runnable(pc)
  <2>1. Hops(pc[t], calls, past) = 0
    BY <1>1 DEF WorkOK, InTime
  <2> QED BY <2>1, HopsType DEF Runnable, WorkOK, NobodyElsewhere, TypeOK
<1> QED BY <1>2 DEF Mine

\* With a settle() hook on every advance (so that a settle precedes the first
\* wake) and rounds enough for every call, time never moves while a task that
\* only uses the clock still has work at the present instant: the settle_rounds
\* of _settle cover its checkpoints in sleep() and wait_until(), also those of
\* calls that return at once.
THEOREM TimeWaits ==
    ASSUME Hooked, EnoughRounds(TRUE) PROVE Spec => TimeWaitsForWork
<1> DEFINE W == WorkOK(TRUE)
<1>1. Init => W
  BY WorkInit
<1>2. TypeOK /\ OneDriver /\ W /\ TypeOK' /\ [Next]_vars => W'
  BY WorkStep
<1>3. TypeOK /\ W /\ [Next]_vars => [now' # now => (Tasks \ External) \cap Runnable(pc) = {}]_vars
  BY WorkDone
<1> HIDE DEF W
<1> QED BY <1>1, <1>2, <1>3, TypeCorrect, OneDriverAlways, PTL DEF Spec, TimeWaitsForWork

\* Three settle_rounds do, however many calls are made, as long as no task makes
\* a call that returns at once: a wake, the checkpoint of sleep(), the checkpoint
\* of wait_until().
THEOREM ThreeRoundsDo ==
    ASSUME Hooked, Rounds >= 3
    PROVE  Spec /\ [][\A t \in Mine : ~AtOnce(t)]_vars => TimeWaitsForWork
<1> DEFINE W == WorkOK(FALSE)
           Q == \A t \in Mine : ~AtOnce(t)
<1>0. EnoughRounds(FALSE)
  BY BoundsAssumption DEF EnoughRounds
<1>1. Init => W
  BY WorkInit
<1>2. TypeOK /\ OneDriver /\ W /\ TypeOK' /\ [Next]_vars /\ [Q]_vars => W'
  <2>1. ASSUME TypeOK, OneDriver, W, TypeOK', Next, Q PROVE W'
    BY <1>0, <2>1, WorkStep
  <2>2. ASSUME W, UNCHANGED vars PROVE W'
    BY <2>2 DEF vars, WorkOK, NobodyElsewhere, InTime, Owing
  <2> QED BY <2>1, <2>2
<1>3. TypeOK /\ W /\ [Next]_vars => [now' # now => (Tasks \ External) \cap Runnable(pc) = {}]_vars
  BY WorkDone
<1> HIDE DEF W, Q
<1>4. Spec /\ [][Q]_vars => TimeWaitsForWork
  BY <1>1, <1>2, <1>3, TypeCorrect, OneDriverAlways, PTL DEF Spec, TimeWaitsForWork
<1> QED BY <1>4 DEF Q

=============================================================================
