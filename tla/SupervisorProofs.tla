--------------------------- MODULE SupervisorProofs ---------------------------
(***************************************************************************)
(* What Supervisor guarantees for any number of daemons, stop() callers and *)
(* restarts.                                                                *)
(***************************************************************************)
EXTENDS Supervisor, FiniteSetTheorems, TLAPS

\* The type invariant without its last word: that the count never goes below
\* zero is a consequence of what it counts.
Shape ==
    /\ onError \in Policies
    /\ owner \in {"before", "inside", "leaving", "after"}
    /\ cancelled \in BOOLEAN /\ stopEvent \in BOOLEAN /\ allDone \in BOOLEAN
    /\ record \in [Daemons -> Records]
    /\ at \in [Daemons -> Places]
    /\ cause \in [Daemons -> {"none", "error", "fatal", "cancelled"}]
    /\ scope \in [Daemons -> BOOLEAN]
    /\ cleanup \in [Daemons -> {"none", "owed", "begun", "over", "cut", "broken"}]
    /\ stopper \in [Stoppers -> {"idle", "waiting"}]
    /\ waiter \in [Waiters -> SUBSET Daemons]

\* The count, and whoever waits in stop().
Waiting == \E s \in Stoppers : stopper[s] = "waiting"
Counting ==
    /\ active = Cardinality(Hosted)
    /\ Waiting => stopEvent
    /\ Waiting /\ Hosted = {} => allDone
    /\ owner = "before" => \A d \in Daemons : at[d] \in {"absent", "pending"}

\* One host: its record and its cleanup against where it is.
HostOK(d) ==
    LET r == record[d]
    IN  /\ at[d] \in {"absent", "pending", "on_start"} => r.state = "starting" /\ cleanup[d] = "none"
        /\ at[d] = "run" => r.state = "running" /\ r.startedAt /\ cleanup[d] = "owed"
        /\ at[d] = "on_stop" => r.state \in {"starting", "running"} /\ cleanup[d] = "begun"
        /\ at[d] = "shielded" => /\ r.state = "running" /\ r.startedAt /\ cleanup[d] = "begun"
                                 /\ cause[d] # "none" /\ (cause[d] = "cancelled" => cancelled)
        /\ at[d] = "backoff" => r.state = "restarting" /\ onError = "restart" /\ cleanup[d] \in {"none", "over"}
        /\ at[d] = "exited" => /\ r.started /\ cleanup[d] \in {"none", "over", "cut", "broken"}
                               /\ \/ r.state \in {"stopped", "failed", "restarting"}
                                  \/ r.state = "running" /\ cleanup[d] = "broken"
                               /\ ~cancelled => r.state = "stopped"
                               /\ r.state = "failed" => cancelled /\ r.error # "none"
        /\ r.state # "failed" /\ r.error # "none" => Tolerates(r)

Inv == Shape /\ Counting /\ \A d \in Daemons : HostOK(d)

-----------------------------------------------------------------------------
\* A daemon stays or leaves the set of hosts; the count follows (_host,
\* _on_daemon_exit).
LEMMA HostedFinite == IsFiniteSet(Hosted) /\ Cardinality(Hosted) \in Nat
<1>1. Hosted \in SUBSET Daemons
  BY DEF Hosted
<1> QED BY <1>1, DaemonsAssumption, FS_Subset, FS_CardinalityType

LEMMA OneLessHosted ==
    ASSUME Counting, NEW d \in Hosted, Hosted' = Hosted \ {d}, active' = active - 1
    PROVE  active' = Cardinality(Hosted') /\ (Hosted' = {} => active' = 0)
  BY HostedFinite, FS_RemoveElement, FS_EmptySet DEF Counting

LEMMA Unmoved ==
    ASSUME Shape, NEW d \in Hosted, NEW p \in Places \ {"absent", "pending", "exited"}, at' = [at EXCEPT ![d] = p]
    PROVE  Hosted' = Hosted
  BY DEF Shape, Hosted

LEMMA Moved ==
    ASSUME Shape, NEW d \in Hosted, at' = [at EXCEPT ![d] = "exited"]
    PROVE  Hosted' = Hosted \ {d}
  BY DEF Shape, Hosted

\* The counting part survives every step that leaves the hosts, their count and
\* the stoppers as they are.
LEMMA SameHosts ==
    ASSUME Counting, Hosted' = Hosted, UNCHANGED <<active, stopper, allDone>>,
           stopEvent => stopEvent', owner' # "before"
    PROVE  Counting'
  BY DEF Counting, Waiting

\* Only d moves: the others' part of the invariant stands.
LEMMA OneHost ==
    ASSUME Inv, NEW d \in Daemons, HostOK(d)', onError' = onError, cancelled => cancelled', stopEvent => stopEvent',
           \A e \in Daemons \ {d} : /\ at'[e] = at[e] /\ record'[e] = record[e]
                                    /\ cause'[e] = cause[e] /\ cleanup'[e] = cleanup[e]
    PROVE  \A e \in Daemons : HostOK(e)'
<1> SUFFICES ASSUME NEW e \in Daemons \ {d} PROVE HostOK(e)'
  OBVIOUS
<1>1. HostOK(e)
  BY DEF Inv
<1>2. Tolerates(record[e]) => Tolerates(record[e])'
  BY DEF Tolerates
<1> QED BY <1>1, <1>2 DEF HostOK

-----------------------------------------------------------------------------
\* A host ends with record r: what _host and _on_daemon_exit must have done.
LEMMA ExitStep ==
    ASSUME Inv, NEW d \in Hosted, NEW r \in Records, NEW raises \in BOOLEAN,
           NEW k \in {"none", "over", "cut", "broken"},
           Exit(d, r, raises), cleanup' = [cleanup EXCEPT ![d] = k],
           UNCHANGED <<onError, owner, stopper, waiter>>,
           ~cancelled /\ ~raises => r.state = "stopped",
           r.state = "failed" => raises /\ r.error # "none",
           r.state \in {"stopped", "failed", "restarting"} \/ (r.state = "running" /\ k = "broken"),
           r.state # "failed" /\ r.error # "none" => Tolerates(r)
    PROVE  Inv'
<1>1. d \in Daemons
  BY DEF Hosted
<1>2. ReleaseBarrier(r) \in Records /\ ReleaseBarrier(r).started
      /\ ReleaseBarrier(r).state = r.state /\ ReleaseBarrier(r).error = r.error
  BY DEF ReleaseBarrier, Records
<1>3. Shape'
  <2>1. cancelled' \in BOOLEAN /\ allDone' \in BOOLEAN
    BY DEF Inv, Shape, Exit, DoneNow
  <2>2. record' \in [Daemons -> Records]
    BY <1>2 DEF Inv, Shape, Exit
  <2>3. at' \in [Daemons -> Places]
    BY DEF Inv, Shape, Exit, Places, Phases
  <2> QED BY <2>1, <2>2, <2>3 DEF Inv, Shape, Exit, Fresh
<1>4. Counting'
  <2>1. Hosted' = Hosted \ {d}
    BY Moved DEF Inv, Exit
  <2>2. active' = Cardinality(Hosted') /\ (Hosted' = {} => active' = 0)
    BY <2>1, OneLessHosted DEF Inv, Exit, OneLess
  <2>3. Waiting' => stopEvent'
    BY DEF Inv, Counting, Exit, Waiting
  <2>4. Waiting' /\ Hosted' = {} => allDone'
    BY <2>2, <2>3 DEF Exit, DoneNow
  <2>5. owner' # "before"
    BY <1>1 DEF Inv, Counting, Hosted
  <2> QED BY <2>2, <2>3, <2>4, <2>5 DEF Counting
<1>5. HostOK(d)'
  <2>1. at'[d] = "exited" /\ record'[d] = ReleaseBarrier(r) /\ cleanup'[d] = k
    BY <1>1 DEF Inv, Shape, Exit
  <2>2. cancelled' = (cancelled \/ raises)
    BY DEF Exit
  <2>3. Tolerates(r) => Tolerates(ReleaseBarrier(r))'
    <3>1. ReleaseBarrier(r).phase = r.phase /\ ReleaseBarrier(r).restarts = r.restarts
      BY DEF ReleaseBarrier, Records
    <3> QED BY <1>2, <3>1 DEF Tolerates, Exit
  <2> QED BY <1>2, <2>1, <2>2, <2>3 DEF HostOK
<1>6. \A e \in Daemons \ {d} : /\ at'[e] = at[e] /\ record'[e] = record[e]
                               /\ cause'[e] = cause[e] /\ cleanup'[e] = cleanup[e]
  BY DEF Inv, Shape, Exit, Fresh
<1>7. (cancelled => cancelled') /\ stopEvent' = stopEvent
  BY DEF Exit
<1> QED BY <1>1, <1>3, <1>4, <1>5, <1>6, <1>7, OneHost DEF Inv

\* What the policy may make of an exception (the except block of _host): the host
\* stops, orderly; it fails, for something the policy does not tolerate; or it
\* backs off, within max_retries.
LEMMA Policy ==
    ASSUME Shape, NEW d \in Daemons, NEW e \in {"error", "fatal", "cancelled"}, NEW p \in Phases, Handle(d, e, p)
    PROVE  \E r \in Records :
             \/ /\ Exit(d, r, FALSE) /\ r.state = "stopped"
                /\ r.error # "none" /\ (record[d].error # "none" => Tolerates(record[d])) => Tolerates(r)
             \/ Exit(d, r, TRUE) /\ r.state = "failed" /\ r.error # "none" /\ ~Tolerates(r)
             \/ /\ at' = [at EXCEPT ![d] = "backoff"] /\ record' = [record EXCEPT ![d] = r]
                /\ Fresh(d) /\ UNCHANGED <<cancelled, stopEvent, allDone, active>>
                /\ e = "error" /\ r.state = "restarting" /\ onError = "restart" /\ Tolerates(r)
                /\ MaxRetries = NoLimit \/ r.restarts \in 1..MaxRetries
<1>1. record[d] \in Records
  BY DEF Shape
<1> DEFINE failed == [record[d] EXCEPT !.error = e, !.phase = p, !.state = "failed"]
           stopped == [record[d] EXCEPT !.error = e, !.phase = p, !.state = "stopped"]
           ended == [record[d] EXCEPT !.state = "stopped"]
           n == Counted(record[d].restarts)
           again == [failed EXCEPT !.restarts = n, !.state = "restarting"]
           given == [failed EXCEPT !.restarts = n]
<1>2. n \in Nat /\ (MaxRetries # NoLimit => n >= 1)
  BY <1>1 DEF Counted, Records
<1>3. ended \in Records /\ ended.state = "stopped"
      /\ ended.error = record[d].error /\ ended.phase = record[d].phase /\ ended.restarts = record[d].restarts
  BY <1>1 DEF Records
<1>4. ASSUME e # "cancelled"
      PROVE  /\ failed \in Records /\ failed.state = "failed" /\ failed.error = e /\ failed.phase = p
             /\ stopped \in Records /\ stopped.state = "stopped" /\ stopped.error = e /\ stopped.phase = p
             /\ given \in Records /\ given.state = "failed" /\ given.error = e /\ given.phase = p /\ given.restarts = n
             /\ again \in Records /\ again.state = "restarting" /\ again.error = e /\ again.phase = p /\ again.restarts = n
  BY <1>1, <1>2, <1>4 DEF Records
<1>5. \/ e = "cancelled" /\ Exit(d, ended, FALSE)
      \/ e = "fatal" /\ Exit(d, failed, TRUE)
      \/ e = "error" /\ Terminal(p) /\ Exit(d, failed, TRUE)
      \/ e = "error" /\ ~Terminal(p) /\ (onError = "ignore" \/ stopEvent) /\ Exit(d, stopped, FALSE)
      \/ /\ e = "error" /\ ~Terminal(p) /\ onError = "restart" /\ ~stopEvent
         /\ IF Exceeded(n)
            THEN Exit(d, given, TRUE)
            ELSE /\ at' = [at EXCEPT ![d] = "backoff"] /\ record' = [record EXCEPT ![d] = again]
                 /\ Fresh(d) /\ UNCHANGED <<cancelled, stopEvent, allDone, active>>
  BY DEF Handle, MayRetry
<1>6. onError \in {"shutdown", "restart", "ignore"}
  BY PoliciesAssumption DEF Shape
<1> HIDE DEF failed, stopped, ended, n, again, given
<1>7. CASE e = "cancelled" /\ Exit(d, ended, FALSE)
  BY <1>3, <1>7 DEF Tolerates
<1>8. CASE e = "fatal" /\ Exit(d, failed, TRUE)
  BY <1>4, <1>8 DEF Tolerates
<1>9. CASE e = "error" /\ Terminal(p) /\ Exit(d, failed, TRUE)
  BY <1>4, <1>9 DEF Tolerates, Terminal
<1>10. CASE e = "error" /\ ~Terminal(p) /\ (onError = "ignore" \/ stopEvent) /\ Exit(d, stopped, FALSE)
  BY <1>4, <1>6, <1>10 DEF Tolerates, Terminal
<1>11. CASE /\ e = "error" /\ ~Terminal(p) /\ onError = "restart" /\ ~stopEvent
            /\ Exceeded(n) /\ Exit(d, given, TRUE)
  <2>1. MaxRetries # NoLimit /\ ~(n <= MaxRetries)
    BY <1>2, <1>11, RetriesAssumption DEF Exceeded
  <2>2. ~Tolerates(given)
    BY <1>4, <1>11, <2>1 DEF Tolerates
  <2> QED BY <1>4, <1>11, <2>2
<1>12. CASE /\ e = "error" /\ ~Terminal(p) /\ onError = "restart" /\ ~stopEvent
            /\ ~Exceeded(n) /\ at' = [at EXCEPT ![d] = "backoff"] /\ record' = [record EXCEPT ![d] = again]
            /\ Fresh(d) /\ UNCHANGED <<cancelled, stopEvent, allDone, active>>
  <2>1. MaxRetries = NoLimit \/ (n \in 1..MaxRetries /\ n <= MaxRetries)
    BY <1>2, <1>12, RetriesAssumption DEF Exceeded
  <2>2. Tolerates(again)
    BY <1>4, <1>12, <2>1 DEF Tolerates, Terminal
  <2> QED BY <1>4, <1>12, <2>1, <2>2
<1> QED BY <1>5, <1>7, <1>8, <1>9, <1>10, <1>11, <1>12

\* The policy applied to an exception of phase p: the host ends or backs off.
LEMMA HandleStep ==
    ASSUME Inv, NEW d \in Hosted, NEW e \in {"error", "fatal", "cancelled"}, NEW p \in Phases,
           NEW k \in {"none", "over", "cut"}, k = "cut" => e = "cancelled",
           e = "cancelled" => cancelled,
           Handle(d, e, p), cleanup' = [cleanup EXCEPT ![d] = k],
           UNCHANGED <<onError, owner, stopper, waiter>>
    PROVE  Inv'
<1>1. d \in Daemons /\ (record[d].error # "none" => Tolerates(record[d]))
  <2>1. d \in Daemons /\ HostOK(d) /\ at[d] \in Places /\ at[d] \notin {"absent", "pending", "exited"}
    BY DEF Hosted, Inv, Shape
  <2> QED BY <2>1 DEF HostOK, Places, Phases
<1>2. PICK r \in Records :
             \/ /\ Exit(d, r, FALSE) /\ r.state = "stopped"
                /\ r.error # "none" /\ (record[d].error # "none" => Tolerates(record[d])) => Tolerates(r)
             \/ Exit(d, r, TRUE) /\ r.state = "failed" /\ r.error # "none" /\ ~Tolerates(r)
             \/ /\ at' = [at EXCEPT ![d] = "backoff"] /\ record' = [record EXCEPT ![d] = r]
                /\ Fresh(d) /\ UNCHANGED <<cancelled, stopEvent, allDone, active>>
                /\ e = "error" /\ r.state = "restarting" /\ onError = "restart" /\ Tolerates(r)
  BY <1>1, Policy DEF Inv
<1>3. CASE Exit(d, r, FALSE) /\ r.state = "stopped" /\ (r.error # "none" => Tolerates(r))
  BY <1>3, ExitStep
<1>4. CASE Exit(d, r, TRUE) /\ r.state = "failed" /\ r.error # "none"
  BY <1>4, ExitStep
<1>5. ASSUME at' = [at EXCEPT ![d] = "backoff"], record' = [record EXCEPT ![d] = r],
             Fresh(d), UNCHANGED <<cancelled, stopEvent, allDone, active>>,
             e = "error", r.state = "restarting", onError = "restart", Tolerates(r)
       PROVE  Inv'
  <2>1. Shape'
    BY <1>5 DEF Inv, Shape, Fresh, Places
  <2>2. Counting'
    <3>1. Hosted' = Hosted
      BY <1>5, Unmoved DEF Inv, Places
    <3>2. owner' # "before"
      BY <1>1 DEF Inv, Counting, Hosted
    <3> QED BY <1>5, <3>1, <3>2, SameHosts DEF Inv
  <2>3. HostOK(d)'
    <3>1. at'[d] = "backoff" /\ record'[d] = r /\ cleanup'[d] = k
      BY <1>1, <1>5 DEF Inv, Shape
    <3>2. Tolerates(record[d])'
      BY <1>5, <3>1 DEF Tolerates
    <3> QED BY <1>5, <3>1, <3>2 DEF HostOK
  <2>4. \A x \in Daemons \ {d} : /\ at'[x] = at[x] /\ record'[x] = record[x]
                                 /\ cause'[x] = cause[x] /\ cleanup'[x] = cleanup[x]
    BY <1>5 DEF Inv, Shape, Fresh
  <2> QED BY <1>1, <1>5, <2>1, <2>2, <2>3, <2>4, OneHost DEF Inv
<1> QED BY <1>1, <1>2, <1>3, <1>4, <1>5

\* on_stop is called, shielded or not: the host goes on.
LEMMA CleanStep ==
    ASSUME Inv, NEW d \in Hosted, NEW where \in {"on_stop", "shielded"},
           NEW e \in {"none", "error", "fatal", "cancelled"},
           Clean(d, where, e), UNCHANGED <<onError, owner, stopper, waiter>>,
           record[d].state \in {"starting", "running"},
           where = "shielded" => at[d] = "run" /\ e # "none" /\ (e = "cancelled" => cancelled)
    PROVE  Inv'
<1>1. d \in Daemons
  BY DEF Hosted
<1>2. Shape'
  <2>1. at' \in [Daemons -> Places]
    BY DEF Inv, Shape, Clean, Places, Phases
  <2> QED BY <2>1 DEF Inv, Shape, Clean
<1>3. Counting'
  <2>1. Hosted' = Hosted
    BY Unmoved DEF Inv, Clean, Places, Phases
  <2>2. owner' # "before"
    BY <1>1 DEF Inv, Counting, Hosted
  <2> QED BY <2>1, <2>2, SameHosts DEF Inv, Clean
<1>4. HostOK(d)'
  <2>1. at'[d] = where /\ cause'[d] = e /\ cleanup'[d] = "begun" /\ record'[d] = record[d] /\ cancelled' = cancelled
    BY <1>1 DEF Inv, Shape, Clean
  <2>2. HostOK(d)
    BY <1>1 DEF Inv
  <2>3. Tolerates(record[d]) => Tolerates(record[d])'
    BY <2>1 DEF Tolerates, Clean
  <2>4. at[d] # "exited" /\ record[d].state # "failed"
    BY DEF Hosted
  <2> QED BY <2>1, <2>2, <2>3, <2>4 DEF HostOK
<1>5. \A x \in Daemons \ {d} : /\ at'[x] = at[x] /\ record'[x] = record[x]
                               /\ cause'[x] = cause[x] /\ cleanup'[x] = cleanup[x]
  BY DEF Inv, Shape, Clean
<1>6. cancelled' = cancelled /\ stopEvent' = stopEvent
  BY DEF Clean
<1> QED BY <1>1, <1>2, <1>3, <1>4, <1>5, <1>6, OneHost DEF Inv

\* An exception leaves a hook.
LEMMA ExceptStep ==
    ASSUME Inv, NEW d \in Daemons, at[d] \in Phases, NEW e \in {"error", "fatal", "cancelled"},
           NEW how \in {"over", "cut"}, how = "cut" => e = "cancelled", e = "cancelled" => cancelled,
           Except(d, e, how), UNCHANGED <<onError, owner, stopper, waiter>>
    PROVE  Inv'
<1>1. d \in Hosted /\ HostOK(d)
  BY DEF Inv, Hosted, Phases
<1>2. CASE OnStopOwed(d) /\ Clean(d, "shielded", e)
  <2>1. at[d] = "run" /\ record[d].state \in {"starting", "running"}
    BY <1>1, <1>2 DEF OnStopOwed, HostOK
  <2> QED BY <1>1, <1>2, <2>1, CleanStep
<1>3. CASE /\ ~OnStopOwed(d) /\ Handle(d, e, at[d])
           /\ cleanup' = [cleanup EXCEPT ![d] = IF at[d] = "on_stop" THEN how ELSE cleanup[d]]
  <2> DEFINE k == IF at[d] = "on_stop" THEN how ELSE cleanup[d]
  <2>1. k \in {"none", "over", "cut"} /\ (k = "cut" => e = "cancelled")
    BY <1>1, <1>3 DEF OnStopOwed, HostOK, Phases
  <2>2. cleanup' = [cleanup EXCEPT ![d] = k]
    BY <1>3
  <2> HIDE DEF k
  <2> QED BY <1>1, <1>3, <2>1, <2>2, HandleStep
<1> QED BY <1>2, <1>3 DEF Except

\* Steps of the owner and of callers leave the hosts alone.
LEMMA Bystander ==
    ASSUME Inv, UNCHANGED <<onError, record, at, cause, cleanup>>, cancelled => cancelled', stopEvent => stopEvent'
    PROVE  \A d \in Daemons : HostOK(d)'
<1> SUFFICES ASSUME NEW d \in Daemons PROVE HostOK(d)'
  OBVIOUS
<1>1. HostOK(d)
  BY DEF Inv
<1>2. Tolerates(record[d]) => Tolerates(record[d])'
  BY DEF Tolerates
<1> QED BY <1>1, <1>2 DEF HostOK

LEMMA InvInit == Init => Inv
<1> SUFFICES ASSUME Init PROVE Inv
  OBVIOUS
<1>1. NoRecord \in Records /\ NoRecord.state = "starting" /\ NoRecord.error = "none"
  BY DEF NoRecord, Records
<1>2. Shape
  BY <1>1 DEF Init, Shape, Places
<1>3. Hosted = {}
  BY DEF Init, Hosted
<1>4. Counting
  BY <1>3, FS_EmptySet DEF Init, Counting, Waiting
<1>5. \A d \in Daemons : HostOK(d)
  BY <1>1 DEF Init, HostOK
<1> QED BY <1>2, <1>4, <1>5 DEF Inv

\* The owner's steps and calls.
LEMMA GroupStep ==
    ASSUME Inv, \/ Enter \/ Leave \/ Join \/ CancelOutside \/ SignalStop
                \/ \E s \in Stoppers : Stop(s) \/ StopReturns(s)
                \/ \E w \in Waiters : WaitStarted(w) \/ AllStarted(w)
    PROVE  Inv'
<1>1. CASE Enter
  <2>1. \A d \in Daemons : at[d] \in {"absent", "pending"}
    BY <1>1 DEF Enter, Inv, Counting
  <2>2. Hosted = {} /\ Hosted' = Known
    BY <1>1, <2>1 DEF Enter, Hosted, Known
  <2>3. active' = Cardinality(Hosted')
    <3>1. Cardinality(Hosted') \in Nat
      BY <2>2, DaemonsAssumption, FS_Subset, FS_CardinalityType DEF Known
    <3>2. active = 0
      BY <2>2, FS_EmptySet DEF Inv, Counting
    <3> QED BY <1>1, <2>2, <3>1, <3>2 DEF Enter
  <2>4. Counting'
    BY <1>1, <2>2, <2>3 DEF Enter, Inv, Counting, Waiting
  <2>5. Shape'
    BY <1>1 DEF Enter, Inv, Shape, Places, Phases
  <2>6. ASSUME NEW d \in Daemons PROVE HostOK(d)'
    <3>1. HostOK(d) /\ at'[d] \in {"absent", "on_start"} /\ record' = record /\ cleanup' = cleanup
      BY <1>1, <2>1 DEF Enter, Inv
    <3>2. Tolerates(record[d]) => Tolerates(record[d])'
      BY <1>1 DEF Enter, Tolerates
    <3> QED BY <2>1, <3>1, <3>2 DEF HostOK
  <2> QED BY <2>4, <2>5, <2>6 DEF Inv
<1>2. CASE Leave \/ Join \/ CancelOutside \/ SignalStop
  <2>1. UNCHANGED <<onError, active, allDone, daemon, stopper, waiter>> /\ (cancelled => cancelled')
        /\ (stopEvent => stopEvent') /\ owner' # "before"
    BY <1>2 DEF Leave, Join, CancelOutside, SignalStop, Inv, Shape
  <2>2. Shape'
    BY <1>2, <2>1 DEF Leave, Join, CancelOutside, SignalStop, Inv, Shape, daemon
  <2>3. Counting'
    BY <2>1, SameHosts DEF Inv, Hosted, daemon
  <2>4. \A d \in Daemons : HostOK(d)'
    BY <2>1, Bystander DEF daemon
  <2> QED BY <2>2, <2>3, <2>4 DEF Inv
<1>3. ASSUME NEW s \in Stoppers, Stop(s) PROVE Inv'
  <2>1. UNCHANGED <<onError, owner, allDone, active, daemon, waiter>> /\ stopEvent' = TRUE
    BY <1>3 DEF Stop
  <2>2. cancelled' \in BOOLEAN /\ (cancelled => cancelled')
    <3>1. cancelled' = cancelled \/ cancelled' = Forced
      BY <1>3 DEF Stop
    <3>2. Forced \in BOOLEAN /\ (cancelled => Forced)
      BY DEF Forced
    <3> QED BY <3>1, <3>2 DEF Inv, Shape
  <2>4. Shape'
    BY <1>3, <2>1, <2>2 DEF Stop, Inv, Shape, daemon
  <2>5. Counting'
    <3>1. Hosted' = Hosted
      BY <2>1 DEF Hosted, daemon
    <3>2. Waiting' => Waiting \/ active # 0
      BY <1>3 DEF Stop, Waiting
    <3>3. active # 0 => Hosted # {}
      BY FS_EmptySet DEF Inv, Counting
    <3>4. owner # "before"
      BY <1>3 DEF Stop
    <3> QED BY <2>1, <3>1, <3>2, <3>3, <3>4 DEF Inv, Counting
  <2> QED BY <2>1, <2>2, <2>4, <2>5, Bystander DEF Inv, daemon
<1>4. ASSUME NEW s \in Stoppers, StopReturns(s) PROVE Inv'
  <2>1. UNCHANGED <<onError, owner, stopEvent, allDone, active, daemon, waiter>>
    BY <1>4 DEF StopReturns
  <2>2. cancelled' \in BOOLEAN /\ (cancelled => cancelled')
    <3>1. cancelled' = Forced
      BY <1>4 DEF StopReturns
    <3>2. Forced \in BOOLEAN /\ (cancelled => Forced)
      BY DEF Forced
    <3> QED BY <3>1, <3>2
  <2>3. Shape'
    BY <1>4, <2>1, <2>2 DEF StopReturns, Inv, Shape, daemon
  <2>4. Counting'
    <3>1. Waiting' => Waiting
      BY <1>4 DEF StopReturns, Waiting, Inv, Shape
    <3> QED BY <2>1, <3>1 DEF Inv, Counting, Hosted, daemon
  <2> QED BY <2>1, <2>2, <2>3, <2>4, Bystander DEF Inv, daemon
<1>5. ASSUME NEW w \in Waiters, WaitStarted(w) \/ AllStarted(w) PROVE Inv'
  <2>1. UNCHANGED <<onError, group, daemon, stopper>>
    BY <1>5 DEF WaitStarted, AllStarted
  <2>2. Shape'
    BY <1>5, <2>1 DEF WaitStarted, AllStarted, Known, Inv, Shape, group, daemon
  <2>3. Counting'
    BY <2>1 DEF Inv, Counting, Waiting, Hosted, group, daemon
  <2> QED BY <2>1, <2>2, <2>3, Bystander DEF Inv, daemon, group
<1> QED BY <1>1, <1>2, <1>3, <1>4, <1>5

\* The steps of one daemon.
LEMMA DaemonStep ==
    ASSUME Inv, NEW d \in Daemons, Add(d) \/ CancelScope(d) \/ Host(d)
    PROVE  Inv'
<1>0. HostOK(d) /\ record[d] \in Records /\ at[d] \in Places
  BY DEF Inv, Shape
<1>1. CASE Add(d)
  <2>1. at[d] = "absent" /\ UNCHANGED <<onError, owner, cancelled, stopEvent, allDone, record, cause, scope, cleanup, stopper, waiter>>
    BY <1>1 DEF Add
  <2>2. \/ owner = "inside" /\ at' = [at EXCEPT ![d] = "on_start"] /\ active' = active + 1
        \/ owner # "inside" /\ at' = [at EXCEPT ![d] = "pending"] /\ active' = active
    BY <1>1 DEF Add
  <2>3. Shape'
    BY <2>1, <2>2 DEF Inv, Shape, Places, Phases
  <2>4. Counting'
    <3>1. CASE owner = "inside" /\ at' = [at EXCEPT ![d] = "on_start"] /\ active' = active + 1
      <4>1. Hosted' = Hosted \cup {d} /\ d \notin Hosted
        BY <2>1, <3>1 DEF Inv, Shape, Hosted
      <4>2. active' = Cardinality(Hosted')
        BY <3>1, <4>1, HostedFinite, FS_AddElement DEF Inv, Counting
      <4> QED BY <2>1, <3>1, <4>1, <4>2 DEF Inv, Counting, Waiting
    <3>2. CASE owner # "inside" /\ at' = [at EXCEPT ![d] = "pending"] /\ active' = active
      <4>1. Hosted' = Hosted
        BY <2>1, <3>2 DEF Inv, Shape, Hosted
      <4>2. owner' = "before" => \A x \in Daemons : at'[x] \in {"absent", "pending"}
        BY <2>1, <3>2 DEF Inv, Shape, Counting
      <4> QED BY <2>1, <3>2, <4>1, <4>2 DEF Inv, Counting, Waiting
    <3> QED BY <2>2, <3>1, <3>2
  <2>5. HostOK(d)'
    <3>1. at'[d] \in {"on_start", "pending"}
      BY <2>2 DEF Inv, Shape
    <3>2. Tolerates(record[d]) => Tolerates(record[d])'
      BY <2>1 DEF Tolerates
    <3> QED BY <1>0, <2>1, <3>1, <3>2 DEF HostOK
  <2>6. \A x \in Daemons \ {d} : at'[x] = at[x]
    BY <2>2 DEF Inv, Shape
  <2> QED BY <2>1, <2>3, <2>4, <2>5, <2>6, OneHost DEF Inv
<1>2. CASE CancelScope(d)
  <2>1. UNCHANGED <<onError, group, record, at, cause, cleanup, stopper, waiter>>
    BY <1>2 DEF CancelScope
  <2>2. Shape'
    BY <1>2, <2>1 DEF CancelScope, Inv, Shape, group
  <2>3. Counting'
    BY <2>1 DEF Inv, Counting, Waiting, Hosted, group
  <2> QED BY <2>1, <2>2, <2>3, Bystander DEF Inv, group
<1>3. CASE OnStartReturns(d)
  <2> DEFINE r == [record[d] EXCEPT !.state = "running", !.startedAt = TRUE, !.started = TRUE]
  <2>1. r \in Records /\ r.state = "running" /\ r.startedAt
        /\ r.error = record[d].error /\ r.phase = record[d].phase /\ r.restarts = record[d].restarts
    BY <1>0 DEF Records
  <2>2. at[d] = "on_start" /\ at' = [at EXCEPT ![d] = "run"] /\ record' = [record EXCEPT ![d] = r]
        /\ cleanup' = [cleanup EXCEPT ![d] = "owed"] /\ UNCHANGED <<onError, group, cause, scope, stopper, waiter>>
    BY <1>3 DEF OnStartReturns
  <2> HIDE DEF r
  <2>3. Shape'
    BY <2>1, <2>2 DEF Inv, Shape, Places, Phases, group
  <2>4. Counting'
    <3>1. d \in Hosted
      BY <2>2 DEF Hosted
    <3>2. Hosted' = Hosted
      BY <2>2, <3>1, Unmoved DEF Inv, Places, Phases
    <3>3. owner # "before"
      BY <3>1 DEF Inv, Counting, Hosted
    <3> QED BY <2>2, <3>2, <3>3, SameHosts DEF Inv, group
  <2>5. HostOK(d)'
    <3>1. at'[d] = "run" /\ record'[d] = r /\ cleanup'[d] = "owed"
      BY <2>2 DEF Inv, Shape
    <3>2. record[d].error # "none" => Tolerates(record[d])
      BY <1>0, <2>2 DEF HostOK
    <3>3. r.error # "none" => Tolerates(record[d])'
      BY <2>1, <2>2, <3>1, <3>2 DEF Tolerates, group
    <3> QED BY <2>1, <3>1, <3>3 DEF HostOK
  <2>6. \A x \in Daemons \ {d} : at'[x] = at[x] /\ record'[x] = record[x] /\ cleanup'[x] = cleanup[x]
    BY <2>2 DEF Inv, Shape
  <2> QED BY <2>2, <2>3, <2>4, <2>5, <2>6, OneHost DEF Inv, group
<1>4. CASE Retry(d)
  <2> DEFINE r == [record[d] EXCEPT !.state = "starting", !.startedAt = FALSE]
  <2>1. r \in Records /\ r.state = "starting"
        /\ r.error = record[d].error /\ r.phase = record[d].phase /\ r.restarts = record[d].restarts
    BY <1>0 DEF Records
  <2>2. at[d] = "backoff" /\ at' = [at EXCEPT ![d] = "on_start"] /\ record' = [record EXCEPT ![d] = r]
        /\ cleanup' = [cleanup EXCEPT ![d] = "none"] /\ UNCHANGED <<onError, group, cause, scope, stopper, waiter>>
    BY <1>4 DEF Retry
  <2> HIDE DEF r
  <2>3. Shape'
    BY <2>1, <2>2 DEF Inv, Shape, Places, Phases, group
  <2>4. Counting'
    <3>1. d \in Hosted
      BY <2>2 DEF Hosted
    <3>2. Hosted' = Hosted
      BY <2>2, <3>1, Unmoved DEF Inv, Places, Phases
    <3>3. owner # "before"
      BY <3>1 DEF Inv, Counting, Hosted
    <3> QED BY <2>2, <3>2, <3>3, SameHosts DEF Inv, group
  <2>5. HostOK(d)'
    <3>1. at'[d] = "on_start" /\ record'[d] = r /\ cleanup'[d] = "none"
      BY <2>2 DEF Inv, Shape
    <3>2. record[d].error # "none" => Tolerates(record[d])
      BY <1>0, <2>2 DEF HostOK
    <3>3. r.error # "none" => Tolerates(record[d])'
      BY <2>1, <2>2, <3>1, <3>2 DEF Tolerates, group
    <3> QED BY <2>1, <3>1, <3>3 DEF HostOK
  <2>6. \A x \in Daemons \ {d} : at'[x] = at[x] /\ record'[x] = record[x] /\ cleanup'[x] = cleanup[x]
    BY <2>2 DEF Inv, Shape
  <2> QED BY <2>2, <2>3, <2>4, <2>5, <2>6, OneHost DEF Inv, group
<1>5. CASE RunReturns(d)
  <2>1. d \in Hosted /\ record[d].state = "running"
    BY <1>0, <1>5 DEF RunReturns, Hosted, HostOK
  <2> QED BY <1>5, <2>1, CleanStep DEF RunReturns
<1>6. CASE ScopeCancelled(d)
  <2>1. d \in Hosted /\ record[d].state \in {"starting", "running"}
    BY <1>0, <1>6 DEF ScopeCancelled, Hosted, HostOK
  <2> QED BY <1>6, <2>1, CleanStep DEF ScopeCancelled
<1>7. CASE OnStopReturns(d)
  <2> DEFINE r == [record[d] EXCEPT !.state = "stopped"]
  <2>1. r \in Records /\ r.state = "stopped"
        /\ r.error = record[d].error /\ r.phase = record[d].phase /\ r.restarts = record[d].restarts
    BY <1>0 DEF Records
  <2>2. d \in Hosted /\ (record[d].error # "none" => Tolerates(record[d]))
    BY <1>0, <1>7 DEF OnStopReturns, Hosted, HostOK
  <2>3. Exit(d, r, FALSE) /\ cleanup' = [cleanup EXCEPT ![d] = "over"] /\ UNCHANGED <<onError, owner, stopper, waiter>>
    BY <1>7 DEF OnStopReturns
  <2> HIDE DEF r
  <2>4. r.error # "none" => Tolerates(r)
    BY <2>1, <2>2 DEF Tolerates
  <2> QED BY <2>1, <2>2, <2>3, <2>4, ExitStep
<1>8. CASE Raises(d)
  <2>1. PICK e \in {"error", "fatal"} : Except(d, e, "over")
    BY <1>8 DEF Raises
  <2> QED BY <1>8, <2>1, ExceptStep DEF Raises, Phases
<1>9. CASE GroupCancelled(d)
  <2>1. CASE at[d] \in Phases /\ Except(d, "cancelled", "cut")
    BY <1>9, <2>1, ExceptStep DEF GroupCancelled
  <2>2. CASE at[d] = "backoff" /\ Exit(d, record[d], FALSE) /\ UNCHANGED cleanup
    <3>1. d \in Hosted /\ cancelled /\ cleanup[d] \in {"none", "over"} /\ record[d].state = "restarting"
          /\ (record[d].error # "none" => Tolerates(record[d]))
      BY <1>0, <1>9, <2>2 DEF GroupCancelled, Hosted, HostOK
    <3>2. cleanup' = [cleanup EXCEPT ![d] = cleanup[d]]
      BY <2>2 DEF Inv, Shape
    <3> QED BY <1>0, <1>9, <2>2, <3>1, <3>2, ExitStep DEF GroupCancelled
  <2> QED BY <1>9, <2>1, <2>2 DEF GroupCancelled, Phases
<1>10. CASE ShieldedEnds(d)
  <2>1. d \in Hosted /\ cause[d] \in {"error", "fatal", "cancelled"} /\ (cause[d] = "cancelled" => cancelled)
    BY <1>0, <1>10 DEF ShieldedEnds, Hosted, HostOK, Inv, Shape
  <2> QED BY <1>10, <2>1, HandleStep DEF ShieldedEnds, Phases
<1>11. CASE ShieldedFatal(d)
  <2>1. d \in Hosted /\ record[d].state = "running" /\ (record[d].error # "none" => Tolerates(record[d]))
    BY <1>0, <1>11 DEF ShieldedFatal, Hosted, HostOK
  <2> QED BY <1>0, <1>11, <2>1, ExitStep DEF ShieldedFatal
<1> QED BY <1>1, <1>2, <1>3, <1>4, <1>5, <1>6, <1>7, <1>8, <1>9, <1>10, <1>11 DEF Host, Completes

LEMMA InvStep == Inv /\ [Next]_vars => Inv'
<1> SUFFICES ASSUME Inv, [Next]_vars PROVE Inv'
  OBVIOUS
<1>1. CASE Next
  BY <1>1, GroupStep, DaemonStep DEF Next
<1>2. CASE UNCHANGED vars
  <2>1. Shape' /\ Counting'
    BY <1>2 DEF Inv, Shape, Counting, Waiting, Hosted, vars, group, daemon
  <2> QED BY <1>2, <2>1, Bystander DEF Inv, vars, group, daemon
<1> QED BY <1>1, <1>2

-----------------------------------------------------------------------------
LEMMA AlwaysInv == Spec => []Inv
  BY InvInit, InvStep, PTL DEF Spec

\* Type correctness; that _active_count never goes below zero is in it.
THEOREM TypeCorrect == Spec => []TypeOK
<1>1. Inv => TypeOK
  BY HostedFinite DEF Inv, Shape, Counting, TypeOK
<1> QED BY <1>1, AlwaysInv, PTL

\* _active_count is the number of hosts that run (_host, _on_daemon_exit).
THEOREM CountIsRight == Spec => []CountInSync
<1>1. Inv => CountInSync
  BY DEF Inv, Counting, CountInSync
<1> QED BY <1>1, AlwaysInv, PTL

\* No stop() waits for an end that has already come (stop, _on_daemon_exit).
THEOREM NoStopMissed == Spec => []NoLostWakeup
<1>1. Inv => NoLostWakeup
  BY DEF Inv, Counting, Waiting, NoLostWakeup
<1> QED BY <1>1, AlwaysInv, PTL

\* snapshot() tells the truth about every host, while it runs and once it ended:
\* what is reported as an orderly stop was one, or was tolerated by the policy
\* (_DaemonRecord, _host).
THEOREM HealthIsTrue == Spec => []StateMatchesHost
<1>1. ASSUME Inv, NEW d \in Daemons
      PROVE  LET r == record[d]
             IN  /\ r.state = "failed" => at[d] = "exited" /\ cancelled /\ r.error # "none"
                 /\ r.state = "stopped" => at[d] = "exited" /\ (r.error # "none" => Tolerates(r))
                 /\ at[d] = "exited" => /\ r.started /\ (~cancelled => r.state = "stopped")
                                        /\ \/ r.state \in {"stopped", "failed", "restarting"}
                                           \/ r.state = "running" /\ cleanup[d] = "broken"
                 /\ at[d] \in {"run", "shielded"} => r.state = "running" /\ r.startedAt
                 /\ at[d] = "backoff" => r.state = "restarting" /\ onError = "restart"
  <2>1. HostOK(d) /\ at[d] \in Places
    BY <1>1 DEF Inv, Shape
  <2> QED BY <2>1 DEF HostOK, Places, Phases
<1>2. Inv => StateMatchesHost
  BY <1>1 DEF StateMatchesHost
<1> QED BY <1>2, AlwaysInv, PTL

\* If on_start succeeded, on_stop is attempted before the attempt is over (the
\* except block of _host), ...
THEOREM CleanupOwed == Spec => []OnStopAttempted
<1>1. Inv => OnStopAttempted
  <2> SUFFICES ASSUME Inv, NEW d \in Daemons, at[d] \in {"backoff", "exited", "on_start"}
               PROVE  cleanup[d] \notin {"owed", "begun"}
    BY DEF OnStopAttempted
  <2>1. HostOK(d)
    BY DEF Inv
  <2> QED BY <2>1 DEF HostOK
<1> QED BY <1>1, AlwaysInv, PTL

\* Whoever calls on_stop was in on_start or in run.
LEMMA OnStopFrom ==
    ASSUME Inv, Next, NEW d \in Daemons, at'[d] # at[d], at'[d] \in {"on_stop", "shielded"}
    PROVE  at[d] \in {"on_start", "run"}
<1>1. \E x \in Daemons : Host(x)
  <2>1. CASE Enter
    BY <2>1 DEF Enter
  <2>2. CASE UNCHANGED at
    BY <2>2
  <2>3. CASE \E x \in Daemons : Add(x)
    BY <2>3 DEF Add, Inv, Shape
  <2> QED BY <2>1, <2>2, <2>3 DEF Next, Leave, Join, CancelOutside, SignalStop, Stop, StopReturns,
                                  WaitStarted, AllStarted, CancelScope, daemon
<1>2. PICK x \in Daemons : Host(x)
  BY <1>1
<1>3. \/ at' = [at EXCEPT ![x] = "run"] \/ at' = [at EXCEPT ![x] = "exited"]
      \/ at' = [at EXCEPT ![x] = "backoff"] \/ at' = [at EXCEPT ![x] = "on_start"]
      \/ at[x] \in {"on_start", "run"} /\ \E p : at' = [at EXCEPT ![x] = p]
  <2>1. ASSUME NEW e, NEW how, Except(x, e, how)
        PROVE  \/ at' = [at EXCEPT ![x] = "exited"] \/ at' = [at EXCEPT ![x] = "backoff"]
               \/ at[x] = "run" /\ at' = [at EXCEPT ![x] = "shielded"]
    BY <2>1 DEF Except, OnStopOwed, Clean, Handle, Exit
  <2>2. CASE Raises(x) \/ GroupCancelled(x)
    BY <2>1, <2>2 DEF Raises, GroupCancelled, Exit
  <2>3. CASE ShieldedEnds(x) \/ ShieldedFatal(x)
    BY <2>3 DEF ShieldedEnds, ShieldedFatal, Handle, Exit
  <2>4. CASE OnStartReturns(x) \/ RunReturns(x) \/ OnStopReturns(x) \/ ScopeCancelled(x) \/ Retry(x)
    BY <2>4 DEF OnStartReturns, RunReturns, OnStopReturns, ScopeCancelled, Retry, Clean, Exit
  <2> QED BY <1>2, <2>2, <2>3, <2>4 DEF Host, Completes
<1> QED BY <1>3 DEF Inv, Shape

\* ... and never twice in one attempt (on_stop_started in _host).
THEOREM CleanupOnce == Spec => OnStopOnce
<1>1. ASSUME Inv, [Next]_vars
      PROVE  [\A d \in Daemons : at'[d] # at[d] /\ at'[d] \in {"on_stop", "shielded"} => cleanup[d] \in {"none", "owed"}]_vars
  <2> SUFFICES ASSUME Next, NEW d \in Daemons, at'[d] # at[d], at'[d] \in {"on_stop", "shielded"}
               PROVE  cleanup[d] \in {"none", "owed"}
    BY <1>1
  <2>1. at[d] \in {"on_start", "run"} /\ HostOK(d)
    BY <1>1, OnStopFrom DEF Inv
  <2> QED BY <2>1 DEF HostOK
<1> QED BY <1>1, AlwaysInv, PTL DEF Spec, OnStopOnce

-----------------------------------------------------------------------------
(* What one step of a host does to the group and to its own record.          *)

Effect(d) ==
    /\ \A x \in Daemons \ {d} : at'[x] = at[x] /\ record'[x] = record[x]
    /\ UNCHANGED <<owner, stopEvent, stopper>>
    /\ cancelled' # cancelled => \/ cleanup'[d] = "broken"
                                 \/ record'[d].state = "failed" /\ record'[d].error # "none" /\ ~Tolerates(record[d])'
    /\ allDone' # allDone => active' = 0 /\ stopEvent
    /\ at'[d] = "backoff" => MaxRetries = NoLimit \/ record'[d].restarts \in 1..MaxRetries

LEMMA ExitEffect ==
    ASSUME Shape, NEW d \in Daemons, NEW r \in Records, NEW raises \in BOOLEAN, Exit(d, r, raises),
           raises => cleanup'[d] = "broken" \/ (r.state = "failed" /\ r.error # "none" /\ ~Tolerates(r)),
           UNCHANGED <<onError, owner, stopper>>
    PROVE  Effect(d)
<1>1. ReleaseBarrier(r).state = r.state /\ ReleaseBarrier(r).error = r.error
      /\ ReleaseBarrier(r).phase = r.phase /\ ReleaseBarrier(r).restarts = r.restarts
  BY DEF ReleaseBarrier, Records
<1>2. /\ at'[d] = "exited" /\ record'[d] = ReleaseBarrier(r)
      /\ \A x \in Daemons \ {d} : at'[x] = at[x] /\ record'[x] = record[x]
  BY DEF Exit, Shape
<1>3. cancelled' # cancelled => raises
  BY DEF Exit, Shape
<1>4. allDone' # allDone => active' = 0 /\ stopEvent
  BY DEF Exit, DoneNow, Shape
<1>5. UNCHANGED stopEvent
  BY DEF Exit
<1>6. ~Tolerates(r) => ~Tolerates(record[d])'
  BY <1>1, <1>2, <1>5 DEF Tolerates
<1>7. raises => \/ cleanup'[d] = "broken"
                \/ record'[d].state = "failed" /\ record'[d].error # "none" /\ ~Tolerates(record[d])'
  BY <1>1, <1>2, <1>6
<1>8. cancelled' # cancelled => \/ cleanup'[d] = "broken"
                                \/ record'[d].state = "failed" /\ record'[d].error # "none" /\ ~Tolerates(record[d])'
  BY <1>3, <1>7
<1> QED BY <1>2, <1>4, <1>5, <1>8 DEF Effect

\* The policy: a failure is not tolerated, a retry is within max_retries.
LEMMA HandleEffect ==
    ASSUME Shape, NEW d \in Daemons, NEW e \in {"error", "fatal", "cancelled"}, NEW p \in Phases, Handle(d, e, p),
           UNCHANGED <<onError, owner, stopper>>
    PROVE  Effect(d)
<1>1. PICK r \in Records :
             \/ Exit(d, r, FALSE)
             \/ Exit(d, r, TRUE) /\ r.state = "failed" /\ r.error # "none" /\ ~Tolerates(r)
             \/ /\ at' = [at EXCEPT ![d] = "backoff"] /\ record' = [record EXCEPT ![d] = r]
                /\ UNCHANGED <<cancelled, stopEvent, allDone, active>>
                /\ MaxRetries = NoLimit \/ r.restarts \in 1..MaxRetries
  BY Policy
<1>2. CASE Exit(d, r, FALSE)
  BY <1>2, ExitEffect
<1>3. CASE Exit(d, r, TRUE) /\ r.state = "failed" /\ r.error # "none" /\ ~Tolerates(r)
  BY <1>3, ExitEffect
<1>4. CASE /\ at' = [at EXCEPT ![d] = "backoff"] /\ record' = [record EXCEPT ![d] = r]
           /\ UNCHANGED <<cancelled, stopEvent, allDone, active>>
           /\ MaxRetries = NoLimit \/ r.restarts \in 1..MaxRetries
  <2>1. record'[d] = r /\ \A x \in Daemons \ {d} : at'[x] = at[x] /\ record'[x] = record[x]
    BY <1>4 DEF Shape
  <2> QED BY <1>4, <2>1 DEF Effect
<1> QED BY <1>1, <1>2, <1>3, <1>4

\* The attempt goes on.
LEMMA GoesOnEffect ==
    ASSUME Shape, NEW d \in Daemons, NEW p, p # "backoff", at' = [at EXCEPT ![d] = p],
           \A x \in Daemons \ {d} : record'[x] = record[x],
           UNCHANGED <<owner, cancelled, stopEvent, allDone, stopper>>
    PROVE  Effect(d)
  BY DEF Effect, Shape

LEMMA ExceptEffect ==
    ASSUME Shape, NEW d \in Daemons, at[d] \in Phases, NEW e \in {"error", "fatal", "cancelled"}, NEW how,
           Except(d, e, how), UNCHANGED <<onError, owner, stopper>>
    PROVE  Effect(d)
<1>1. CASE Handle(d, e, at[d])
  BY <1>1, HandleEffect
<1>2. CASE Clean(d, "shielded", e)
  BY <1>2, GoesOnEffect DEF Clean
<1> QED BY <1>1, <1>2 DEF Except

LEMMA HostEffect == ASSUME Inv, NEW d \in Daemons, Host(d) PROVE Effect(d) /\ d \in Hosted
<1>0. Shape /\ record[d] \in Records
  BY DEF Inv, Shape
<1>1. CASE OnStartReturns(d) \/ Retry(d)
  <2>1. \A x \in Daemons \ {d} : record'[x] = record[x]
    BY <1>0, <1>1 DEF OnStartReturns, Retry, Shape
  <2> QED BY <1>0, <1>1, <2>1, GoesOnEffect DEF OnStartReturns, Retry, group, Hosted
<1>2. CASE RunReturns(d) \/ ScopeCancelled(d)
  BY <1>0, <1>2, GoesOnEffect DEF RunReturns, ScopeCancelled, Clean, Hosted
<1>3. CASE OnStopReturns(d)
  <2>1. [record[d] EXCEPT !.state = "stopped"] \in Records
    BY <1>0 DEF Records
  <2> QED BY <1>0, <1>3, <2>1, ExitEffect DEF OnStopReturns, Hosted
<1>4. CASE Raises(d)
  <2>1. at[d] \in Phases /\ d \in Hosted
    BY <1>4 DEF Raises, Phases, Hosted
  <2> QED BY <1>0, <1>4, <2>1, ExceptEffect DEF Raises
<1>5. CASE GroupCancelled(d)
  <2>1. CASE at[d] \in Phases /\ Except(d, "cancelled", "cut")
    BY <1>0, <1>5, <2>1, ExceptEffect DEF GroupCancelled, Phases, Hosted
  <2>2. CASE at[d] = "backoff" /\ Exit(d, record[d], FALSE)
    BY <1>0, <1>5, <2>2, ExitEffect DEF GroupCancelled, Hosted
  <2> QED BY <1>5, <2>1, <2>2 DEF GroupCancelled, Phases
<1>6. CASE ShieldedEnds(d)
  <2>1. cause[d] \in {"error", "fatal", "cancelled"}
    BY <1>6 DEF ShieldedEnds, HostOK, Inv, Shape
  <2> QED BY <1>0, <1>6, <2>1, HandleEffect DEF ShieldedEnds, Phases, Hosted
<1>7. CASE ShieldedFatal(d)
  <2>1. cleanup'[d] = "broken"
    BY <1>0, <1>7 DEF ShieldedFatal, Shape
  <2> QED BY <1>0, <1>7, <2>1, ExitEffect DEF ShieldedFatal, Hosted
<1> QED BY <1>1, <1>2, <1>3, <1>4, <1>5, <1>6, <1>7 DEF Host, Completes

\* Every other step leaves the hosts where they are, or adds some.
Quiet == UNCHANGED <<record, allDone>> /\ \A d \in Daemons : at[d] # "absent" /\ at[d] # "pending" => at'[d] = at[d]

LEMMA OtherEffect ==
    ASSUME Inv, [Next]_vars
    PROVE  \/ \E d \in Daemons : Host(d)
           \/ Quiet /\ UNCHANGED cancelled /\ (\E d \in Daemons : Add(d)) /\ UNCHANGED <<owner, stopEvent, stopper>>
           \/ Quiet /\ UNCHANGED cancelled /\ Enter
           \/ Quiet /\ UNCHANGED at /\ (owner' = "before" => owner = "before") /\ (stopEvent => stopEvent')
              /\ (stopEvent' # stopEvent => owner # "before")
<1>1. CASE \E d \in Daemons : Add(d)
  BY <1>1 DEF Add, Quiet, Inv, Shape
<1>2. CASE Enter
  BY <1>2 DEF Enter, Quiet, Inv, Shape
<1>3. CASE Leave \/ Join \/ CancelOutside \/ SignalStop
  BY <1>3 DEF Leave, Join, CancelOutside, SignalStop, Quiet, daemon, Inv, Shape
<1>4. CASE \E s \in Stoppers : Stop(s) \/ StopReturns(s)
  BY <1>4 DEF Stop, StopReturns, Quiet, daemon
<1>5. CASE \E w \in Waiters : WaitStarted(w) \/ AllStarted(w)
  BY <1>5 DEF WaitStarted, AllStarted, Quiet, daemon, group
<1>6. CASE \E d \in Daemons : CancelScope(d)
  BY <1>6 DEF CancelScope, Quiet, group
<1>7. CASE UNCHANGED vars
  BY <1>7 DEF vars, group, daemon, Quiet
<1> QED BY <1>1, <1>2, <1>3, <1>4, <1>5, <1>6, <1>7 DEF Next

-----------------------------------------------------------------------------
\* A daemon takes its siblings down only by a failure that is on its record and
\* that its policy does not tolerate (DaemonError, _host), or, off the record, by
\* a BaseException out of its shielded on_stop (_run_on_stop_shielded).
THEOREM FailuresRecorded == Spec => FailureOnRecord
<1>1. ASSUME Inv, [Next]_vars
      PROVE  [\A d \in Daemons : at'[d] # at[d] /\ cancelled' # cancelled
                => \/ cleanup'[d] = "broken"
                   \/ record'[d].state = "failed" /\ record'[d].error # "none" /\ ~Tolerates(record[d])']_vars
  <2> SUFFICES ASSUME NEW d \in Daemons, at'[d] # at[d], cancelled' # cancelled
               PROVE  \/ cleanup'[d] = "broken"
                      \/ record'[d].state = "failed" /\ record'[d].error # "none" /\ ~Tolerates(record[d])'
    OBVIOUS
  <2>1. PICK x \in Daemons : Host(x)
    BY <1>1, OtherEffect
  <2>2. Effect(x)
    BY <1>1, <2>1, HostEffect
  <2>3. x = d
    BY <2>2 DEF Effect
  <2> QED BY <2>2, <2>3 DEF Effect
<1> QED BY <1>1, AlwaysInv, PTL DEF Spec, FailureOnRecord

\* A daemon in its backoff has retries left ...
BackoffOK == \A d \in Daemons : at[d] = "backoff" => MaxRetries = NoLimit \/ record[d].restarts \in 1..MaxRetries
LEMMA AlwaysBackoffOK == Spec => []BackoffOK
<1>1. Init => BackoffOK
  BY DEF Init, BackoffOK
<1>2. ASSUME Inv, BackoffOK, [Next]_vars PROVE BackoffOK'
  <2> SUFFICES ASSUME NEW d \in Daemons, at'[d] = "backoff" PROVE MaxRetries = NoLimit \/ record'[d].restarts \in 1..MaxRetries
    BY DEF BackoffOK
  <2>1. ASSUME NEW x \in Daemons, Host(x) PROVE MaxRetries = NoLimit \/ record'[d].restarts \in 1..MaxRetries
    <3>1. Effect(x)
      BY <1>2, <2>1, HostEffect
    <3> QED BY <1>2, <3>1 DEF Effect, BackoffOK
  <2>2. CASE Quiet /\ at[d] \notin {"absent", "pending"}
    BY <1>2, <2>2 DEF Quiet, BackoffOK
  <2>3. CASE at[d] \in {"absent", "pending"} /\ Enter
    BY <2>3 DEF Enter
  <2>4. CASE at[d] \in {"absent", "pending"} /\ \E x \in Daemons : Add(x)
    BY <1>2, <2>4 DEF Add, Inv, Shape
  <2> QED BY <1>2, <2>1, <2>2, <2>3, <2>4, OtherEffect
<1> QED BY <1>1, <1>2, AlwaysInv, PTL DEF Spec

\* ... so that it is re-entered at most max_retries times (RestartPolicy, _host).
THEOREM RetriesAreBounded == Spec => RetriesBounded
<1>1. ASSUME BackoffOK
      PROVE  [MaxRetries # NoLimit => \A d \in Daemons : at[d] = "backoff" /\ at'[d] = "on_start"
                => record[d].restarts \in 1..MaxRetries]_vars
  BY <1>1 DEF BackoffOK
<1> QED BY <1>1, AlwaysBackoffOK, PTL DEF RetriesBounded

\* Without late adds, all_done is set only once the last host is gone, for good.
DoneForGood == ~LateAdds => (stopEvent => owner # "before") /\ (allDone => stopEvent /\ Hosted = {})
LEMMA AlwaysDoneForGood == Spec => []DoneForGood
<1>1. Init => DoneForGood
  BY DEF Init, DoneForGood
<1>2. ASSUME Inv, Inv', DoneForGood, [Next]_vars PROVE DoneForGood'
  <2> SUFFICES ASSUME ~LateAdds PROVE (stopEvent' => owner' # "before") /\ (allDone' => stopEvent' /\ Hosted' = {})
    BY DEF DoneForGood
  <2>1. (stopEvent => owner # "before") /\ (allDone => stopEvent /\ Hosted = {})
    BY <1>2 DEF DoneForGood
  <2>2. ASSUME NEW x \in Daemons, Host(x) PROVE (stopEvent' => owner' # "before") /\ (allDone' => stopEvent' /\ Hosted' = {})
    <3>1. Effect(x) /\ x \in Hosted
      BY <1>2, <2>2, HostEffect
    <3>2. allDone = FALSE /\ allDone' \in BOOLEAN
      BY <1>2, <2>1, <3>1 DEF Inv, Shape
    <3>3. active' = 0 => Hosted' = {}
      <4>1. active' = Cardinality(Hosted') /\ IsFiniteSet(Daemons) /\ Hosted' \in SUBSET Daemons
        BY <1>2, DaemonsAssumption DEF Inv, Counting, Hosted
      <4> QED BY <4>1, FS_Subset, FS_EmptySet
    <3> QED BY <2>1, <3>1, <3>2, <3>3 DEF Effect
  <2>3. CASE Quiet /\ (\E x \in Daemons : Add(x)) /\ UNCHANGED <<owner, stopEvent>>
    BY <2>1, <2>3 DEF Quiet, Add
  <2>4. CASE Quiet /\ Enter
    BY <2>1, <2>4 DEF Quiet, Enter
  <2>5. CASE Quiet /\ UNCHANGED at /\ (owner' = "before" => owner = "before") /\ (stopEvent => stopEvent')
             /\ (stopEvent' # stopEvent => owner # "before")
    BY <1>2, <2>1, <2>5 DEF Quiet, Hosted, Inv, Shape
  <2> QED BY <1>2, <2>2, <2>3, <2>4, <2>5, OtherEffect
<1> QED BY <1>1, <1>2, AlwaysInv, PTL DEF Spec

\* A stop() that waited inside the block returns with every daemon gone or the
\* group cancelled, if nothing is added after the signal (stop, _on_daemon_exit).
THEOREM StopForces == ~LateAdds => (Spec => StopIsForced)
<1> SUFFICES ASSUME ~LateAdds PROVE Spec => StopIsForced
  OBVIOUS
<1>1. ASSUME Inv, DoneForGood, [Next]_vars
      PROVE  [\A s \in Stoppers : stopper[s] = "waiting" /\ stopper'[s] = "idle" /\ owner = "inside"
                => Hosted' = {} \/ cancelled']_vars
  <2> SUFFICES ASSUME NEW s \in Stoppers, stopper[s] = "waiting", stopper'[s] = "idle", owner = "inside"
               PROVE  Hosted' = {} \/ cancelled'
    OBVIOUS
  <2>1. PICK x \in Stoppers : StopReturns(x)
    <3>1. stopper' # stopper
      OBVIOUS
    <3>2. ASSUME NEW d \in Daemons, Host(d) PROVE FALSE
      BY <1>1, <3>1, <3>2, HostEffect DEF Effect
    <3>3. ASSUME NEW x \in Stoppers, Stop(x) PROVE FALSE
      BY <1>1, <3>3 DEF Stop, Inv, Shape
    <3> QED BY <1>1, <3>1, <3>2, <3>3 DEF Next, Enter, Leave, Join, CancelOutside, SignalStop, WaitStarted, AllStarted,
                                          Add, CancelScope, vars
  <2>2. UNCHANGED <<at, owner>> /\ cancelled' = Forced
    BY <2>1 DEF StopReturns, daemon
  <2> QED BY <1>1, <2>2 DEF Forced, DoneForGood, Hosted
<1> QED BY <1>1, AlwaysInv, AlwaysDoneForGood, PTL DEF Spec, StopIsForced
=============================================================================
