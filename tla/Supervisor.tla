----------------------------- MODULE Supervisor -----------------------------
(***************************************************************************)
(* The structured-concurrency root of chrono_daemon (supervisor.py): an     *)
(* owner enters and leaves it, daemons are added to it and hosted in its    *)
(* task group through attempts of on_start, run and on_stop, and anyone may *)
(* signal a stop, call stop(), or wait until all daemons have started.      *)
(*                                                                          *)
(* One action is what one task runs between two awaits.  A hook is user     *)
(* code: it returns, raises, or is cancelled at an await.  The task group   *)
(* and cancel scopes are anyio's.  Time is abstracted: a grace period, a    *)
(* finalize budget or a backoff may be over at any moment.                  *)
(***************************************************************************)
EXTENDS Integers, FiniteSets

CONSTANTS
    Daemons,
    Stoppers,    \* tasks that call stop()
    Waiters,     \* tasks that call wait_all_started()
    Policies,    \* the values of on_error that are tried
    MaxRetries,  \* RestartPolicy.max_retries, NoLimit for None
    RetryCap,    \* bound of the model: without a limit, retries are counted so far
    LateAdds     \* may add() be called after a stop was signalled or the owner left?

NoLimit == -1
ASSUME PoliciesAssumption == Policies \subseteq {"shutdown", "restart", "ignore"}
ASSUME RetriesAssumption == MaxRetries \in Nat \cup {NoLimit} /\ RetryCap \in Nat
ASSUME DaemonsAssumption == IsFiniteSet(Daemons) /\ LateAdds \in BOOLEAN

VARIABLES
    onError,     \* _on_error
    owner,       \* before, inside, leaving (in __aexit__, _tg is None) or after the block
    cancelled,   \* the task group's scope, or one around it, is cancelled
    stopEvent,   \* _stop_event
    allDone,     \* _all_done
    active,      \* _active_count
    record,      \* _records
    at,          \* where each daemon's _host is
    cause,       \* the exception its shielded on_stop interrupts
    scope,       \* is the cancel scope of its current attempt cancelled?
    cleanup,     \* history: what became of the current attempt's on_stop
    stopper,     \* is each stopper waiting in stop()?
    waiter       \* the daemons each waiter waits for

group == <<owner, cancelled, stopEvent, allDone, active>>
daemon == <<record, at, cause, scope, cleanup>>
vars == <<onError, group, daemon, stopper, waiter>>

Known == {d \in Daemons : at[d] # "absent"}
Hosted == {d \in Daemons : at[d] \notin {"absent", "pending", "exited"}}

NoRecord == [state |-> "starting", restarts |-> 0, error |-> "none", phase |-> "none",
             started |-> FALSE, startedAt |-> FALSE]

-----------------------------------------------------------------------------
(* The owner, and calls anyone may make.                                     *)

\* __aenter__ launches what was added before.
Enter ==
    /\ owner = "before" /\ owner' = "inside"
    /\ at' = [d \in Daemons |-> IF at[d] = "pending" THEN "on_start" ELSE at[d]]
    /\ active' = active + Cardinality(Known)
    /\ UNCHANGED <<onError, cancelled, stopEvent, allDone, record, cause, scope, cleanup, stopper, waiter>>

\* __aexit__ begins; if the block raised, the group is cancelled.
Leave ==
    /\ owner = "inside" /\ owner' = "leaving"
    /\ \E raised \in BOOLEAN : cancelled' = (cancelled \/ raised)
    /\ UNCHANGED <<onError, stopEvent, allDone, active, daemon, stopper, waiter>>

\* It ends when every host has.
Join ==
    /\ owner = "leaving" /\ Hosted = {}
    /\ owner' = "after"
    /\ UNCHANGED <<onError, cancelled, stopEvent, allDone, active, daemon, stopper, waiter>>

\* A scope around the supervisor is cancelled.
CancelOutside ==
    /\ owner \in {"inside", "leaving"}
    /\ cancelled' = TRUE
    /\ UNCHANGED <<onError, owner, stopEvent, allDone, active, daemon, stopper, waiter>>

Add(d) ==
    /\ at[d] = "absent"
    /\ LateAdds \/ (owner \in {"before", "inside"} /\ ~stopEvent)
    /\ IF owner = "inside"
       THEN at' = [at EXCEPT ![d] = "on_start"] /\ active' = active + 1
       ELSE at' = [at EXCEPT ![d] = "pending"] /\ UNCHANGED active
    /\ UNCHANGED <<onError, owner, cancelled, stopEvent, allDone, record, cause, scope, cleanup, stopper, waiter>>

SignalStop ==
    /\ owner # "before"
    /\ stopEvent' = TRUE
    /\ UNCHANGED <<onError, owner, cancelled, allDone, active, daemon, stopper, waiter>>

\* The last lines of stop().
ForceNever == cancelled                       \* mutant
Forced == cancelled \/ (~allDone /\ owner = "inside")

\* stop(): it signals; while daemons run inside the block, it waits for grace.
Stop(s) ==
    /\ stopper[s] = "idle" /\ owner # "before"
    /\ stopEvent' = TRUE
    /\ IF owner = "inside" /\ active # 0
       THEN \/ /\ stopper' = [stopper EXCEPT ![s] = "waiting"]
               /\ UNCHANGED cancelled
            \/ /\ cancelled' = Forced
               /\ UNCHANGED stopper
       ELSE UNCHANGED <<cancelled, stopper>>
    /\ UNCHANGED <<onError, owner, allDone, active, daemon, waiter>>

\* All daemons are done, or grace is over.
StopReturns(s) ==
    /\ stopper[s] = "waiting"
    /\ stopper' = [stopper EXCEPT ![s] = "idle"]
    /\ cancelled' = Forced
    /\ UNCHANGED <<onError, owner, stopEvent, allDone, active, daemon, waiter>>

\* wait_all_started() waits for the daemons known when it is called.
WaitStarted(w) ==
    /\ waiter[w] = {} /\ owner = "inside"
    /\ waiter' = [waiter EXCEPT ![w] = Known]
    /\ UNCHANGED <<onError, group, daemon, stopper>>

AllStarted(w) ==
    /\ waiter[w] # {} /\ \A d \in waiter[w] : record[d].started
    /\ waiter' = [waiter EXCEPT ![w] = {}]
    /\ UNCHANGED <<onError, group, daemon, stopper>>

-----------------------------------------------------------------------------
(* One daemon's _host.                                                       *)

Fresh(d) == cause' = [cause EXCEPT ![d] = "none"] /\ scope' = [scope EXCEPT ![d] = FALSE]

\* The finally block of _host and _on_daemon_exit, after r was recorded.
OneLess == active - 1
DoneLate(n) == allDone \/ (n = -1 /\ stopEvent)   \* mutant
DoneNow(n) == allDone \/ (n = 0 /\ stopEvent)
Unreleased(r) == r                             \* mutant
ReleaseBarrier(r) == [r EXCEPT !.started = TRUE]
Exit(d, r, raises) ==
    /\ at' = [at EXCEPT ![d] = "exited"]
    /\ record' = [record EXCEPT ![d] = ReleaseBarrier(r)]
    /\ active' = OneLess
    /\ allDone' = DoneNow(active')
    /\ cancelled' = (cancelled \/ raises)
    /\ Fresh(d)
    /\ UNCHANGED stopEvent

\* DaemonError is raised, and ends the group.
RunIsTerminal(p) == (p # "on_start" /\ onError # "ignore") \/ onError = "shutdown"   \* mutant
Terminal(p) == (p = "on_stop" /\ onError # "ignore") \/ onError = "shutdown"
OneTooMany(n) == MaxRetries # NoLimit /\ n > MaxRetries + 1   \* mutant
Exceeded(n) == MaxRetries # NoLimit /\ n > MaxRetries
Counted(n) == IF MaxRetries = NoLimit /\ n >= RetryCap THEN n ELSE n + 1

\* The policy for an exception e raised in phase p, once on_stop was called.
RetryRegardless == TRUE                        \* mutant
MayRetry == ~stopEvent
Handle(d, e, p) ==
    LET failed == [record[d] EXCEPT !.error = e, !.phase = p, !.state = "failed"]
        stopped == [record[d] EXCEPT !.error = e, !.phase = p, !.state = "stopped"]
        n == Counted(record[d].restarts)
    IN  \/ e = "cancelled" /\ Exit(d, [record[d] EXCEPT !.state = "stopped"], FALSE)
        \/ e = "fatal" /\ Exit(d, failed, TRUE)
        \/ e = "error" /\ Terminal(p) /\ Exit(d, failed, TRUE)
        \/ e = "error" /\ ~Terminal(p) /\ (onError = "ignore" \/ ~MayRetry) /\ Exit(d, stopped, FALSE)
        \/ /\ e = "error" /\ ~Terminal(p) /\ onError = "restart" /\ MayRetry
           /\ IF Exceeded(n)
              THEN Exit(d, [failed EXCEPT !.restarts = n], TRUE)
              ELSE /\ at' = [at EXCEPT ![d] = "backoff"]
                   /\ record' = [record EXCEPT ![d] = [failed EXCEPT !.restarts = n, !.state = "restarting"]]
                   /\ Fresh(d)
                   /\ UNCHANGED <<cancelled, stopEvent, allDone, active>>

\* on_stop is called: at the end of the attempt, or shielded by exception e.
Clean(d, where, e) ==
    /\ at' = [at EXCEPT ![d] = where]
    /\ cause' = [cause EXCEPT ![d] = e]
    /\ cleanup' = [cleanup EXCEPT ![d] = "begun"]
    /\ UNCHANGED <<scope, record, cancelled, stopEvent, allDone, active>>

\* An exception leaves the try block: on_stop is owed if on_start succeeded; if
\* it was on_stop that raised or was cancelled, how tells which.
OwedTwice(d) == at[d] \in {"run", "on_stop"}   \* mutant
NeverOwed(d) == FALSE                          \* mutant
OnStopOwed(d) == at[d] = "run"
Except(d, e, how) ==
    \/ OnStopOwed(d) /\ Clean(d, "shielded", e)
    \/ /\ ~OnStopOwed(d)
       /\ Handle(d, e, at[d])
       /\ cleanup' = [cleanup EXCEPT ![d] = IF at[d] = "on_stop" THEN how ELSE @]

OnStartReturns(d) ==
    /\ at[d] = "on_start"
    /\ at' = [at EXCEPT ![d] = "run"]
    /\ record' = [record EXCEPT ![d] = [@ EXCEPT !.state = "running", !.startedAt = TRUE, !.started = TRUE]]
    /\ cleanup' = [cleanup EXCEPT ![d] = "owed"]
    /\ UNCHANGED <<onError, group, cause, scope, stopper, waiter>>

RunReturns(d) ==
    /\ at[d] = "run"
    /\ Clean(d, "on_stop", "none")
    /\ UNCHANGED <<onError, owner, stopper, waiter>>

OnStopReturns(d) ==
    /\ at[d] = "on_stop"
    /\ cleanup' = [cleanup EXCEPT ![d] = "over"]
    /\ Exit(d, [record[d] EXCEPT !.state = "stopped"], FALSE)
    /\ UNCHANGED <<onError, owner, stopper, waiter>>

\* A hook raises an Exception ("error"), or another BaseException ("fatal").
Raises(d) ==
    /\ at[d] \in {"on_start", "run", "on_stop"}
    /\ \E e \in {"error", "fatal"} : Except(d, e, "over")
    /\ UNCHANGED <<onError, owner, stopper, waiter>>

\* ctx.cancel_scope.cancel()
CancelScope(d) ==
    /\ at[d] \in {"on_start", "run"}
    /\ scope' = [scope EXCEPT ![d] = TRUE]
    /\ UNCHANGED <<onError, group, record, at, cause, cleanup, stopper, waiter>>

\* The scope swallows its own cancellation: the attempt goes on to on_stop.
ScopeCancelled(d) ==
    /\ at[d] \in {"on_start", "run"} /\ scope[d]
    /\ Clean(d, "on_stop", "none")
    /\ UNCHANGED <<onError, owner, stopper, waiter>>

\* The group's cancellation reaches the daemon at an await of its own.
SleepsOn(d) ==                                 \* mutant: the backoff is not cancelled
    /\ cancelled
    /\ at[d] \in {"on_start", "run", "on_stop"} /\ Except(d, "cancelled", "cut")
    /\ UNCHANGED <<onError, owner, stopper, waiter>>
GroupCancelled(d) ==
    /\ cancelled
    /\ \/ at[d] \in {"on_start", "run", "on_stop"} /\ Except(d, "cancelled", "cut")
       \/ at[d] = "backoff" /\ Exit(d, record[d], FALSE) /\ UNCHANGED cleanup
    /\ UNCHANGED <<onError, owner, stopper, waiter>>

\* The shielded on_stop returns, raises an Exception or runs out of its budget.
ShieldedEnds(d) ==
    /\ at[d] = "shielded"
    /\ Handle(d, cause[d], "run")
    /\ cleanup' = [cleanup EXCEPT ![d] = "over"]
    /\ UNCHANGED <<onError, owner, stopper, waiter>>

\* It raises another BaseException, which replaces the first.
ShieldedFatal(d) ==
    /\ at[d] = "shielded"
    /\ Exit(d, record[d], TRUE)
    /\ cleanup' = [cleanup EXCEPT ![d] = "broken"]
    /\ UNCHANGED <<onError, owner, stopper, waiter>>

\* The backoff is over: a new attempt.
Retry(d) ==
    /\ at[d] = "backoff" /\ ~cancelled
    /\ at' = [at EXCEPT ![d] = "on_start"]
    /\ record' = [record EXCEPT ![d] = [@ EXCEPT !.state = "starting", !.startedAt = FALSE]]
    /\ cleanup' = [cleanup EXCEPT ![d] = "none"]
    /\ UNCHANGED <<onError, group, cause, scope, stopper, waiter>>

-----------------------------------------------------------------------------
Init ==
    /\ onError \in Policies
    /\ owner = "before" /\ cancelled = FALSE /\ stopEvent = FALSE /\ allDone = FALSE /\ active = 0
    /\ record = [d \in Daemons |-> NoRecord]
    /\ at = [d \in Daemons |-> "absent"]
    /\ cause = [d \in Daemons |-> "none"] /\ scope = [d \in Daemons |-> FALSE]
    /\ cleanup = [d \in Daemons |-> "none"]
    /\ stopper = [s \in Stoppers |-> "idle"]
    /\ waiter = [w \in Waiters |-> {}]

Completes(d) == OnStartReturns(d) \/ RunReturns(d) \/ OnStopReturns(d) \/ Raises(d)
Host(d) == Completes(d) \/ ScopeCancelled(d) \/ GroupCancelled(d) \/ ShieldedEnds(d) \/ ShieldedFatal(d) \/ Retry(d)
Next ==
    \/ Enter \/ Leave \/ Join \/ CancelOutside \/ SignalStop
    \/ \E s \in Stoppers : Stop(s) \/ StopReturns(s)
    \/ \E w \in Waiters : WaitStarted(w) \/ AllStarted(w)
    \/ \E d \in Daemons : Add(d) \/ CancelScope(d) \/ Host(d)
Spec == Init /\ [][Next]_vars

\* A cancelled hook ends, a shielded one within its budget; __aexit__, stop()
\* and wait_all_started() go on when what they await has happened.
LibraryFairness ==
    /\ WF_vars(Join)
    /\ \A d \in Daemons : WF_vars(GroupCancelled(d)) /\ WF_vars(ScopeCancelled(d))
                          /\ WF_vars(ShieldedEnds(d) \/ ShieldedFatal(d))
    /\ \A s \in Stoppers : WF_vars(StopReturns(s))
    /\ \A w \in Waiters : WF_vars(AllStarted(w))
FairSpec == Spec /\ LibraryFairness

\* Cooperative daemons: run ends once a stop is signalled, on_start and on_stop
\* always; whoever drives the clock lets a backoff pass.
Cooperation ==
    \A d \in Daemons : /\ WF_vars((stopEvent \/ at[d] # "run") /\ Completes(d))
                       /\ WF_vars(Retry(d))

-----------------------------------------------------------------------------
(* What the supervisor promises.                                             *)

Phases == {"on_start", "run", "on_stop"}
Records == [state : {"starting", "running", "restarting", "stopped", "failed"}, restarts : Nat,
            error : {"none", "error", "fatal"}, phase : Phases \cup {"none"}, started : BOOLEAN, startedAt : BOOLEAN]
Places == Phases \cup {"absent", "pending", "shielded", "backoff", "exited"}

\* Every variable has its type.
TypeOK ==
    /\ onError \in Policies
    /\ owner \in {"before", "inside", "leaving", "after"}
    /\ cancelled \in BOOLEAN /\ stopEvent \in BOOLEAN /\ allDone \in BOOLEAN /\ active \in Nat
    /\ record \in [Daemons -> Records]
    /\ at \in [Daemons -> Places]
    /\ cause \in [Daemons -> {"none", "error", "fatal", "cancelled"}]
    /\ scope \in [Daemons -> BOOLEAN]
    /\ cleanup \in [Daemons -> {"none", "owed", "begun", "over", "cut", "broken"}]
    /\ stopper \in [Stoppers -> {"idle", "waiting"}]
    /\ waiter \in [Waiters -> SUBSET Daemons]

\* _active_count counts the hosts that run, however each of them ends, and no
\* stop() misses the end of the last one: if nobody runs while it waits,
\* all_done is set (_on_daemon_exit).
CountInSync == active = Cardinality(Hosted)
NoLostWakeup == Hosted = {} /\ (\E s \in Stoppers : stopper[s] = "waiting") => allDone

\* The policy tolerates the exception on record r: an Exception, under ignore,
\* or under restart, outside on_stop, with retries left or a stop signalled.
Tolerates(r) ==
    /\ r.error = "error"
    /\ \/ onError = "ignore"
       \/ /\ onError = "restart" /\ r.phase # "on_stop"
          /\ stopEvent \/ MaxRetries = NoLimit \/ r.restarts <= MaxRetries

\* What snapshot() tells is true of the host: a failure is terminal and takes
\* the group down; an exception its policy does not tolerate is never reported
\* as an orderly stop; a daemon that ended while its siblings go on ended
\* orderly, and only a cancelled backoff or an on_stop that broke leaves a stale
\* "restarting" or "running" behind.  Every exit releases the start barrier.
StateMatchesHost ==
    \A d \in Daemons :
        LET r == record[d]
        IN  /\ r.state = "failed" => at[d] = "exited" /\ cancelled /\ r.error # "none"
            /\ r.state = "stopped" => at[d] = "exited" /\ (r.error # "none" => Tolerates(r))
            /\ at[d] = "exited" => /\ r.started /\ (~cancelled => r.state = "stopped")
                                   /\ \/ r.state \in {"stopped", "failed", "restarting"}
                                      \/ r.state = "running" /\ cleanup[d] = "broken"
            /\ at[d] \in {"run", "shielded"} => r.state = "running" /\ r.startedAt
            /\ at[d] = "backoff" => r.state = "restarting" /\ onError = "restart"

\* If on_start succeeded, on_stop is attempted before the attempt is over,
\* whatever ended it, ...
OnStopAttempted == \A d \in Daemons : at[d] \in {"backoff", "exited", "on_start"} => cleanup[d] \notin {"owed", "begun"}

\* ... and never twice in one attempt.
OnStopOnce ==
    [][\A d \in Daemons : at'[d] # at[d] /\ at'[d] \in {"on_stop", "shielded"} => cleanup[d] \in {"none", "owed"}]_vars

\* A daemon takes its siblings down only by a failure that is on its record and
\* that its policy does not tolerate, wherever it was raised: not by cancelling
\* its own scope, and not by an exception it is restarted or excused for.  The
\* one step that cancels the group with no record is a BaseException, other than
\* a cancellation, out of an on_stop that was shielded (cleanup is "broken").
FailureOnRecord ==
    [][\A d \in Daemons : at'[d] # at[d] /\ cancelled' # cancelled
         => \/ cleanup'[d] = "broken"
            \/ record'[d].state = "failed" /\ record'[d].error # "none" /\ ~Tolerates(record[d])']_vars

\* The daemon is re-entered at most max_retries times.
RetriesBounded ==
    [][MaxRetries # NoLimit => \A d \in Daemons : at[d] = "backoff" /\ at'[d] = "on_start"
         => record[d].restarts \in 1..MaxRetries]_vars

\* A stop() that waited inside the block returns with every daemon gone or the
\* group cancelled.  Holds while nothing is added after the signal; all_done is
\* never cleared, so it fails for late daemons.
StopIsForced ==
    [][\A s \in Stoppers : stopper[s] = "waiting" /\ stopper'[s] = "idle" /\ owner = "inside"
         => Hosted' = {} \/ cancelled']_vars

\* Liveness.  A cancelled group drains, through cleanups, and the owner leaves.
GroupDrains == (cancelled ~> Hosted = {}) /\ (owner = "leaving" /\ cancelled ~> owner = "after")

\* After a signal, cooperative daemons end, crash-looping ones included.
SignalledStopEnds == Cooperation => (stopEvent ~> Hosted = {})

\* wait_all_started() never hangs on one that fails, retries or is cancelled,
\* unless a daemon restarts without end.
BarrierReleased ==
    Cooperation /\ (\A d \in Daemons : <>[](at[d] # "backoff"))
        => \A w \in Waiters : waiter[w] # {} ~> waiter[w] = {}
=============================================================================
