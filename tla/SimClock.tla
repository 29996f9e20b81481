------------------------------ MODULE SimClock ------------------------------
(***************************************************************************)
(* The virtual clock of chrono_daemon (clock.py, class SimClock): tasks     *)
(* sleep on it, a host registers callbacks with call_at, and a driver moves *)
(* time with advance_to, waking one due entry at a time and letting woken   *)
(* work run ("settling") between two wakes.                                 *)
(*                                                                          *)
(* One action is what the event loop runs between two awaits.  A driver in  *)
(* phase "serve" is between the end of a settle and the next one, where the *)
(* code awaits nothing: nobody else moves there.  Heaps are sets of entries *)
(* with the code's orderings; a loop that pops is the prefix it removes.    *)
(* Times are natural numbers; an rtol is a multiple of 1/RtolUnit.          *)
(***************************************************************************)
EXTENDS Integers, FiniteSets

CONSTANTS
    Tasks,       \* tasks that sleep on the clock
    External,    \* those that also await other things, or may be cancelled
    Host,        \* the owner of every call_at callback
    Drivers,     \* tasks that call advance_to
    Delays,      \* arguments of sleep()
    Deadlines,   \* arguments of wait_until() and call_at()
    Priorities,
    Goals,       \* arguments of advance_to: [t, rtol, atol, hook]
    RtolUnit,
    Rounds,      \* settle_rounds
    MaxSettles,  \* max_settles
    MaxCalls     \* bound of the model: sleeps, waits and call_ats made in all

ASSUME ActorsAssumption == External \subseteq Tasks /\ Host \notin Tasks
ASSUME TimesAssumption == Delays \subseteq Nat /\ Deadlines \subseteq Nat /\ Priorities \subseteq Int
ASSUME GoalsAssumption == Goals \subseteq [t : Nat, rtol : Nat, atol : Nat, hook : BOOLEAN]
ASSUME BoundsAssumption ==
    /\ RtolUnit \in Nat \ {0} /\ Rounds \in Nat \ {0} /\ MaxSettles \in Nat \ {0} /\ MaxCalls \in Nat

VARIABLES
    now,         \* _t
    heap,        \* _waiters
    instant,     \* _instant: entries of the instant being served
    deferred,    \* _deferred: re-sleeps inside the goal's tolerance, set aside
    cancelled,   \* the seq of every entry whose cancelled flag is set
    seq,         \* the next value of _seq
    anchor,      \* _anchor, NoTime for None
    instantEnd,  \* _instant_end, NoTime for -inf
    instantSeq,  \* _instant_seq
    advancing,   \* _advancing
    pc, arg,     \* where each task is, and the argument of the call it is in
    calls,       \* calls made so far
    drv          \* each driver's advance_to

clock == <<heap, instant, deferred, anchor, instantEnd, instantSeq>>
vars == <<now, clock, cancelled, seq, advancing, pc, arg, calls, drv>>

NoTime == -1
NoArg == [time |-> 0, priority |-> 0]
NoGoal == [t |-> 0, rtol |-> 0, atol |-> 0, hook |-> FALSE]
Idle == [phase |-> "idle", final |-> FALSE, goal |-> NoGoal, left |-> 0, settles |-> 0, owed |-> {}]

Entry(deadline, priority, owner) ==
    [deadline |-> deadline, priority |-> priority, seq |-> seq, registeredAt |-> now, owner |-> owner]

Pending == heap \cup instant \cup deferred
Live == {w \in Pending : w.seq \notin cancelled}
Runnable(at) == {t \in Tasks : at[t] \in {"ready", "sleep", "wait_until"}}

-----------------------------------------------------------------------------
(* Orders and tolerance.                                                     *)

\* _Waiter.__lt__: (deadline, priority, seq).
Sooner(v, w) == v.priority < w.priority \/ (v.priority = w.priority /\ v.seq < w.seq)
Before(v, w) == v.deadline < w.deadline \/ (v.deadline = w.deadline /\ Sooner(v, w))

\* math.isclose(a, b, rel_tol=rtol, abs_tol=atol) for finite, non-negative a, b.
Near(a, b, g) ==
    LET gap == IF a < b THEN b - a ELSE a - b
        larger == IF a < b THEN b ELSE a
    IN  gap <= g.atol \/ gap * RtolUnit <= g.rtol * larger

\* What _heap_due does with the earliest entry: skip it, or find it due.
Due(w, g) == w.deadline <= g.t \/ Near(w.deadline, g.t, g)
NoSetAside(w, g) == FALSE                      \* mutant
SetAside(w, g) == Due(w, g) /\ w.deadline > g.t /\ w.registeredAt >= g.t
Skips(w, g) == w.seq \in cancelled \/ SetAside(w, g)

\* The entries a loop pops that stops at the first one outside S.
Popped(H, S) == {w \in H : \A v \in H : (v = w \/ Before(v, w)) => v \in S}

\* Due entries close to the anchor a: the candidates for its instant.
AnyDue(H, a, g) == {w \in H : Due(w, g)}       \* mutant
Members(H, a, g) == {w \in H : Due(w, g) /\ Near(w.deadline, a, g)}

\* Those registered before the instant (seq below n) join it.
JoinAnytime(S, n, g) == {w \in S : ~Skips(w, g)}   \* mutant
Join(S, n, g) == {w \in S : ~Skips(w, g) /\ w.seq < n}

\* The inner loop of _pop_due: pop what is skipped and the candidates M; those
\* that do not join go back.
Gather(c, M, n, g) ==
    LET popped == Popped(c.heap, {w \in c.heap : Skips(w, g)} \cup M)
        joins == Join(popped, n, g)
        aside == {w \in popped : w.seq \notin cancelled /\ SetAside(w, g)}
        dead == {w \in popped : w.seq \in cancelled}
    IN  [heap |-> c.heap \ (joins \cup aside \cup dead),
         instant |-> c.instant \cup joins,
         deferred |-> c.deferred \cup aside]

Containers == [heap |-> heap, instant |-> instant, deferred |-> deferred]
Current(g) == IF anchor = NoTime THEN Containers ELSE Gather(Containers, Members(heap, anchor, g), instantSeq, g)
Exhausted(c) == \A w \in c.instant : w.seq \in cancelled

\* The earliest entry of c that _heap_due does not skip.
FirstUnlessAside(w, c, g) ==                   \* mutant: one set aside hides the rest
    ~Skips(w, g) /\ \A v \in c.heap : Before(v, w) => v.seq \in cancelled
First(w, c, g) == ~Skips(w, g) /\ \A v \in c.heap : Before(v, w) => Skips(v, g)
\* The top of the instant once its cancelled tops are gone.
NextInInstant(e, I) == e.seq \notin cancelled /\ \A v \in I : Sooner(v, e) => v.seq \in cancelled
Earliest(x, S) == x \in S /\ \A y \in S : x <= y   \* mutant
Latest(x, S) == x \in S /\ \A y \in S : y <= x

-----------------------------------------------------------------------------
(* advance_to.                                                               *)

\* The first round of a settle; at tells where the tasks are when it begins.
OneRoundShort(g, final, settles, at) ==       \* mutant
    [phase |-> "settle", final |-> final, goal |-> g, left |-> Rounds - 1, settles |-> settles, owed |-> Runnable(at)]
Uncounted(g, final, settles, at) ==           \* mutant
    [phase |-> "settle", final |-> final, goal |-> g, left |-> Rounds, settles |-> 0, owed |-> Runnable(at)]
Settling(g, final, settles, at) ==
    [phase |-> "settle", final |-> final, goal |-> g, left |-> Rounds, settles |-> settles, owed |-> Runnable(at)]

\* The finally block: whatever is left of the instant goes back to the heap.
WithoutInstant(c) == c.heap \cup c.deferred    \* mutant
PutBack(c) == c.heap \cup c.instant \cup c.deferred
Release(d, c) ==
    /\ heap' = PutBack(c)
    /\ instant' = {} /\ deferred' = {}
    /\ anchor' = NoTime
    /\ advancing' = FALSE
    /\ drv' = [drv EXCEPT ![d] = Idle]

BeginsAnyway(g) == g.t >= now                  \* mutant
BackInTime(g) == ~advancing                    \* mutant
MayBegin(g) == ~advancing /\ g.t >= now
Begin(d) ==
    /\ drv[d].phase = "idle"
    /\ \E g \in Goals :
        /\ MayBegin(g)
        /\ drv' = [drv EXCEPT ![d] = IF g.hook THEN Settling(g, FALSE, 0, pc)
                                     ELSE [Idle EXCEPT !.phase = "serve", !.goal = g]]
    /\ advancing' = TRUE
    /\ UNCHANGED <<now, clock, cancelled, seq, pc, arg, calls>>

\* One checkpoint of a settle is over: every task runnable when it began has run.
Checkpoint(d) ==
    /\ drv[d].phase = "settle" /\ drv[d].owed = {}
    /\ LET r == drv[d]
       IN  drv' = [drv EXCEPT ![d] =
             IF r.left > 1 THEN [r EXCEPT !.left = r.left - 1, !.owed = Runnable(pc)]
             ELSE [r EXCEPT !.left = 0, !.phase = IF r.goal.hook THEN "hook" ELSE "serve"]]
    /\ UNCHANGED <<now, clock, cancelled, seq, advancing, pc, arg, calls>>

\* The host's settle() answers FALSE: nothing it knows of is pending.
HookIdle(d) ==
    /\ drv[d].phase = "hook"
    /\ drv' = [drv EXCEPT ![d].phase = "serve"]
    /\ UNCHANGED <<now, clock, cancelled, seq, advancing, pc, arg, calls>>

\* It answers TRUE: settle again, unless that was the last time allowed.
MayRepeat(r) == r.settles + 1 < MaxSettles
HookBusy(d) ==
    /\ drv[d].phase = "hook"
    /\ MayRepeat(drv[d])
    /\ drv' = [drv EXCEPT ![d] = Settling(@.goal, @.final, @.settles + 1, pc)]
    /\ UNCHANGED <<now, clock, cancelled, seq, advancing, pc, arg, calls>>

\* settle() raised or answered TRUE too often, or the driver was cancelled.
Abort(d) ==
    /\ drv[d].phase \in {"settle", "hook"}
    /\ Release(d, Containers)
    /\ UNCHANGED <<now, instantEnd, instantSeq, cancelled, seq, pc, arg, calls>>

\* e is popped from the instant of c, which ends at end: its sleeper's event is
\* set, or its callback runs and returns or raises.
Wake(d, c, e, end) ==
    LET g == drv[d].goal
        reached == IF g.t < end THEN g.t ELSE end
        rest == {w \in c.instant : Sooner(e, w)}
    IN  /\ now' = IF now < reached THEN reached ELSE now
        /\ instantEnd' = end
        /\ pc' = IF e.owner \in Tasks THEN [pc EXCEPT ![e.owner] = "ready"] ELSE pc
        /\ \/ /\ heap' = c.heap /\ instant' = rest /\ deferred' = c.deferred
              /\ drv' = [drv EXCEPT ![d] = Settling(g, FALSE, 0, pc')]
              /\ UNCHANGED advancing
           \/ /\ e.owner = Host
              /\ Release(d, [c EXCEPT !.instant = rest])
        /\ UNCHANGED <<cancelled, arg, calls>>

\* _pop_due goes on with the current instant.
ServeCurrent(d) ==
    /\ drv[d].phase = "serve" /\ anchor # NoTime
    /\ LET c == Current(drv[d].goal)
       IN  \E e \in c.instant, end \in {instantEnd} \cup {w.deadline : w \in c.instant \ instant} :
             /\ NextInInstant(e, c.instant)
             /\ Latest(end, {instantEnd} \cup {w.deadline : w \in c.instant \ instant})
             /\ Wake(d, c, e, end)
             /\ anchor' = IF advancing' THEN anchor ELSE NoTime
    /\ UNCHANGED <<instantSeq, seq>>

\* It is over or there is none: the earliest due entry is the anchor of a new one.
ServeNext(d) ==
    /\ drv[d].phase = "serve"
    /\ LET g == drv[d].goal
           c == Current(g)
       IN  /\ Exhausted(c)
           /\ \E first \in c.heap :
                /\ First(first, c, g) /\ Due(first, g)
                /\ LET f == Gather([c EXCEPT !.instant = {}], Members(c.heap, first.deadline, g), seq, g)
                   IN  \E e \in f.instant, end \in {w.deadline : w \in f.instant} :
                         /\ NextInInstant(e, f.instant)
                         /\ Latest(end, {w.deadline : w \in f.instant})
                         /\ Wake(d, f, e, end)
                         /\ anchor' = IF advancing' THEN first.deadline ELSE NoTime
    /\ instantSeq' = seq /\ seq' = seq + 1

\* Nothing is due.  The first time, settle once more; then time reaches the goal.
NoneDue(d) ==
    /\ drv[d].phase = "serve"
    /\ LET g == drv[d].goal
           c == Current(g)
           s == Gather([c EXCEPT !.instant = {}], {}, 0, g)
       IN  /\ Exhausted(c)
           /\ \A w \in c.heap : First(w, c, g) => ~Due(w, g)
           /\ IF drv[d].final
              THEN now' = g.t /\ Release(d, s)
              ELSE /\ heap' = s.heap /\ instant' = {} /\ deferred' = s.deferred /\ anchor' = NoTime
                   /\ drv' = [drv EXCEPT ![d] = Settling(g, TRUE, 0, pc)]
                   /\ UNCHANGED <<now, advancing>>
    /\ UNCHANGED <<instantEnd, instantSeq, cancelled, seq, pc, arg, calls>>

-----------------------------------------------------------------------------
(* Tasks and the host.  Nothing of theirs runs while a driver serves.        *)

CanRun == \A d \in Drivers : drv[d].phase # "serve"
Ran(t) == drv' = [d \in Drivers |-> [drv[d] EXCEPT !.owed = @ \ {t}]]

\* User code up to its next await: a sleep, a wait, something else, or its end.
Continue(t) ==
    \/ /\ calls < MaxCalls /\ calls' = calls + 1
       /\ \E p \in Priorities :
            \/ \E s \in Delays : /\ pc' = [pc EXCEPT ![t] = "sleep"]
                                 /\ arg' = [arg EXCEPT ![t] = [time |-> s, priority |-> p]]
            \/ \E s \in Deadlines : /\ pc' = [pc EXCEPT ![t] = "wait_until"]
                                    /\ arg' = [arg EXCEPT ![t] = [time |-> s, priority |-> p]]
    \/ /\ \E at \in {"done"} \cup (IF t \in External THEN {"busy"} ELSE {}) : pc' = [pc EXCEPT ![t] = at]
       /\ arg' = [arg EXCEPT ![t] = NoArg]
       /\ UNCHANGED calls

Run(t) ==
    /\ CanRun /\ pc[t] = "ready"
    /\ Continue(t) /\ Ran(t)
    /\ UNCHANGED <<now, clock, cancelled, seq, advancing>>

\* What t awaited outside the clock has happened.
Resume(t) ==
    /\ CanRun /\ pc[t] = "busy"
    /\ pc' = [pc EXCEPT ![t] = "ready"]
    /\ UNCHANGED <<now, clock, cancelled, seq, advancing, arg, calls, drv>>

\* sleep() after its checkpoint.
SleepStep(t) ==
    /\ CanRun /\ pc[t] = "sleep"
    /\ \/ /\ arg[t].time <= 0
          /\ Continue(t)
       \/ /\ arg[t].time > 0
          /\ pc' = [pc EXCEPT ![t] = "wait_until"]
          /\ arg' = [arg EXCEPT ![t].time = now + @]
          /\ UNCHANGED calls
    /\ Ran(t)
    /\ UNCHANGED <<now, clock, cancelled, seq, advancing>>

\* wait_until() after its checkpoint finds its deadline reached, ...
WaitPast(t) ==
    /\ CanRun /\ pc[t] = "wait_until" /\ arg[t].time <= now
    /\ Continue(t) /\ Ran(t)
    /\ UNCHANGED <<now, clock, cancelled, seq, advancing>>

\* ... or registers a waiter and parks on its event.
Park(t) ==
    /\ CanRun /\ pc[t] = "wait_until" /\ arg[t].time > now
    /\ heap' = heap \cup {Entry(arg[t].time, arg[t].priority, t)}
    /\ seq' = seq + 1
    /\ pc' = [pc EXCEPT ![t] = "parked"]
    /\ arg' = [arg EXCEPT ![t] = NoArg]
    /\ Ran(t)
    /\ UNCHANGED <<now, instant, deferred, anchor, instantEnd, instantSeq, cancelled, advancing, calls>>

\* t is cancelled in one of the two checkpoints: it registers nothing.
CancelEarly(t) ==
    /\ CanRun /\ t \in External /\ pc[t] \in {"sleep", "wait_until"}
    /\ Continue(t) /\ Ran(t)
    /\ UNCHANGED <<now, clock, cancelled, seq, advancing>>

\* t is cancelled while parked: its entry is marked, the heap's dead tops dropped.
CancelSleep(t) ==
    /\ CanRun /\ t \in External /\ pc[t] = "parked"
    /\ cancelled' = cancelled \cup {w.seq : w \in {v \in Live : v.owner = t}}
    /\ heap' = heap \ Popped(heap, {w \in heap : w.seq \in cancelled'})
    /\ Continue(t) /\ Ran(t)
    /\ UNCHANGED <<now, instant, deferred, anchor, instantEnd, instantSeq, seq, advancing>>

\* call_at(): one due in the instant being served joins it.
CallAt ==
    /\ CanRun /\ calls < MaxCalls
    /\ \E x \in Deadlines, p \in Priorities :
         IF anchor # NoTime /\ x <= now
         THEN instant' = instant \cup {Entry(x, p, Host)} /\ UNCHANGED heap
         ELSE heap' = heap \cup {Entry(x, p, Host)} /\ UNCHANGED instant
    /\ seq' = seq + 1 /\ calls' = calls + 1
    /\ UNCHANGED <<now, deferred, anchor, instantEnd, instantSeq, cancelled, advancing, pc, arg, drv>>

\* The cancel that call_at() returned.
CancelCall ==
    /\ CanRun
    /\ \E w \in Live : w.owner = Host /\ cancelled' = cancelled \cup {w.seq}
    /\ UNCHANGED <<now, clock, seq, advancing, pc, arg, calls, drv>>

-----------------------------------------------------------------------------
Init ==
    /\ now = 0 /\ heap = {} /\ instant = {} /\ deferred = {}
    /\ cancelled = {} /\ seq = 0
    /\ anchor = NoTime /\ instantEnd = NoTime /\ instantSeq = 0
    /\ advancing = FALSE
    /\ pc = [t \in Tasks |-> "ready"] /\ arg = [t \in Tasks |-> NoArg]
    /\ calls = 0
    /\ drv = [d \in Drivers |-> Idle]

Drive(d) ==
    Begin(d) \/ Checkpoint(d) \/ HookIdle(d) \/ HookBusy(d) \/ Abort(d)
        \/ ServeCurrent(d) \/ ServeNext(d) \/ NoneDue(d)
Step(t) == Run(t) \/ SleepStep(t) \/ WaitPast(t) \/ Park(t)
Next ==
    \/ \E d \in Drivers : Drive(d)
    \/ \E t \in Tasks : Step(t) \/ Resume(t) \/ CancelEarly(t) \/ CancelSleep(t)
    \/ CallAt \/ CancelCall
Spec == Init /\ [][Next]_vars

\* The event loop runs every runnable task; a driver's own steps follow; a
\* settle() hook returns.  Nobody need call advance_to, nor cancel anything.
Fairness ==
    /\ \A d \in Drivers : WF_vars(Checkpoint(d)) /\ WF_vars(ServeCurrent(d) \/ ServeNext(d) \/ NoneDue(d))
                          /\ WF_vars(HookIdle(d) \/ HookBusy(d))
    /\ \A t \in Tasks : WF_vars(Step(t))
FairSpec == Spec /\ Fairness

-----------------------------------------------------------------------------
(* What the clock promises.                                                  *)

Entries == [deadline : Nat, priority : Int, seq : Nat, registeredAt : Nat, owner : Tasks \cup {Host}]
Places == {"ready", "sleep", "wait_until", "parked", "busy", "done"}
Args == [time : Nat, priority : Int]
Advances == [phase : {"idle", "settle", "hook", "serve"}, final : BOOLEAN, goal : Goals \cup {NoGoal},
             left : 0..Rounds, settles : 0..(MaxSettles - 1), owed : SUBSET Tasks]

\* Every variable has its type, and a settle keeps to its budgets of rounds and
\* repeats (_settle).
TypeOK ==
    /\ now \in Nat /\ heap \subseteq Entries /\ instant \subseteq Entries /\ deferred \subseteq Entries
    /\ cancelled \subseteq Nat /\ seq \in Nat /\ anchor \in Int /\ instantEnd \in Int /\ instantSeq \in Nat
    /\ advancing \in BOOLEAN /\ calls \in Nat
    /\ pc \in [Tasks -> Places] /\ arg \in [Tasks -> Args]
    /\ drv \in [Drivers -> Advances]

\* No sleeper is lost or woken twice: through wakes, cancellations, failed and
\* retried advances (the finally block and lazy deletion), a task is parked
\* exactly while one live entry of its own is pending, in one place only.
ParkedIffPending ==
    /\ heap \cap instant = {} /\ heap \cap deferred = {} /\ instant \cap deferred = {}
    /\ \A v, w \in Pending : v.seq = w.seq => v = w
    /\ \A t \in Tasks : pc[t] = "parked" <=> \E w \in Live : w.owner = t
    /\ \A v, w \in Live : v.owner = w.owner /\ v.owner \in Tasks => v = w

\* One driver at a time; between advances everything pending is in the heap and
\* no instant is open, however the last advance ended (the finally block).
OneDriver ==
    /\ \A d, e \in Drivers : drv[d].phase # "idle" /\ drv[e].phase # "idle" => d = e
    /\ advancing <=> \E d \in Drivers : drv[d].phase # "idle"
    /\ ~advancing => instant = {} /\ deferred = {} /\ anchor = NoTime

\* Virtual time never moves back, whoever drives it and however advances fail.
MonotoneTime == [][now' >= now]_now

\* The live entries this step takes out: the one a driver wakes.
Fired == {w \in Live : w \notin heap' \cup instant' \cup deferred' /\ w.seq \notin cancelled'}
Serves(d) == drv[d].phase = "serve"

\* Nobody wakes before its deadline, but for the goal's tolerance and then at
\* the goal; nobody wakes later than its deadline but for a tolerance, unless it
\* was past due when it was registered (_pop_due sets now() to the instant).
WakesOnTime ==
    [][\A w \in Fired, d \in Drivers : Serves(d) =>
         /\ w.deadline <= now' \/ (Near(w.deadline, now', drv[d].goal) /\ now' = drv[d].goal.t)
         /\ now' <= w.deadline \/ w.deadline <= w.registeredAt \/ \E g \in Goals : Near(w.deadline, now', g)]_vars

\* Wake order: whoever is pending with an earlier or equal deadline, registered
\* before this instant and not set aside, is of the same instant and behind in
\* (priority, registration) order.  A callback registered during the instant
\* that joins it is in that order with the rest of the instant.
WakeOrder ==
    [][\A w \in Fired, d \in Drivers : Serves(d) =>
         \A v \in heap' \cup instant' \cup deferred' :
            (/\ v.seq \notin cancelled /\ v.deadline <= w.deadline
             /\ v.seq < instantSeq' /\ ~SetAside(v, drv[d].goal)
             /\ w.seq < instantSeq' \/ v \in instant')
              => Sooner(w, v) /\ (w.seq < instantSeq' => Near(v.deadline, w.deadline, drv[d].goal))]_vars

\* All entries of an instant see one now().
OneNow == [][anchor # NoTime /\ anchor' = anchor /\ instantSeq' = instantSeq => now' = now]_vars

\* A re-sleep inside the tolerance cannot spin: time has moved between the
\* registration of a sleeper and its wake.
SleepTakesTime == [][\A w \in Fired : w.owner \in Tasks => now' > w.registeredAt]_vars

\* When an advance ends by reaching its goal, nobody due stays asleep: whatever
\* is pending lies beyond the goal, and within its tolerance only if it was
\* registered at the goal.
NobodyLeftBehind ==
    [][\A d \in Drivers : Serves(d) /\ drv'[d] = Idle /\ Fired = {} =>
         \A w \in heap' : w.seq \notin cancelled => w.deadline > now' /\ (Due(w, drv[d].goal) => w.registeredAt = now')]_vars

\* With enough rounds, and a settle() hook so that the first wake is preceded by
\* a settle too, time never moves while a task that only uses the clock has work
\* at the present instant: its sleeps are registered at the time it made them.
TimeWaitsForWork == [][now' # now => (Tasks \ External) \cap Runnable(pc) = {}]_vars

\* Every advance ends: by reaching its goal, or by raising.
AdvanceEnds == \A d \in Drivers : drv[d].phase # "idle" ~> drv[d].phase = "idle"
=============================================================================
