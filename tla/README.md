# chrono_daemon in TLA+

chrono_daemon is a small library on anyio for hosting long-running tasks
("daemons"): a supervisor starts, restarts and stops them, channels connect
them, and a clock, real or simulated, tells them the time. Everything runs in
one event loop, so only what lies between two `await`s is atomic; the ZeroMQ
channel also connects two processes. This directory holds TLA+ models of the
parts where interleaving, cancellation, failure and time meet, the TLC
configurations that check them, and TLAPS proofs about every one of them. Source paths below are relative to `src/src/chrono_daemon/`.

## The system

| component | state | operations | hard because | correct when |
|---|---|---|---|---|
| SimClock (`clock.py`) | virtual time, heap of waiters, the instant being served, entries set aside, the `_advancing` flag | `sleep`, `wait_until`, `call_at` and its cancel, `advance`, `advance_to`, `every` | woken tasks run between two wakes and register, cancel or raise; two drivers; tolerances | nobody is lost, early, late or out of order; time waits for work and never moves back; an advance ends |
| WallClock (`clock.py`) | none | `sleep`, `wait_until`, `every`, on real time | time passes between two readings; timers fire early | ticks are fresh, on schedule, and not repeated |
| Supervisor (`supervisor.py`, `context.py`, `daemon.py`) | daemon records, a count of hosts, stop and all-done events, the task group | enter, leave, `add`, `signal_stop`, `stop`, `wait_all_started`, `snapshot`, the host loop | hooks return, raise or are cancelled anywhere; stop races exit, restart and leaving the block | cleanup is owed and given once; no stop misses the end; records are true; everything ends |
| Channel (`channel.py`) | two busy flags, an anyio memory stream | `send`, `receive`, their `_nowait` forms, `aclose` | blocked calls are cancelled, passed by nowait calls, or closed on | it is a first-in-first-out stream that loses nothing it accepted |
| ZeroMQ channel (`transports/zmq.py`) | flags of two endpoints, socket queues, control frames | the same, between sockets | high-water marks, linger, EOF and CLOSE frames that race data | the same promise, as far as the sockets keep it |
| SupervisorHost, sync_bridge (`recipes/hosting/`) | a start flag, a background task or thread | `start`, `stop`, `with` | start, failure and stop overlap; a timeout races the setup | one supervisor at a time; start returns or raises; stop ends |
| batcher, select, cooperative_every (`recipes/coordination/`) | a request channel, reply channels | `submit`, batching loop; race of receives | cancelled submitters, a window that ends as a request arrives, losers of a race | every request is answered once; no item is lost |
| merge, load_balance, fanout, worker_pool (`recipes/routing/`, `_flow.py`) | forwarders, a gate, a ready channel | one loop per source or worker | one side closes or fails while the others are blocked | every item goes where it should; a close travels through |
| lossy, latest (`recipes/state/`) | a bounded channel, a cell | offer, set, get | dropping past a receiver in a call | the newest value survives |
| Context, Daemon, logging, types | immutable records | - | - | - |

Daemons reach the clock and the channels only by calling them; the supervisor
uses the clock for backoffs; recipes are written against the channel protocols,
so they run over either channel. `Stream` is that protocol, and both channels
are shown to implement it: recipes can be modelled over it.

## Modules

| module | stands for |
|---|---|
| `SimClock` | class SimClock: tasks, callbacks, drivers |
| `Supervisor` | class Supervisor with the daemons it hosts |
| `Stream` | the protocols SendStream and ReceiveStream: what a channel promises |
| `Channel` | `_Send` and `_Recv` over the anyio stream; implements `Stream` |
| `ZmqChannel` | `_ZmqSend` and `_ZmqReceive` over a pair of PAIR sockets; implements `Stream` |
| `Every` | `every()` of both clocks, consumed by cooperative_every |
| `Batcher` | `submit` and `batcher_loop`, over a channel of the in-process kind |
| `Routing` | merge, load_balance, tee, worker_pool, SendGate and select, over channels of that kind |
| `Hosting` | SupervisorHost and host_async_dispatcher, over an abstract supervisor |
| `SimClockProofs`, `SupervisorProofs`, `ChannelProofs`, `ZmqChannelProofs`, `EveryProofs`, `BatcherProofs`, `RoutingProofs`, `HostingProofs` | the theorems of each, for all values of its constants |
| `MCSimClock`, `MCSupervisor`, `MCChannel`, `MCZmqChannel`, `MCEvery`, `MCBatcher`, `MCRouting`, `MCHosting` | the instances TLC checks |

In every module one action is what one task runs from one `await` to the next.
Operators named in a comment as a mutant are deliberate errors, put in place of
the definition that follows them to see that a property notices. Definitions
keep the names of the code where TLA+ allows it; `PROJECT.json` maps each one to
its lines.

### SimClock

`now`, `heap`, `instant`, `deferred`, `seq`, `anchor`, `instantEnd`,
`instantSeq` and `advancing` are the fields of the object. A heap is a set of
entries with the order of `_Waiter.__lt__`; a loop that pops is the prefix it
removes (`Popped`). `pc` and `arg` say where each task is in `sleep` or
`wait_until`, each of which has a checkpoint before it reads the time. `drv`
holds each driver's `advance_to`: `settle` (in a checkpoint of `_settle`),
`hook` (in the host's `settle()` callback), `serve` (from there to the next
settle, where nothing is awaited and nobody else moves).

- A round of a settle is over when every task that was runnable at its start
  has run once: that is what a checkpoint of the event loop gives.
- `Begin`, `Checkpoint`, `HookIdle`, `HookBusy`, `Abort`, `ServeCurrent`,
  `ServeNext` and `NoneDue` are the steps of `advance_to`; `advance(dt)` is
  `advance_to(now + dt)`. A callback that raises, a hook that raises or is
  never satisfied, and a cancelled driver all take the `finally` block.
- What a callback does (register, cancel) happens in the settle that follows it,
  as an action of the host. `MaxCalls` bounds the calls made in all.
- Times are natural numbers and `rtol` a multiple of `1/RtolUnit`; rounding of
  floating-point times and infinite deadlines are not modelled.

### Supervisor

`at` says where each daemon's `_host` is: its three hooks, the shielded on_stop
of an exception path, a backoff, or outside. `record` is `_DaemonRecord`, with
what `snapshot()` shows of it, `last_error` by its kind. A hook returns, raises an `Exception` ("error") or
another `BaseException` ("fatal"), or is cancelled at an await, by its own scope
(`CancelScope`, then `ScopeCancelled`) or by the group (`GroupCancelled`); when
both are cancelled either may be seen first. `cleanup` is history: what became
of the attempt's on_stop. Grace, finalize budget and backoff have no length: they
may end at any moment. Without a limit, retries are counted up to `RetryCap` only.
A cancellation by the daemon itself during on_start lets on_stop run although
on_start did not finish; the model does the same. The supervisor is entered once.
`LateAdds` says whether `add()` is called after a stop or after the owner left.

### Stream, Channel, ZmqChannel

`Stream` numbers the items and keeps those accepted, queued, received (`got`) and
those whose `send()` returned (`kept`). `Put`, `Pass` (hand to hand), `Return`,
`Withdraw`, `Take`, `Replace` (an old item makes way for a new one), `End` and the two
closes are all it allows.

`Channel` has the busy flags of the code and the buffer and waiting lists of
anyio's memory stream, which is external and modelled from how it is used.
A parked task may be cancelled; once woken it goes on (that is how anyio treats
a task whose event is set). A call that raises at once changes nothing and is not
an action. `aclose()` of the receive side wakes senders but not its own parked
receiver; that one is woken by the next item or by its owner's cancellation. The check for a pending
cancellation with which a `send()` begins is not a step of its own: it gives way to others
only in a cancelled scope, and then the call raises and frees the endpoint.

The lossy wrappers are actions of `Channel`, next to other producers and consumers of
the same endpoints: `DropNewest` and `DropOldest` are their sends when there is no room
(with room they are `SendNowait`); drop-oldest without anything to take is `DropNewest`.
`CoalesceSend` is `DropOldestSend` on a `maxsize=1` channel. `MaxDrops` bounds the drops.

`ZmqChannel` has two queues of `Hwm` frames, one per socket, and the CLOSE frame
that travels the other way. libzmq is external: a socket that binds holds nothing
before a peer connects, a socket that closes cancels the call that waits on it and
may drop what it still holds (`LingerExpires`, at any time or never, which covers
every `linger_ms`), kernel buffers are left out. Either side may bind, and any task
may close an endpoint while another is in a call on it. In the mapping to `Stream`
the queue is what is on its way before EOF; the send side is open until EOF is out
or its socket is closed, the receive side until its socket is closed and the sender
has read CLOSE. An item that follows EOF is not part of the stream. A send may raise
because its item cannot be encoded, after it has read the control frames; an item that
cannot be decoded is received, and `receive()` raises.

### Batcher

Each member of `Requests` is one call of `submit()`. `queue` is the request channel;
`phase`, `recv` and `batch` are where the loop is. An item that `Channel` hands to
the parked receiver stays at the head of `queue` until the loop runs, which is why
the channel has room for one more meanwhile. A delay window is a race between a
`receive()` and a timer: the timer cancels a receive that has no item yet; one that
was handed an item goes on with it. `forward` returns any number of responses, raises
an `Exception`, or kills the loop. A cancelled submit leaves its request in the
channel: it is forwarded and answered into a channel nobody reads.

### Every

One call of `every()` and its consumer. `tick` is the next tick (`next_t`, or
`t0 + n * period`), `asked` the time at which it was computed; the skipping loop is the
least step that ends it. `WallClock` reads the time once more before it waits, and it
may have moved; in a `SimClock` nothing moves between two awaits. `Early` is how much
too soon a wait may end: the tolerance of an advance, or the resolution of a timer.
`Horizon` bounds time.

### Routing

A channel is the sequence of items ever put into it (`log`) and the number of those
received (`taken`); `Room` and a parked receiver's extra place are those of `Channel`.
`pc` says where each task of the recipe is: in a `receive()`, waiting for the gate, in a
`send()`, in the handler. `item` is what it has received and not passed on, `todo` the
channels that still have to get it; a tee has several. The producers, the consumers and a
scope around the recipe are external: they send, drain, close and cancel at any time
until the recipe is over. A task whose `receive()` was handed an item goes on with it,
cancelled or not. `MaxItems` bounds the items sent; argument checks are left out.

### Hosting

`started`, `ready`, `stop`, `done` and `error` are the fields of `SupervisorHost`, `run`
and `exc` are where `_run` is and what it is raising. The supervisor is what `Supervisor`
shows of it, with one daemon for all: `crew` starts, ends, fails (which cancels its group
and stays on record) or is cancelled; it is launched by the first entry only, as in the
code, where later entries find nothing pending. Anyone may stop the supervisor behind the
host's back (`StoppedByOther`), cancel the task group, or cancel a call of `start()` or
`stop()`. With `bridged` the one caller is `_serve`, `main` is the synchronous caller, and
leaving the portal cancels `_serve` if there was an exception and waits for it in any case,
as anyio's `start_blocking_portal` does. `start()` is called only when no other call is in
progress and the caller's task group is not cancelled: a `start()` in a cancelled group is
not taken, but a cancellation just after `Start`, before anything else runs, reaches the
same states. `start_soon` on a group that is no longer active raises, and is left out. A
`start()` that returns means that the start barrier was resolved, which a crew that ended in
on_start does too. `MaxStarts` bounds the restarts.

## Runs

| run | checks | instance |
|---|---|---|
| `clock_time` | wake times, wake order, one `now()` per instant, no spinning, nobody left behind, time waits for work | two tasks, callbacks, deadlines 1 to 3, two priorities, three rounds, goals with and without tolerance, three calls: enough for an entry to be in the heap, one in the instant and one set aside |
| `clock_fail` | no sleeper lost, one driver, monotone time, every advance ends | two drivers with different goals and tolerances, a task that may be cancelled, a hook that repeats twice; its two calls bound the serving, so `AdvanceEnds` is about settles that repeat |
| `supervisor_safety` | events, records, cleanup, which failures cancel the group, retries, forced stop | two daemons, two callers of `stop()`, one waiter, all policies, one retry, no late adds |
| `supervisor_ends` | draining, leaving, signalled stops, the start barrier | two daemons, one waiter, all policies, unlimited retries, late adds |
| `channel` | busy flags, nobody waits for nothing, drops are counted, refinement of `Stream`, closes end calls | two tasks on each side, `maxsize` 0, 1 and 2, five items, two drops: a full buffer, a blocked sender and one more |
| `zmq` | no gaps, EOF means all, refinement of `Stream`, frames arrive | `maxsize` 1 (two frames per socket), six items, either side binds |
| `batcher` | nothing lost or overtaken, returns drained, every submit and the loop end | three submits, batches of two, `maxsize` 0 and 2, with and without a window: a full batch, one in the window, one left behind |
| `routing` | every item routed once and in order, a destination ends exactly if the recipe is over and was asked to close it (a pool cancelled from outside excepted), the recipe ends | all five recipes, two sources, destinations or workers, channels of one item, `worker_buffer` 0 and 1, three items (two for the pool): a destination has its second turn, a worker is busy while its next job is queued, a result waits for room |
| `hosting` | calls report what happened, nothing left behind, every call ends | two callers and three starts, or the bridge: one start that comes up, one that fails and one after it |
| `every` | every tick is the first one due after it was asked for | both clocks, periods 2 and 3, waits up to 1 too short, ten units of time: several periods may pass in one body |
| `supervisor_late_add`, `zmq_eof_lost` | expected violations, see below | |

Tasks of a kind are interchangeable in the code, so two of each, plus a third
actor where a race needs it, show every pair of positions. Symmetry is used in
runs without liveness only. `supervisor_safety` excludes late adds because
`StopIsForced` fails with them (`supervisor_late_add`); the theorems of
`SupervisorProofs` cover late adds, and so does `supervisor_ends`.

### Fairness

- SimClock: a driver goes on once its round is over, the host's hook returns, and
  the event loop runs every runnable task. Nobody need ever call `advance_to`.
- Supervisor (`LibraryFairness`): a cancelled hook ends, a shielded on_stop ends
  within its budget, and `__aexit__`, `stop()` and `wait_all_started()` go on
  when what they await has happened. Drain and teardown need no more.
  `SignalledStopEnds` and `BarrierReleased` are implications from `Cooperation`:
  on_start and on_stop complete, `run` does once a stop is signalled, and the
  clock of a backoff is driven; that is the contract the docs state for daemons.
  The barrier also assumes that no daemon crash-loops for ever, for then
  on_start may never succeed and the barrier is rightly held.
- Channel: a woken task, or one in a checkpoint, runs.
- Batcher: the loop, woken callers and replies run, `forward` ends, and the clock of
  a window is driven. Nobody need submit or close.
- Routing: the tasks of the recipe run, handlers end, and destinations that are open are
  drained: the docstring of `worker_pool` asks for that, and says that dispatch
  deadlocks without it. Nobody need send, close or cancel.
- Hosting: tasks run, on_start ends, a cancelled daemon and the `on_stopping` callback
  end, the grace period and `ready_timeout` pass. `setup` need not end.
- Every: none, its property is about safety.
- ZmqChannel: the same as Channel, and the network connects and delivers. No fairness on
  `LingerExpires`, on closes, or on anybody's calls.

## Proofs

`SimClockProofs` proves, for every set of tasks, drivers, goals and budgets:
types and settle budgets (`TypeCorrect`), one driver at a time with everything put
back in between (`OneDriverAlways`), monotone time (`TimeIsMonotone`), and that no
sleeper is lost or doubled (`NoSleeperLost`).
`DriveInv` adds the goals of the drivers to `OneDriver`: monotone time needs that a
goal is never behind the present. `ParkedIffPending` alone is not inductive either:
a new entry could carry the number of an old or of a cancelled one, so `ParkInv` adds
`FreshSeq`, that the numbers in use are below the counter. The core is `GatherKeeps`:
`_pop_due` and `_heap_due` drop only cancelled entries and put every other one in
exactly one place. From it follow the same fact for a wake and for the `finally`
block, and each action then takes one live entry away with its sleeper
(`FewerPending`) or adds one (`OneMorePending`). Assumptions: the four `ASSUME`s of
`SimClock`.

Its action properties take two more layers. `SleepInv` adds that a sleeper was registered
before its deadline, and what the tolerance of the goal at hand allows in the instant and
among the entries set aside; `SleepsTakeTime` (a re-sleep cannot spin) and
`NobodyIsLeftBehind` follow. The second needs that a heap has an earliest entry
(`EarliestEntry`, by the least registration number, as priorities may be any integers), and
that what is not near the goal is followed by nothing that is (`NearFades`). `ClockInv` adds
`OpenOK`, which describes the open instant: entries of it registered before it lie between its
anchor and its end and are near the anchor, one that `call_at` put in is not in the future,
and no entry of the heap that is older than the instant could still join it; and `OnTime`:
what is pending is not late but for a tolerance. With `NearShrinks` (times between two that
are near are near) these give `WakesAreOnTime`, `WakesInOrder` and `OneNowPerInstant`. The
argument for the last is that the end of an open instant never moves, because nobody from
the heap joins it after it was gathered.

`TimeWaits` and `ThreeRoundsDo` prove `TimeWaitsForWork` under the hypotheses it needs. Both
ask for a `settle()` hook on every goal, for without one `advance_to` serves before it has
settled. `Hops` counts the checkpoints a task passes, at most, before it parks or ends: a
woken task has three (its wake, `sleep`, `wait_until`), and a call that returns at once
(`sleep(0)`, a deadline that is past) leads to two more. `WorkOK` says that the rounds left
of a settle cover the hops of every task, one round less if it has not run in this one,
and that nobody has any left between a settle and the next wake. If no call returns at
once, three `settle_rounds` do; if calls may, `Rounds` has to grow with their number, which
`TimeWaits` states with `MaxCalls`: without such a bound a task that loops over `sleep(0)`
outlasts any number of rounds. The instance of `clock_time` has three rounds; its
three calls are too few for a call that returns at once to matter.

`SupervisorProofs` proves, for every set of daemons, callers and policies, with
late adds or not: types (`TypeCorrect`), the host count (`CountIsRight`), that no
`stop()` misses the last exit (`NoStopMissed`), that records agree with hosts
(`HealthIsTrue`), and that on_stop is attempted (`CleanupOwed`) and at most once
per attempt (`CleanupOnce`). The invariant is `Shape` (types), `Counting` (the count
is the cardinality of the hosted set; who waits in `stop()` has signalled, and if
nobody is hosted then all-done is set) and, for each daemon, `HostOK`: what its record,
cause and cleanup history may be at each place of its host; among this, that an exception
on the record of a daemon that goes on or has stopped is one its policy tolerates (`Policy`
says that `Terminal`, `MayRetry` and `Exceeded` decide just that). The last is needed because the
promise "on_stop was attempted" at the end of an attempt depends on what the history
was in every place before it. Assumptions: the three `ASSUME`s of `Supervisor`.

Three action properties follow from it with what a step of a host may do to its
own daemon (`HostEffect`) and other steps to any (`OtherEffect`). `FailuresRecorded`:
a daemon cancels the group only by a failure that is on its record and that its policy does
not tolerate, wherever it was raised (`Tolerates` states the policy apart from the code's
tests), or by a `BaseException` out of a shielded on_stop, which is on no record. `RetriesAreBounded` needs
`BackoffOK`, that a daemon in its backoff has a retry left. `StopForces` needs
`DoneForGood`, that nobody is hosted once all-done is set, which is where its hypothesis
`~LateAdds` comes in; `supervisor_late_add` shows that it fails without.

`ChannelProofs` proves, for any tasks, `maxsize` and numbers of items and drops, that the
busy flags are true (`EndpointsAreSingleOwner`), that no blocked call has room, an item
or a close for it (`NobodyWaitsInVain`), that drops are counted (`DropsCounted`), and that
`Channel` implements `Stream` (`ChannelImplementsStream`). The invariant has one part for
each side: `SendSide` and `RecvSide` say that at most one task is inside, that the
waiting list is that task's entry or empty, and that a sender whose entry has gone was
served; `Room` is about the buffer, `Kept` about items whose `send()` has returned. In the
refinement the queue of `Stream` is the buffer followed by the blocked item; each action is
shown to be one action of `Stream` or a stutter. `ChannelKeepsItsPromise` states what that
means for users, and follows from the steps of `Stream` alone: the items handed out and
those queued form one increasing sequence, which has every item whose `send()` returned, and
the first `EndOfStream` comes when it is all out and is final.

`ZmqChannelProofs` proves that items are received in order and without gaps
(`ReceivedInOrder`), that the end means all (`EndComesLast`), and `ZmqImplementsStream`,
for any `maxsize` and number of items and either binding. The frames on their way, in
the two sockets or dropped, are one sequence in one of three states: only items
(`Flowing`), items up to an EOF with at most one item behind it (`Closing(e)`), or what is
left after EOF was received (`Ended`). `NoGaps` is not inductive without knowing which, and
the mapping to `Stream` is computed for each of the three before the steps are compared.

`BatcherProofs` proves types and the bound of the channel (`TypeCorrect`), that requests
move from channel to batch to answer in order, none lost (`NoRequestLost`), that the loop
returns drained (`ReturnsWhenDrained`), and that no request is answered twice
(`OneAnswerEach`). `LoopOK` says what the loop holds and awaits in each phase, `ChannelOK`
that only an item handed to a parked loop exceeds `maxsize`, `CallsOK` that a request is
accepted once; the last two are what the timer of a window and a cancelled submit could
break.

`EveryProofs` proves `TicksAreFresh` for any periods, early wake-ups and time of the bodies.
The invariant keeps the tick on the schedule and next after the moment it was asked for. That
the skipping loop stops at the first such tick is the least-number principle,
`LeastNat`, which comes from the well-foundedness of `<` by a set, not an operator. The
assumption that a wait never ends a whole period early is that of the model.

`RoutingProofs` proves `RecipesDeliverBeforeTheEnd` for any number of sources,
destinations, workers and items. `TaskOK` says of each task what it holds and where it goes
at each place, and that, if it has ended in a group that is not cancelled, its input is
closed and empty; `GroupOK` says why a group is cancelled, `ClosedOK`
when exactly destinations are closed, and that the dispatcher finds its job channels open.
The exception for a pool cancelled from outside is in the statement: there the code leaves
`results` open. One lemma each shows that a step leaves the
tasks that do not make it alone (`OthersOK`), that a task ends (`Ending`) or goes on
(`Moving`) properly; the actions are cases of these.
`ItemsAreRoutedOnce` proves `RoutedOnce`, which counts items across channels and tasks.
`RInv` makes it inductive. `SpotsOK` says that an item that was received is with one task or in
one slot (a position of the output, or one of a worker's queue that was not received yet),
and that any other item is nowhere. That the next item received is new is `SourceOK`: a
source numbers its items, and `taken` is how far the recipe has read. For a tee, `TeeOK` says
that every destination has the items so far but for one still owed; `OrderOK` that what a
task holds comes after what it has sent; `DealtOK` that `load_balance` has dealt some
number of full rounds and one that ends before `idx`; `WinnerOK` that what `select` returns
is an item received, as soon as there is one. A step that moves no item keeps all
of these (`QuietKeeps`), so the work is in two actions: a task receives (`TakesRouted`) or
sends (`SendsRouted`).

`HostingProofs` proves `HostsLeaveNothing` and `CallsTellTheTruth` for any callers and
number of restarts. `RunOK` relates the flags of the host to where its run is, `BridgeOK`
the synchronous caller to the one call of `_serve`.

The assumptions of all these are the `ASSUME`s of the modules: sizes, bounds and counts are
natural numbers, some of them not zero, and periods exceed `Early`. TLC checked each
inductive invariant on the instance of its run before it was proved.

Every invariant and every action property of the passing runs is a theorem. Only
model-checked is all liveness, as the prover does not do fairness or `ENABLED`:
`AdvanceEnds`, `GroupDrains`, `SignalledStopEnds`, `BarrierReleased`, `CallsEnd`,
`FramesArrive`, `SubmitEnds`, `LoopEnds`, `RoutingEnds` and `HostingEnds`.

## Where the code and its documentation differ

The first two are the expected violations of runs.

1. `supervisor_late_add`: `_all_done` is never cleared; a daemon added after a
   finished stop is not force-cancelled by the next `stop()` (`supervisor.py:227`,
   against `docs/concepts.md:88-90`).
2. `zmq_eof_lost`: data may fill the slot reserved for EOF; `aclose()` then
   announces nothing to a peer that is connected and still receives, and it waits for ever (`zmq.py:213`, against 81-83).

Visible in the models, without a run of their own:

- Clock: a `call_at` registered while a past-due instant is served joins it and runs
  before an older callback of the same deadline (`clock.py:170`, against `clock.py:201`
  and 167). `WallClock.every` yields a tick again if the wait for it ended early, since it
  moves on only past ticks that are not in the future (`clock.py:86`); `SimClock.every`
  does not.
- Routing: `select` drops the item of a loser that was handed one before it was cancelled
  (`select.py:38`). A worker pool that is cancelled from outside leaves `results` open: the
  close of the ready channel before it is an await, and raises (`worker_pool.py:87`).
- Lossy: with a `send()` blocked on the same endpoint, drop-oldest drops the oldest and the
  newest item, and the blocked one gets the room (`lossy.py:86`).
- Hosting: a `start()` that overlaps a `stop()` of the run before may be undone by it, for
  the late `stop()` clears `_started` (`supervisor_host.py:67`), and then two runs share one
  supervisor. A `stop()` during startup is not seen before the barrier, and waits for every
  on_start; the `start()` then succeeds (`supervisor_host.py:84`). A `start()` also succeeds
  if somebody else stops the supervisor during startup (`supervisor_host.py:105`). After a
  stop no daemon is pending, so a second `start()` hosts none; after a failure it always
  fails, as the record stays "failed" (`supervisor_host.py:79`). A daemon that fails once the
  bridge's caller is inside is reported to nobody (`sync_bridge.py:69`), and a `setup` that
  returns `None` trips the assertion in line 83.
- ZeroMQ: a `send()` that waits for room does not see CLOSE and may wait for ever
  (`zmq.py:183`, against `channel.py:48`). An `aclose()` by another task during the
  checkpoint of a `send()` puts EOF before its item, which is never received although
  `send()` returned (`zmq.py:179`, against `channel.py:60`); `EndMeansAll` says that it is at
  most this one.
- Supervisor: the stop event is not read again after a backoff, so one more attempt follows
  a stop ("stop wins over retry", `supervisor.py:351`); a `stop()` whose grace ends after
  the owner left the block cancels nobody (`supervisor.py:227`); a daemon added while the
  owner leaves is queued and never launched (`supervisor.py:181`); one cancelled in its
  backoff stays "restarting" on record (`supervisor.py:362`); an on_stop of the normal path
  that is under way when the group is cancelled is cut off, without the shield that ADR 0009
  describes (`supervisor.py:323`); `restart_count` ends one above the restarts made when
  the retries are used up (`supervisor.py:356`).
- Batcher: a `BaseException` out of `forward` reaches no caller of the batch, who then wait
  for ever (`batcher.py:144`, against its docstring, lines 4-5: "If `forward` raises, every
  caller in that batch receives the same exception").

## Not modelled

`snapshot` and `statistics` (they read only), `latest` (one assignment), logging, types,
argument checks, the decorator API, re-exports and the examples; a second connection of the
ZeroMQ socket, and frames of a foreign peer; the rounding of floating-point times; a second
entry of a supervisor in `Supervisor` (`Hosting` has it, over the abstract one); calls of
`SupervisorHost.start` that overlap another call. `_drop_cancelled_tops` of the clock is
called by nobody.

## Plan

Every part with state or control of its own is modelled, and every safety property of a
run is proved. What could follow: a run for ADR 0009's shield of on_stop in `Supervisor`, a
`ZmqChannel` whose sender reads control frames while it waits for room, and the variants
(rounds and repeats left of a settle, items left of a recipe) behind the liveness that is
only checked.
