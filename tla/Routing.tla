------------------------------ MODULE Routing ------------------------------
(***************************************************************************)
(* The recipes that move items between channels: merge, load_balance, tee   *)
(* and worker_pool (recipes/routing/), with the SendGate they share         *)
(* (_flow.py), and select (recipes/coordination/).                          *)
(*                                                                          *)
(* All five are tasks of one group that receive an item and send it on; the *)
(* recipe says where to.  Channels are those of module Channel, as seen by  *)
(* their single owners: a send() that finds no room waits for it, and a     *)
(* receive() that was handed an item is not cancelled any more.             *)
(***************************************************************************)
EXTENDS Integers, Sequences, FiniteSets

CONSTANTS
    Recipes,         \* the recipes that are tried
    N,               \* how many sources, destinations or workers there are
    WorkerBuffers,   \* the values of worker_buffer that are tried
    Size,            \* maxsize of the caller's channels
    MaxItems         \* bound of the model: items sent to the sources of each recipe

ASSUME RoutingAssumption == N \in Nat \ {0} /\ Size \in Nat \ {0} /\ MaxItems \in [Recipes -> Nat] /\ WorkerBuffers \subseteq Nat

VARIABLES
    recipe, closes, workerBuffer,   \* which one, its close_* argument, its worker_buffer
    log,         \* every item ever put into each channel, in order
    taken,       \* how many of them were received
    sendOpen, recvOpen,
    pc,          \* where each task is
    item,        \* the item it has received and not sent on yet
    todo,        \* the channels it still has to send to
    idx,         \* load_balance: the next destination
    winner,      \* select: the item it returns
    cancelled,   \* the task group, or a scope around it, is cancelled
    outer,       \* the latter
    failed,      \* what a task has raised
    over         \* the recipe has returned or raised

args == <<recipe, closes, workerBuffer>>
vars == <<args, log, taken, sendOpen, recvOpen, pc, item, todo, idx, winner, cancelled, outer, failed, over>>

Ids == 1..N
Tasks == 0..N                                  \* 0 is the dispatcher of a pool
Src(i) == <<"src", i>>
Dst(i) == <<"dst", i>>
Job(i) == <<"job", i>>
Ready == <<"ready", 1>>
Jobs == {Job(i) : i \in Ids}
Chans == {Src(i) : i \in Ids} \cup {Dst(i) : i \in Ids} \cup Jobs \cup {Ready}
None == <<>>                                   \* items are <<source, number>>

IsPool == recipe = "worker_pool"
Dispatches(p) == IsPool /\ p = 0
Works(p) == IsPool /\ p # 0
Sources == IF recipe \in {"merge", "select"} THEN Ids ELSE {1}
Dests == CASE recipe \in {"merge", "worker_pool"} -> {Dst(1)}
           [] recipe = "select" -> {}
           [] OTHER -> {Dst(i) : i \in Ids}

\* The tasks the recipe starts, and the channel each of them reads.
Started == IF IsPool THEN Tasks ELSE Sources
In(p) == IF Works(p) THEN Job(p) ELSE IF Dispatches(p) THEN Src(1) ELSE Src(p)

-----------------------------------------------------------------------------
(* Channels.                                                                 *)

Pending(c) == taken[c] < Len(log[c])
Oldest(c) == log[c][taken[c] + 1]
Awaited(c) == \E p \in Started : pc[p] = "parked" /\ In(p) = c
Capacity(c) == IF c \in Jobs THEN workerBuffer ELSE IF c = Ready THEN N ELSE Size
Room(c) == recvOpen[c] /\ Len(log[c]) - taken[c] < Capacity(c) + (IF Awaited(c) THEN 1 ELSE 0)

-----------------------------------------------------------------------------
(* The caller's side: producers, consumers, and a scope around the recipe.   *)

Sent == Cardinality({x \in Ids \X (1..MaxItems[recipe]) : x[2] <= Len(log[Src(x[1])])})
Produce(s) ==
    /\ sendOpen[Src(s)] /\ Room(Src(s)) /\ Sent < MaxItems[recipe]
    /\ log' = [log EXCEPT ![Src(s)] = Append(@, <<s, Len(@) + 1>>)]
    /\ UNCHANGED <<args, taken, sendOpen, recvOpen, pc, item, todo, idx, winner, cancelled, outer, failed, over>>

CloseSource(s) ==
    /\ sendOpen[Src(s)]
    /\ sendOpen' = [sendOpen EXCEPT ![Src(s)] = FALSE]
    /\ UNCHANGED <<args, log, taken, recvOpen, pc, item, todo, idx, winner, cancelled, outer, failed, over>>

Consume(c) ==
    /\ recvOpen[c] /\ Pending(c)
    /\ taken' = [taken EXCEPT ![c] = @ + 1]
    /\ UNCHANGED <<args, log, sendOpen, recvOpen, pc, item, todo, idx, winner, cancelled, outer, failed, over>>

CloseDest(c) ==
    /\ recvOpen[c]
    /\ recvOpen' = [recvOpen EXCEPT ![c] = FALSE]
    /\ UNCHANGED <<args, log, taken, sendOpen, pc, item, todo, idx, winner, cancelled, outer, failed, over>>

CancelOutside ==
    /\ ~over /\ outer' = TRUE /\ cancelled' = TRUE
    /\ UNCHANGED <<args, log, taken, sendOpen, recvOpen, pc, item, todo, idx, winner, failed, over>>

-----------------------------------------------------------------------------
(* The tasks.                                                                *)

\* A task ends; the dispatcher closes the job channels, however it ends.
JobsLeftOpen(p) == pc' = [pc EXCEPT ![p] = "done"] /\ UNCHANGED sendOpen   \* mutant
Ends(p) ==
    /\ pc' = [pc EXCEPT ![p] = "done"]
    /\ sendOpen' = [c \in Chans |-> sendOpen[c] /\ ~(Dispatches(p) /\ c \in Jobs)]

\* It raises, and the group is cancelled.
Raises(p, what) ==
    /\ Ends(p) /\ failed' = what /\ cancelled' = TRUE
    /\ UNCHANGED <<args, log, taken, recvOpen, item, todo, idx, winner, outer, over>>

\* receive() has a checkpoint before it looks; then it waits, ...
Parks(p) ==
    /\ pc[p] = "receive" /\ ~cancelled /\ ~Pending(In(p)) /\ sendOpen[In(p)]
    /\ pc' = [pc EXCEPT ![p] = "parked"]
    /\ UNCHANGED <<args, log, taken, sendOpen, recvOpen, item, todo, idx, winner, cancelled, outer, failed, over>>

\* ... raises EndOfStream, which ends the loop, ...
Drained(p) ==
    /\ pc[p] \in {"receive", "parked"} /\ ~Pending(In(p)) /\ ~sendOpen[In(p)]
    /\ Ends(p)
    /\ UNCHANGED <<args, log, taken, recvOpen, item, todo, idx, winner, cancelled, outer, failed, over>>

\* ... or takes an item: a racer of select() wins or drops it; others send it to
\* one destination, in turn, or to all, or have it dispatched or handled first.
Targets == CASE recipe = "merge" -> {Dst(1)} [] recipe = "load_balance" -> {Dst(idx)}
             [] recipe = "tee" -> Dests [] OTHER -> {}
After(p) == CASE Dispatches(p) -> "pick" [] Works(p) -> "handle" [] recipe = "merge" -> "lock" [] OTHER -> "send"
Takes(p) ==
    /\ pc[p] = "parked" \/ (pc[p] = "receive" /\ ~cancelled)
    /\ Pending(In(p))
    /\ taken' = [taken EXCEPT ![In(p)] = @ + 1]
    /\ item' = [item EXCEPT ![p] = Oldest(In(p))]
    /\ IF recipe = "select"
       THEN /\ winner' = IF winner = None THEN item'[p] ELSE winner
            /\ cancelled' = TRUE
            /\ Ends(p) /\ UNCHANGED todo
       ELSE /\ pc' = [pc EXCEPT ![p] = After(p)]
            /\ todo' = [todo EXCEPT ![p] = Targets]
            /\ UNCHANGED <<winner, cancelled, sendOpen>>
    /\ UNCHANGED <<args, log, recvOpen, idx, outer, failed, over>>

\* _dispatch: the next worker that is ready.
Picks(p) ==
    /\ pc[p] = "pick" /\ ~cancelled /\ Pending(Ready)
    /\ taken' = [taken EXCEPT ![Ready] = @ + 1]
    /\ todo' = [todo EXCEPT ![p] = {Job(Oldest(Ready))}]
    /\ pc' = [pc EXCEPT ![p] = "send"]
    /\ UNCHANGED <<args, log, sendOpen, recvOpen, item, idx, winner, cancelled, outer, failed, over>>

\* _worker: handle returns or raises an Exception, which is a result too, ...
Handles(p) ==
    /\ pc[p] = "handle"
    /\ todo' = [todo EXCEPT ![p] = {Dst(1)}] /\ pc' = [pc EXCEPT ![p] = "lock"]
    /\ UNCHANGED <<args, log, taken, sendOpen, recvOpen, item, idx, winner, cancelled, outer, failed, over>>

\* ... or raises another BaseException.
HandleFatal(p) == pc[p] = "handle" /\ Raises(p, "fatal")

\* SendGate: the lock is free when nobody sends to the same channel.
Sending(c) == \E q \in Started : pc[q] = "send" /\ c \in todo[q]
GateOpen(p) == \A c \in todo[p] : ~Sending(c)
Locks(p) ==
    /\ pc[p] = "lock" /\ ~cancelled /\ GateOpen(p)
    /\ IF \E c \in todo[p] : Sending(c)
       THEN Raises(p, "ChannelInUse")
       ELSE /\ pc' = [pc EXCEPT ![p] = "send"]
            /\ UNCHANGED <<args, log, taken, sendOpen, recvOpen, item, todo, idx, winner, cancelled, outer, failed, over>>

\* send() to one of the channels: when the last is done, a worker that has sent
\* its result announces that it is ready, and others receive the next item.
StaysPut == idx                                \* mutant
NextIdx == IF recipe = "load_balance" THEN (idx % N) + 1 ELSE idx
Sends(p, c) ==
    /\ pc[p] = "send" /\ c \in todo[p] /\ Room(c)
    /\ log' = [log EXCEPT ![c] = Append(@, IF c = Ready THEN p ELSE item[p])]
    /\ LET left == todo[p] \ {c}
           announce == Works(p) /\ c # Ready
       IN  /\ todo' = [todo EXCEPT ![p] = IF announce THEN {Ready} ELSE left]
           /\ pc' = [pc EXCEPT ![p] = IF announce THEN "lock" ELSE IF left = {} THEN "receive" ELSE "send"]
           /\ item' = [item EXCEPT ![p] = IF left = {} THEN None ELSE @]
    /\ idx' = NextIdx
    /\ UNCHANGED <<args, taken, sendOpen, recvOpen, winner, cancelled, outer, failed, over>>

Refused(p) == pc[p] = "send" /\ (\E c \in todo[p] : ~recvOpen[c]) /\ Raises(p, "ChannelClosed")

\* The cancellation of the group reaches the task at an await.
Cancelled(p) ==
    /\ cancelled /\ pc[p] # "done" /\ ~(pc[p] = "parked" /\ Pending(In(p)))
    /\ Ends(p)
    /\ UNCHANGED <<args, log, taken, recvOpen, item, todo, idx, winner, cancelled, outer, failed, over>>

\* The finally block.  Destinations are closed side by side, whatever happened;
\* but a pool that is cancelled from outside stops at the close of ready.
UnlessCancelled == closes /\ ~outer           \* mutant
ClosesDests == closes /\ ~(IsPool /\ outer)
Finally ==
    /\ ~over /\ \A p \in Started : pc[p] = "done"
    /\ over' = TRUE
    /\ sendOpen' = [c \in Chans |-> sendOpen[c] /\ ~(c \in Dests /\ ClosesDests)]
    /\ UNCHANGED <<args, log, taken, recvOpen, pc, item, todo, idx, winner, cancelled, outer, failed>>

-----------------------------------------------------------------------------
Init ==
    /\ recipe \in Recipes
    /\ closes \in IF recipe = "tee" THEN {TRUE} ELSE IF recipe = "select" THEN {FALSE} ELSE BOOLEAN
    /\ workerBuffer \in IF IsPool THEN WorkerBuffers ELSE {0}
    /\ log = [c \in Chans |-> <<>>] /\ taken = [c \in Chans |-> 0]
    /\ sendOpen = [c \in Chans |-> TRUE] /\ recvOpen = [c \in Chans |-> TRUE]
    /\ pc = [p \in Tasks |-> IF Works(p) THEN "lock" ELSE IF p \in Started THEN "receive" ELSE "done"]
    /\ todo = [p \in Tasks |-> IF Works(p) THEN {Ready} ELSE {}]
    /\ item = [p \in Tasks |-> None] /\ idx = 1 /\ winner = None
    /\ cancelled = FALSE /\ outer = FALSE /\ failed = "none" /\ over = FALSE

Step(p) ==
    \/ Parks(p) \/ Drained(p) \/ Takes(p) \/ Picks(p) \/ Handles(p) \/ HandleFatal(p)
    \/ Locks(p) \/ (\E c \in Chans : Sends(p, c)) \/ Refused(p) \/ Cancelled(p)
Next ==
    \/ \E s \in Sources : ~over /\ (Produce(s) \/ CloseSource(s))
    \/ \E c \in Dests : ~over /\ (Consume(c) \/ CloseDest(c))
    \/ CancelOutside \/ Finally
    \/ \E p \in Started : Step(p)
Spec == Init /\ [][Next]_vars

\* The event loop runs the tasks, handlers end, and destinations are drained.
FairSpec ==
    /\ Spec
    /\ \A p \in Tasks : WF_vars(p \in Started /\ Step(p))
    /\ \A i \in Ids : WF_vars(Dst(i) \in Dests /\ ~over /\ Consume(Dst(i)))
    /\ WF_vars(Finally)

-----------------------------------------------------------------------------
(* What the recipes promise.                                                 *)

Received == {x \in Sources \X (1..MaxItems[recipe]) : x[2] <= taken[Src(x[1])]}
Count(x, c) == Cardinality({i \in DOMAIN log[c] : log[c][i] = x})
Queued(x, c) == \E i \in taken[c] + 1..Len(log[c]) : log[c][i] = x
Holders(x) == {p \in Started : item[p] = x}

\* An item that was received is in exactly one place: the hands of one task, one
\* worker's queue, or the output, once; tee still owes it to the destinations it
\* has not reached, and to no other.  Items of one source stay in order, and
\* load_balance deals them out in turn.  select(), whose losers drop what they
\* were handed, returns one of the items it received as soon as there is one.
\* (_forward, _dispatch, _worker, tee, _race)
RoutedOnce ==
    /\ \A x \in Received :
          IF recipe = "tee"
          THEN \A c \in Dests : Count(x, c) = IF item[1] = x /\ c \in todo[1] THEN 0 ELSE 1
          ELSE Cardinality(Holders(x) \cup {c \in Jobs : Queued(x, c)} \cup {c \in Dests : Count(x, c) = 1}) = 1
    /\ \A c \in Dests : \A j \in DOMAIN log[c] :
          /\ log[c][j] \in Received
          /\ ~IsPool => \A i \in 1..j - 1 : log[c][i][1] = log[c][j][1] => log[c][i][2] < log[c][j][2]
          /\ recipe = "load_balance" => log[c][j][2] = (j - 1) * N + c[2]
    /\ recipe = "select" /\ Received # {} => winner \in Received

\* Destinations never see the end of the stream before the recipe is over.  Then,
\* if the caller asked for it (close_*), all of them do, whether the recipe
\* returned, raised or was cancelled, but for one case: a worker_pool that is
\* cancelled from outside leaves results open, as the cancellation strikes again
\* at the close of ready (worker_pool.py:87-89).  A normal return has moved every
\* item of sources that are closed, select() raises EndOfStream only if all were
\* closed and empty, and no task ever uses an endpoint another one is using.
EndMeansAll ==
    /\ \A c \in Dests : ~sendOpen[c] <=> over /\ closes /\ ~(IsPool /\ outer)
    /\ over /\ ~outer /\ failed = "none" /\ winner = None =>
          /\ \A s \in Sources : ~sendOpen[Src(s)] /\ ~Pending(Src(s))
          /\ \A p \in Started : item[p] = None
          /\ \A c \in Jobs : ~Pending(c)
    /\ failed # "ChannelInUse"

\* Once the sources are closed the recipe ends, and one item is enough for
\* select(): no task waits for another one for ever.
RoutingEnds ==
    (\/ \A s \in Sources : ~sendOpen[Src(s)]
     \/ recipe = "select" /\ \E s \in Sources : Pending(Src(s))) ~> over
=============================================================================
