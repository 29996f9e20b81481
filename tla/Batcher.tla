------------------------------- MODULE Batcher -------------------------------
(***************************************************************************)
(* Dynamic batching (recipes/coordination/batcher.py): callers submit()     *)
(* requests into a channel of the in-process kind, batcher_loop gathers     *)
(* them into batches, calls forward once per batch and answers each request *)
(* on a private reply channel.                                              *)
(*                                                                          *)
(* One action is what one task runs between two awaits.  The channel is     *)
(* Channel's, with the loop as its only receiver: an item handed to the     *)
(* parked loop is the head of queue until the loop runs.  Time is           *)
(* abstracted: a delay window may end at any moment.                        *)
(***************************************************************************)
EXTENDS Integers, Sequences, FiniteSets

CONSTANTS
    Requests,   \* calls of submit()
    Sizes,      \* the values of the channel's maxsize that are tried
    MaxBatch    \* max_batch

ASSUME BatcherAssumption == Sizes \subseteq Nat /\ MaxBatch \in Nat \ {0}

VARIABLES
    maxsize,
    delays,     \* max_queue_delay > 0
    queue,      \* requests in the channel
    sendOpen,   \* is its send side open?
    call,       \* where each submit() is
    reply,      \* what its private channel holds
    phase,      \* where batcher_loop is: first, window, forward, reply or over
    recv,       \* its receive(): none, checkpoint, parked, woken
    batch,      \* its batch; while it replies, what is left of it
    outcome,    \* what forward gave: responses, or an exception for all
    accepted, answered   \* history: requests that entered the channel, answered ones

config == <<maxsize, delays>>
loop == <<phase, recv, batch, outcome>>
vars == <<config, queue, sendOpen, call, reply, loop, accepted, answered>>

-----------------------------------------------------------------------------
(* submit().                                                                 *)

\* send_nowait would not block: the parked loop takes it, or there is room.
Room == recv = "parked" \/ Len(queue) < maxsize + (IF recv = "woken" THEN 1 ELSE 0)

\* send_when_ready() tries; it polls, a checkpoint between two tries.
Submit(r) ==
    /\ call[r] \in {"idle", "polling"}
    /\ \/ /\ sendOpen /\ Room
          /\ call' = [call EXCEPT ![r] = "waiting"]
          /\ queue' = Append(queue, r) /\ accepted' = Append(accepted, r)
          /\ recv' = IF recv = "parked" THEN "woken" ELSE recv
       \/ /\ sendOpen /\ ~Room
          /\ call' = [call EXCEPT ![r] = "polling"]
          /\ UNCHANGED <<queue, accepted, recv>>
       \/ /\ ~sendOpen
          /\ call' = [call EXCEPT ![r] = "refused"]
          /\ UNCHANGED <<queue, accepted, recv>>
    /\ UNCHANGED <<config, sendOpen, reply, phase, batch, outcome, answered>>

\* The reply is there: submit() returns the response or raises the exception.
SubmitReturns(r) ==
    /\ call[r] = "waiting" /\ reply[r] # "none"
    /\ call' = [call EXCEPT ![r] = IF reply[r] = "responses" THEN "returned" ELSE "raised"]
    /\ UNCHANGED <<config, queue, sendOpen, reply, loop, accepted, answered>>

SubmitCancelled(r) ==
    /\ call[r] \in {"polling", "waiting"}
    /\ call' = [call EXCEPT ![r] = "cancelled"]
    /\ UNCHANGED <<config, queue, sendOpen, reply, loop, accepted, answered>>

\* The owner of the channel closes its send side.
Close ==
    /\ sendOpen /\ sendOpen' = FALSE
    /\ recv' = IF recv = "parked" THEN "woken" ELSE recv
    /\ UNCHANGED <<config, queue, call, reply, phase, batch, outcome, accepted, answered>>

-----------------------------------------------------------------------------
(* batcher_loop.                                                             *)

Receives == recv \in {"checkpoint", "woken"}

\* Where a batch b goes next: into the window, if it may grow, or to forward.
Headroom(b) == Len(b) < MaxBatch
ToWindow == phase' = "window" /\ recv' = "checkpoint"
ToForward == phase' = "forward" /\ recv' = "none"

\* The first request arrives, and what is queued behind it is drained.
Drained == IF Len(queue) < MaxBatch THEN Len(queue) ELSE MaxBatch
First ==
    /\ phase = "first" /\ Receives /\ queue # <<>>
    /\ batch' = SubSeq(queue, 1, Drained)
    /\ queue' = SubSeq(queue, Drained + 1, Len(queue))
    /\ IF Headroom(batch') /\ delays THEN ToWindow ELSE ToForward
    /\ UNCHANGED <<config, sendOpen, call, reply, outcome, accepted, answered>>

\* Another one arrives in the window, which goes on if time remains.
Another ==
    /\ phase = "window" /\ Receives /\ queue # <<>>
    /\ batch' = Append(batch, Head(queue)) /\ queue' = Tail(queue)
    /\ \/ Headroom(batch') /\ ToWindow
       \/ ToForward
    /\ UNCHANGED <<config, sendOpen, call, reply, outcome, accepted, answered>>

\* Nothing is queued: the loop parks.
Parks ==
    /\ recv = "checkpoint" /\ queue = <<>> /\ sendOpen
    /\ recv' = "parked"
    /\ UNCHANGED <<config, queue, sendOpen, call, reply, phase, batch, outcome, accepted, answered>>

\* EndOfStream: the loop returns, or dispatches what it has.
ReturnsAtOnce ==                               \* mutant: the open batch is forgotten
    /\ Receives /\ queue = <<>> /\ ~sendOpen
    /\ phase' = "returned" /\ recv' = "none"
    /\ UNCHANGED <<config, queue, sendOpen, call, reply, batch, outcome, accepted, answered>>
GoesOn ==                                      \* mutant: the loop receives again
    /\ Receives /\ queue = <<>> /\ ~sendOpen
    /\ IF phase = "first" THEN recv' = "checkpoint" /\ UNCHANGED phase ELSE ToForward
    /\ UNCHANGED <<config, queue, sendOpen, call, reply, batch, outcome, accepted, answered>>
Ends ==
    /\ Receives /\ queue = <<>> /\ ~sendOpen
    /\ IF phase = "first" THEN phase' = "returned" /\ recv' = "none" ELSE ToForward
    /\ UNCHANGED <<config, queue, sendOpen, call, reply, batch, outcome, accepted, answered>>

\* The timer of _recv_or_timeout is first, and cancels the receive().
OverwritesItem ==                              \* mutant: an item in hand goes with it
    /\ phase = "window" /\ recv \in {"checkpoint", "parked", "woken"}
    /\ ToForward
    /\ queue' = IF recv = "woken" /\ queue # <<>> THEN Tail(queue) ELSE queue
    /\ UNCHANGED <<config, sendOpen, call, reply, batch, outcome, accepted, answered>>
TimerEnds ==
    /\ phase = "window" /\ recv \in {"checkpoint", "parked"}
    /\ ToForward
    /\ UNCHANGED <<config, queue, sendOpen, call, reply, batch, outcome, accepted, answered>>

\* forward returns n responses, or raises an Exception.
Unchecked ==                                   \* mutant: n is not compared
    /\ phase = "forward"
    /\ \E n \in 0..MaxBatch : batch' = SubSeq(batch, 1, IF n < Len(batch) THEN n ELSE Len(batch))
    /\ outcome' = "responses"
    /\ IF batch' = <<>> THEN phase' = "first" /\ recv' = "checkpoint" ELSE phase' = "reply" /\ UNCHANGED recv
    /\ UNCHANGED <<config, queue, sendOpen, call, reply, accepted, answered>>
ForwardReturns ==
    /\ phase = "forward" /\ phase' = "reply"
    /\ \E n \in 0..MaxBatch : outcome' = IF n = Len(batch) THEN "responses" ELSE "exception"
    /\ UNCHANGED <<config, queue, sendOpen, call, reply, recv, batch, accepted, answered>>

ForwardRaises ==
    /\ phase = "forward" /\ phase' = "reply"
    /\ outcome' = "exception"
    /\ UNCHANGED <<config, queue, sendOpen, call, reply, recv, batch, accepted, answered>>

\* One request is answered; the close of its channel is a checkpoint.
Reply ==
    /\ phase = "reply"
    /\ reply' = [reply EXCEPT ![Head(batch)] = outcome]
    /\ answered' = Append(answered, Head(batch))
    /\ batch' = Tail(batch)
    /\ IF batch' = <<>> THEN phase' = "first" /\ recv' = "checkpoint" ELSE UNCHANGED <<phase, recv>>
    /\ UNCHANGED <<config, queue, sendOpen, call, outcome, accepted>>

\* The loop is cancelled at an await, or forward raises another BaseException.
\* The batch is lost, with the item that the window's receive() was handed.
Dies ==
    /\ phase \in {"first", "window", "forward", "reply"} /\ (phase = "first" => recv # "woken")
    /\ phase' = "dead" /\ recv' = "none"
    /\ IF recv = "woken" /\ queue # <<>>
       THEN batch' = Append(batch, Head(queue)) /\ queue' = Tail(queue)
       ELSE UNCHANGED <<batch, queue>>
    /\ UNCHANGED <<config, sendOpen, call, reply, outcome, accepted, answered>>

-----------------------------------------------------------------------------
Init ==
    /\ maxsize \in Sizes /\ delays \in BOOLEAN
    /\ queue = <<>> /\ sendOpen = TRUE
    /\ call = [r \in Requests |-> "idle"] /\ reply = [r \in Requests |-> "none"]
    /\ phase = "first" /\ recv = "checkpoint" /\ batch = <<>> /\ outcome = "none"
    /\ accepted = <<>> /\ answered = <<>>

Loop == First \/ Another \/ Parks \/ Ends \/ TimerEnds \/ ForwardReturns \/ ForwardRaises \/ Reply
Next ==
    \/ \E r \in Requests : Submit(r) \/ SubmitReturns(r) \/ SubmitCancelled(r)
    \/ Close \/ Loop \/ Dies
Spec == Init /\ [][Next]_vars

\* The event loop runs the loop and woken callers, forward ends, and whoever
\* drives the clock lets a window pass.  Nobody need submit or close anything.
FairSpec ==
    /\ Spec
    /\ WF_vars(First \/ Another \/ Parks \/ Ends) /\ WF_vars(TimerEnds)
    /\ WF_vars(ForwardReturns \/ ForwardRaises) /\ WF_vars(Reply)
    /\ \A r \in Requests : WF_vars(SubmitReturns(r))

-----------------------------------------------------------------------------
(* What the batcher promises.                                                *)

\* Every variable has its type; the channel and the batch keep their bounds.
TypeOK ==
    /\ maxsize \in Sizes /\ delays \in BOOLEAN /\ sendOpen \in BOOLEAN
    /\ queue \in Seq(Requests) /\ Len(queue) <= maxsize + 1
    /\ call \in [Requests -> {"idle", "polling", "waiting", "returned", "raised", "refused", "cancelled"}]
    /\ reply \in [Requests -> {"none", "responses", "exception"}]
    /\ phase \in {"first", "window", "forward", "reply", "returned", "dead"}
    /\ recv \in {"none", "checkpoint", "parked", "woken"}
    /\ batch \in Seq(Requests) /\ Len(batch) <= MaxBatch
    /\ outcome \in {"none", "responses", "exception"}
    /\ accepted \in Seq(Requests) /\ answered \in Seq(Requests)

\* No request is lost, taken twice or overtaken, whichever of timer, item and
\* close comes first in a window: the requests that entered the channel are, in
\* order, those answered, those in the batch and those still queued, and no batch
\* is larger than max_batch.
NothingLost == accepted = answered \o batch \o queue /\ Len(batch) <= MaxBatch

\* batcher.py:82: a close in a window flushes the batch; batcher_loop returns
\* only when everything that was accepted is answered.
ReturnsDrained == phase = "returned" => accepted = answered /\ ~sendOpen

\* Every accepted request is answered, by a response or by the exception of its
\* batch, unless its caller is cancelled or the loop dies.
SubmitEnds == \A r \in Requests : call[r] = "waiting" ~> call[r] # "waiting" \/ phase = "dead"

\* After the close the loop drains the channel and ends.
LoopEnds == ~sendOpen ~> phase \in {"returned", "dead"}
=============================================================================
