------------------------------- MODULE Channel -------------------------------
(***************************************************************************)
(* The in-process channel (channel.py): _Send and _Recv, each with a busy   *)
(* flag that makes it single-owner, around an anyio memory object stream.   *)
(*                                                                          *)
(* One action is what one task runs between two awaits.  A task that waits  *)
(* is parked until its event is set, and woken from then until it runs;     *)
(* only a parked task can be cancelled.  A call that raises at once and     *)
(* changes nothing is a step that changes nothing, and is left out.         *)
(*                                                                          *)
(* Producers may send through a lossy wrapper (recipes/state/lossy.py),     *)
(* whose sends are send_nowait() as long as there is room.                  *)
(***************************************************************************)
EXTENDS Integers, Sequences, SequencesExt

CONSTANTS
    Senders, Receivers,
    Sizes,     \* the values of maxsize that are tried: 0 is rendezvous
    MaxItems,  \* bound of the model: items sent in all
    MaxDrops   \* bound of the model: sends that drop something

ASSUME SizeAssumption == Sizes \subseteq Nat /\ MaxItems \in Nat /\ MaxDrops \in Nat

VARIABLES
    maxsize,       \* max_buffer_size of the stream
    buffer,        \* items of the stream's buffer
    waitingSend,   \* waiting_senders: [task, item], oldest first
    waitingRecv,   \* waiting_receivers: tasks, oldest first
    sendOpen, recvOpen,
    sendBusy, recvBusy,   \* _Send._busy, _Recv._busy
    sender,        \* where each sender is
    receiver,      \* where each receiver is
    sending,       \* the item each blocked sender sends
    hand,          \* the item a woken receiver was handed, 0 for none
    dropped,       \* the wrapper's count of dropped items
    accepted, got, kept, ended   \* history, as in Stream

stream == <<dropped, maxsize, buffer, waitingSend, waitingRecv, sendOpen, recvOpen>>
ghosts == <<accepted, got, kept, ended>>
vars == <<stream, sendBusy, recvBusy, sender, receiver, sending, hand, ghosts>>

-----------------------------------------------------------------------------
(* anyio's MemoryObjectSendStream and MemoryObjectReceiveStream.             *)

\* send_nowait of the next item succeeds: to a waiting receiver or the buffer.
CanSend == sendOpen /\ recvOpen /\ (waitingRecv # <<>> \/ Len(buffer) < maxsize)
Hand ==
    IF waitingRecv # <<>>
    THEN LET r == Head(waitingRecv)
         IN  /\ waitingRecv' = Tail(waitingRecv)
             /\ receiver' = [receiver EXCEPT ![r] = "woken"]
             /\ hand' = [hand EXCEPT ![r] = accepted']
             /\ got' = Append(got, accepted')
             /\ UNCHANGED buffer
    ELSE /\ buffer' = Append(buffer, accepted')
         /\ UNCHANGED <<waitingRecv, receiver, hand, got>>

\* receive_nowait succeeds: the first blocked sender's item joins the buffer,
\* and the oldest item leaves it.
CanTake == recvOpen /\ (waitingSend # <<>> \/ buffer # <<>>)
Filled == IF waitingSend = <<>> THEN buffer ELSE Append(buffer, Head(waitingSend).item)
Take ==
    /\ buffer' = Tail(Filled)
    /\ got' = Append(got, Head(Filled))
    /\ IF waitingSend = <<>> THEN UNCHANGED <<waitingSend, sender>>
       ELSE /\ sender' = [sender EXCEPT ![Head(waitingSend).task] = "woken"]
            /\ waitingSend' = Tail(waitingSend)

Entry(s) == [task |-> s, item |-> sending[s]]
IsWaiting(s) == \E i \in DOMAIN waitingSend : waitingSend[i] = Entry(s)
Sent(s) == ~IsWaiting(s)
Without(s) == RemoveFirst(waitingSend, Entry(s))

-----------------------------------------------------------------------------
(* _Send.                                                                    *)

\* send() that need not wait.
MaySend == ~sendBusy
Send ==
    /\ MaySend /\ CanSend /\ accepted < MaxItems
    /\ accepted' = accepted + 1
    /\ Hand
    /\ kept' = kept \cup {accepted'}
    /\ UNCHANGED <<dropped, maxsize, waitingSend, sendOpen, recvOpen, sendBusy, recvBusy, sender, sending, ended>>

\* send() parks: the endpoint is busy meanwhile.
SendBlocks(s) ==
    /\ sender[s] = "idle" /\ MaySend
    /\ sendOpen /\ recvOpen /\ ~CanSend /\ accepted < MaxItems
    /\ accepted' = accepted + 1
    /\ sendBusy' = TRUE
    /\ sender' = [sender EXCEPT ![s] = "parked"]
    /\ sending' = [sending EXCEPT ![s] = accepted']
    /\ waitingSend' = Append(waitingSend, [task |-> s, item |-> accepted'])
    /\ UNCHANGED <<dropped, maxsize, buffer, waitingRecv, sendOpen, recvOpen, recvBusy, receiver, hand, got, kept, ended>>

Swallows(s) ==                                 \* mutant: BrokenResourceError is not passed on
    /\ sender[s] = "woken"
    /\ sender' = [sender EXCEPT ![s] = "idle"] /\ sending' = [sending EXCEPT ![s] = 0]
    /\ sendBusy' = FALSE /\ waitingSend' = Without(s)
    /\ kept' = kept \cup {sending[s]}
    /\ UNCHANGED <<dropped, maxsize, buffer, waitingRecv, sendOpen, recvOpen, recvBusy, receiver, hand, accepted, got, ended>>
\* It goes on: its item was taken, or the receive side was closed.
SendWakes(s) ==
    /\ sender[s] = "woken"
    /\ sender' = [sender EXCEPT ![s] = "idle"]
    /\ sending' = [sending EXCEPT ![s] = 0]
    /\ sendBusy' = FALSE
    /\ waitingSend' = Without(s)
    /\ kept' = IF Sent(s) THEN kept \cup {sending[s]} ELSE kept
    /\ UNCHANGED <<dropped, maxsize, buffer, waitingRecv, sendOpen, recvOpen, recvBusy, receiver, hand, accepted, got, ended>>

StaysBusy(s) ==                                \* mutant: no finally
    /\ sender[s] = "parked"
    /\ sender' = [sender EXCEPT ![s] = "idle"]
    /\ sending' = [sending EXCEPT ![s] = 0]
    /\ waitingSend' = Without(s)
    /\ UNCHANGED <<dropped, maxsize, buffer, waitingRecv, sendOpen, recvOpen, sendBusy, recvBusy, receiver, hand, ghosts>>
SendCancelled(s) ==
    /\ sender[s] = "parked"
    /\ sender' = [sender EXCEPT ![s] = "idle"]
    /\ sending' = [sending EXCEPT ![s] = 0]
    /\ sendBusy' = FALSE
    /\ waitingSend' = Without(s)
    /\ UNCHANGED <<dropped, maxsize, buffer, waitingRecv, sendOpen, recvOpen, recvBusy, receiver, hand, ghosts>>

\* send_nowait(), which does not look at the busy flag.
SendNowait ==
    /\ CanSend /\ accepted < MaxItems
    /\ accepted' = accepted + 1
    /\ Hand
    /\ kept' = kept \cup {accepted'}
    /\ UNCHANGED <<dropped, maxsize, waitingSend, sendOpen, recvOpen, sendBusy, recvBusy, sender, sending, ended>>

\* DropNewestSend: a new item that does not fit is dropped.
MustDrop == sendOpen /\ recvOpen /\ ~CanSend /\ dropped < MaxDrops
DropNewest ==
    /\ MustDrop /\ dropped' = dropped + 1
    /\ UNCHANGED <<maxsize, buffer, waitingSend, waitingRecv, sendOpen, recvOpen, sendBusy, recvBusy,
                   sender, receiver, sending, hand, ghosts>>

\* DropOldestSend and CoalesceSend: receive_nowait() makes room, if it can, and
\* the item is sent after all, unless a blocked sender has got the room.
NoSecondTry == FALSE                           \* mutant
Fits == Len(Filled) <= maxsize
DropOldest ==
    /\ MustDrop /\ CanTake /\ accepted < MaxItems
    /\ got' = Append(got, Head(Filled))
    /\ IF Fits
       THEN /\ accepted' = accepted + 1 /\ kept' = kept \cup {accepted'}
            /\ buffer' = Append(Tail(Filled), accepted') /\ dropped' = dropped + 1
       ELSE buffer' = Tail(Filled) /\ dropped' = dropped + 2 /\ UNCHANGED <<accepted, kept>>
    /\ waitingSend' = IF waitingSend = <<>> THEN <<>> ELSE Tail(waitingSend)
    /\ sender' = [s \in Senders |-> IF IsWaiting(s) /\ Entry(s) = Head(waitingSend) THEN "woken" ELSE sender[s]]
    /\ UNCHANGED <<maxsize, waitingRecv, sendOpen, recvOpen, sendBusy, recvBusy, receiver, sending, hand, ended>>

QuietCloseSend ==                              \* mutant: nobody is woken
    /\ sendOpen /\ sendOpen' = FALSE
    /\ UNCHANGED <<dropped, maxsize, buffer, waitingSend, waitingRecv, recvOpen, sendBusy, recvBusy, sender, receiver, sending, hand, ghosts>>
\* aclose(): waiting receivers are woken with nothing.
CloseSend ==
    /\ sendOpen /\ sendOpen' = FALSE
    /\ waitingRecv' = <<>>
    /\ receiver' = [r \in Receivers |-> IF receiver[r] = "parked" THEN "woken" ELSE receiver[r]]
    /\ UNCHANGED <<dropped, maxsize, buffer, waitingSend, recvOpen, sendBusy, recvBusy, sender, sending, hand, ghosts>>

-----------------------------------------------------------------------------
(* _Recv.                                                                    *)

\* receive() marks the endpoint busy and runs a checkpoint.
MayReceive == ~recvBusy
Receive(r) ==
    /\ receiver[r] = "idle" /\ MayReceive
    /\ recvBusy' = TRUE
    /\ receiver' = [receiver EXCEPT ![r] = "checkpoint"]
    /\ UNCHANGED <<stream, sendBusy, sender, sending, hand, ghosts>>

\* It takes an item, raises EndOfStream, or parks.
AtEnd == ~sendOpen /\ ~CanTake
ReceiveTries(r) ==
    /\ receiver[r] = "checkpoint"
    /\ \/ /\ recvOpen /\ ~AtEnd /\ CanTake
          /\ Take
          /\ receiver' = [receiver EXCEPT ![r] = "idle"] /\ recvBusy' = FALSE
          /\ UNCHANGED <<waitingRecv, ended>>
       \/ /\ ~recvOpen \/ AtEnd
          /\ ended' = (ended \/ recvOpen)
          /\ receiver' = [receiver EXCEPT ![r] = "idle"] /\ recvBusy' = FALSE
          /\ UNCHANGED <<buffer, waitingSend, waitingRecv, sender, got>>
       \/ /\ recvOpen /\ sendOpen /\ ~CanTake
          /\ receiver' = [receiver EXCEPT ![r] = "parked"]
          /\ waitingRecv' = Append(waitingRecv, r)
          /\ UNCHANGED <<buffer, waitingSend, recvBusy, sender, got, ended>>
    /\ UNCHANGED <<dropped, maxsize, sendOpen, recvOpen, sendBusy, sending, hand, accepted, kept>>

\* It goes on with the item it was handed, or raises EndOfStream.
ReceiveWakes(r) ==
    /\ receiver[r] = "woken"
    /\ receiver' = [receiver EXCEPT ![r] = "idle"]
    /\ hand' = [hand EXCEPT ![r] = 0]
    /\ recvBusy' = FALSE
    /\ ended' = (ended \/ (hand[r] = 0 /\ recvOpen))
    /\ UNCHANGED <<stream, sendBusy, sender, sending, accepted, got, kept>>

ReceiveCancelled(r) ==
    /\ receiver[r] \in {"checkpoint", "parked"}
    /\ receiver' = [receiver EXCEPT ![r] = "idle"]
    /\ recvBusy' = FALSE
    /\ waitingRecv' = RemoveFirst(waitingRecv, r)
    /\ UNCHANGED <<dropped, maxsize, buffer, waitingSend, sendOpen, recvOpen, sendBusy, sender, sending, hand, ghosts>>

FromBuffer ==                                  \* mutant: blocked senders are passed over
    /\ recvOpen /\ buffer # <<>>
    /\ buffer' = Tail(buffer) /\ got' = Append(got, Head(buffer))
    /\ UNCHANGED <<dropped, maxsize, waitingSend, waitingRecv, sendOpen, recvOpen, sendBusy, recvBusy,
                   sender, receiver, sending, hand, accepted, kept, ended>>
\* receive_nowait(), which does not look at the busy flag either.
ReceiveNowait ==
    /\ CanTake /\ ~AtEnd /\ Take
    /\ UNCHANGED <<dropped, maxsize, waitingRecv, sendOpen, recvOpen, sendBusy, recvBusy, receiver, sending, hand, accepted, kept, ended>>

ReceiveNowaitEnds ==
    /\ recvOpen /\ AtEnd
    /\ ended' = TRUE
    /\ UNCHANGED <<stream, sendBusy, recvBusy, sender, receiver, sending, hand, accepted, got, kept>>

\* aclose(): blocked senders are woken, their items still in waiting_senders.
CloseRecv ==
    /\ recvOpen /\ recvOpen' = FALSE
    /\ sender' = [s \in Senders |-> IF sender[s] = "parked" THEN "woken" ELSE sender[s]]
    /\ UNCHANGED <<dropped, maxsize, buffer, waitingSend, waitingRecv, sendOpen, sendBusy, recvBusy, receiver, sending, hand, ghosts>>

-----------------------------------------------------------------------------
Init ==
    /\ maxsize \in Sizes
    /\ buffer = <<>> /\ waitingSend = <<>> /\ waitingRecv = <<>>
    /\ sendOpen = TRUE /\ recvOpen = TRUE /\ sendBusy = FALSE /\ recvBusy = FALSE
    /\ sender = [s \in Senders |-> "idle"] /\ sending = [s \in Senders |-> 0]
    /\ receiver = [r \in Receivers |-> "idle"] /\ hand = [r \in Receivers |-> 0]
    /\ dropped = 0 /\ accepted = 0 /\ got = <<>> /\ kept = {} /\ ended = FALSE

Next ==
    \/ Send \/ SendNowait \/ DropNewest \/ DropOldest \/ CloseSend
    \/ \E s \in Senders : SendBlocks(s) \/ SendWakes(s) \/ SendCancelled(s)
    \/ ReceiveNowait \/ ReceiveNowaitEnds \/ CloseRecv
    \/ \E r \in Receivers : Receive(r) \/ ReceiveTries(r) \/ ReceiveWakes(r) \/ ReceiveCancelled(r)
Spec == Init /\ [][Next]_vars

\* The event loop runs whoever is woken or in a checkpoint.
FairSpec ==
    /\ Spec
    /\ \A s \in Senders : WF_vars(SendWakes(s))
    /\ \A r \in Receivers : WF_vars(ReceiveTries(r)) /\ WF_vars(ReceiveWakes(r))

-----------------------------------------------------------------------------
(* What the channel promises.                                                *)

Items == [i \in DOMAIN waitingSend |-> waitingSend[i].item]
StreamSpec == INSTANCE Stream WITH queue <- buffer \o Items

\* An endpoint is busy exactly while one task is inside a blocking call on it,
\* however its calls end (the finally blocks of send and receive).
BusyIsTrue ==
    /\ sendBusy <=> \E s \in Senders : sender[s] # "idle"
    /\ recvBusy <=> \E r \in Receivers : receiver[r] # "idle"
    /\ \A s, t \in Senders : sender[s] # "idle" /\ sender[t] # "idle" => s = t
    /\ \A q, r \in Receivers : receiver[q] # "idle" /\ receiver[r] # "idle" => q = r

\* send_nowait() and receive_nowait(), which ignore the busy flag, cannot pass a
\* blocked call: nobody waits for space while there is some, or for an item.
NobodyWaitsForNothing ==
    /\ waitingSend # <<>> => Len(buffer) = maxsize /\ waitingRecv = <<>>
    /\ waitingRecv # <<>> => buffer = <<>> /\ sendOpen

\* A lossy wrapper loses nothing it does not count, and drop-oldest keeps the
\* newest item, unless a send() that was blocked before it takes the room.
DropsAreCounted ==
    [][dropped' # dropped =>
          /\ Len(buffer \o waitingSend) + 1 = Len(buffer' \o waitingSend') + (dropped' - dropped)
          /\ got' # got /\ waitingSend = <<>> =>
                accepted' = accepted + 1 /\ buffer'[Len(buffer')] = accepted']_vars

\* The channel is a Stream: first in first out, nothing lost, duplicated or made
\* up; what raised was not sent; EndOfStream only when drained, and final.
IsStream == StreamSpec!Spec

\* docs/concepts.md:132-133: once the send side is closed, every present and
\* future receive() ends; once the receive side is closed, so does every send().
CallsEnd ==
    /\ \A r \in Receivers : ~sendOpen /\ receiver[r] # "idle" ~> receiver[r] = "idle"
    /\ \A s \in Senders : ~recvOpen /\ sender[s] # "idle" ~> sender[s] = "idle"
=============================================================================
