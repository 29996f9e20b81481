------------------------------- MODULE Stream -------------------------------
(***************************************************************************)
(* What a channel of chrono_daemon promises (the SendStream and             *)
(* ReceiveStream protocols of channel.py), whatever carries it: a queue     *)
(* between one sending and one receiving endpoint, either of which closes.  *)
(* Items are numbered in the order in which send() takes them.              *)
(***************************************************************************)
EXTENDS Naturals, Sequences

VARIABLES
    accepted,   \* the number of items taken so far
    queue,      \* those not handed out yet
    got,        \* those handed out, or dropped to make room, in order
    kept,       \* those whose send() has returned
    sendOpen, recvOpen,
    ended       \* a receive() on the open endpoint has raised EndOfStream

vars == <<accepted, queue, got, kept, sendOpen, recvOpen, ended>>

Init ==
    /\ accepted = 0 /\ queue = <<>> /\ got = <<>> /\ kept = {}
    /\ sendOpen = TRUE /\ recvOpen = TRUE /\ ended = FALSE

\* send() takes an item; it returns now, or blocks.
Put ==
    /\ sendOpen /\ recvOpen
    /\ accepted' = accepted + 1
    /\ queue' = Append(queue, accepted')
    /\ kept' \in {kept, kept \cup {accepted'}}
    /\ UNCHANGED <<got, sendOpen, recvOpen, ended>>

\* It hands its item to a receiver that waits.
Pass ==
    /\ sendOpen /\ recvOpen /\ queue = <<>>
    /\ accepted' = accepted + 1
    /\ got' = Append(got, accepted')
    /\ kept' = kept \cup {accepted'}
    /\ UNCHANGED <<queue, sendOpen, recvOpen, ended>>

\* A blocked send() returns, ...
Return ==
    /\ \E i \in 1..Len(got \o queue) : kept' = kept \cup {(got \o queue)[i]}
    /\ UNCHANGED <<accepted, queue, got, sendOpen, recvOpen, ended>>

\* ... or gives up, and takes its item back: it is cancelled or the receiver left.
Withdraw ==
    /\ queue # <<>> /\ queue[Len(queue)] \notin kept
    /\ queue' = SubSeq(queue, 1, Len(queue) - 1)
    /\ UNCHANGED <<accepted, got, kept, sendOpen, recvOpen, ended>>

Take ==
    /\ recvOpen /\ queue # <<>>
    /\ got' = Append(got, Head(queue)) /\ queue' = Tail(queue)
    /\ UNCHANGED <<accepted, kept, sendOpen, recvOpen, ended>>

\* An item makes way for a new one.
Replace ==
    /\ sendOpen /\ recvOpen /\ queue # <<>>
    /\ accepted' = accepted + 1
    /\ queue' = Append(Tail(queue), accepted') /\ got' = Append(got, Head(queue))
    /\ kept' = kept \cup {accepted'}
    /\ UNCHANGED <<sendOpen, recvOpen, ended>>

End ==
    /\ ~sendOpen /\ queue = <<>>
    /\ ended' = TRUE
    /\ UNCHANGED <<accepted, queue, got, kept, sendOpen, recvOpen>>

\* Either end closes; the send side may learn then that the receive side has.
CloseSend ==
    /\ sendOpen' = FALSE /\ recvOpen' \in {recvOpen, FALSE}
    /\ UNCHANGED <<accepted, queue, got, kept, ended>>
CloseRecv == recvOpen' = FALSE /\ UNCHANGED <<accepted, queue, got, kept, sendOpen, ended>>

Next == Put \/ Pass \/ Return \/ Withdraw \/ Take \/ Replace \/ End \/ CloseSend \/ CloseRecv
Spec == Init /\ [][Next]_vars

=============================================================================
