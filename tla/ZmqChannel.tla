----------------------------- MODULE ZmqChannel -----------------------------
(***************************************************************************)
(* The ZeroMQ channel (transports/zmq.py): two endpoints, in one process or *)
(* two, over a pair of PAIR sockets.  Data and EOF frames go one way, the   *)
(* CLOSE frame of the receive side the other way.                           *)
(*                                                                          *)
(* A frame waits in the queue of the sending socket, then of the receiving  *)
(* socket; each holds Hwm frames.  A call that waits is a future of its     *)
(* socket: a socket that closes cancels it.  The busy flag of an endpoint   *)
(* is the place of its one call in progress: it is set while there is one.  *)
(***************************************************************************)
EXTENDS Integers, Sequences, SequencesExt

CONSTANTS
    MaxSize,       \* ZmqConfig.maxsize
    MaxItems       \* bound of the model: items sent in all

ASSUME ZmqAssumption == MaxSize \in Nat /\ MaxItems \in Nat

VARIABLES
    bindReceive,        \* the receive side binds, the send side connects
    out, in,            \* the sockets' queues: items (numbered from 1) and EOF
    close,              \* the CLOSE frame: none, sent, arrived, lost
    connected,
    sendCall,           \* the send() in progress: idle, checkpoint, blocked
    recvCall,           \* the receive() in progress: idle, waiting
    sendPhase,          \* _ZmqSend: open, closing (_closed), closed (socket too)
    recvPhase,          \* _ZmqReceive
    peerClosed,         \* _ZmqSend._peer_closed
    ended,              \* _ZmqReceive._peer_closed
    accepted, got,      \* history: items the socket took, items received,
    dropped             \* frames a closed socket did not deliver

wire == <<bindReceive, dropped, out, in, close, connected>>
calls == <<sendCall, recvCall>>
phases == <<sendPhase, recvPhase>>
vars == <<wire, calls, phases, peerClosed, ended, accepted, got>>

Eof == 0

-----------------------------------------------------------------------------
(* The send endpoint.                                                        *)

Hwm == IF MaxSize + 1 > 2 THEN MaxSize + 1 ELSE 2

\* A socket that binds has no queue before its peer connects.
CanPut == Len(out) < Hwm /\ (bindReceive \/ connected)

PutItem ==
    /\ accepted < MaxItems
    /\ accepted' = accepted + 1
    /\ out' = Append(out, accepted')

\* _drain_control_nowait: what _peer_closed is afterwards.
PeerGone == peerClosed \/ close = "arrived"

\* send(): the flags are read, then it is busy across a checkpoint.
Send ==
    /\ sendCall = "idle" /\ sendPhase = "open"
    /\ sendCall' = "checkpoint"
    /\ UNCHANGED <<wire, recvCall, phases, peerClosed, ended, accepted, got>>

\* It reads the control frames and raises, hands the item over, or waits.  It also
\* raises when the codec cannot encode the item.
SendTries ==
    /\ sendCall = "checkpoint"
    /\ peerClosed' = IF sendPhase = "closed" THEN peerClosed ELSE PeerGone
    /\ \/ /\ sendCall' = "idle"
          /\ UNCHANGED <<out, accepted>>
       \/ /\ sendPhase # "closed" /\ ~PeerGone /\ CanPut /\ PutItem
          /\ sendCall' = "idle"
       \/ /\ sendPhase # "closed" /\ ~PeerGone /\ ~CanPut
          /\ sendCall' = "blocked"
          /\ UNCHANGED <<out, accepted>>
    /\ UNCHANGED <<bindReceive, dropped, in, close, connected, recvCall, phases, ended, got>>

\* The socket has room again.
SendUnblocked ==
    /\ sendCall = "blocked" /\ sendPhase # "closed" /\ CanPut
    /\ PutItem
    /\ sendCall' = "idle"
    /\ UNCHANGED <<bindReceive, dropped, in, close, connected, recvCall, phases, peerClosed, ended, got>>

SendCancelled ==
    /\ sendCall # "idle"
    /\ sendCall' = "idle"
    /\ UNCHANGED <<wire, recvCall, phases, peerClosed, ended, accepted, got>>

SendNowait ==
    /\ sendCall = "idle" /\ sendPhase = "open"
    /\ peerClosed' = PeerGone
    /\ \/ ~PeerGone /\ CanPut /\ PutItem
       \/ UNCHANGED <<out, accepted>>
    /\ UNCHANGED <<bindReceive, dropped, in, close, connected, calls, phases, ended, got>>

\* aclose(): EOF goes out if there is room, and the socket closes after a
\* checkpoint, or at once if the receiver is gone.
CloseSend ==
    /\ sendPhase = "open"
    /\ peerClosed' = PeerGone
    /\ IF PeerGone
       THEN /\ sendPhase' = "closed"
            /\ sendCall' = IF sendCall = "blocked" THEN "idle" ELSE sendCall
            /\ UNCHANGED out
       ELSE /\ sendPhase' = "closing"
            /\ out' = IF CanPut THEN Append(out, Eof) ELSE out
            /\ UNCHANGED sendCall
    /\ UNCHANGED <<bindReceive, dropped, in, close, connected, recvCall, recvPhase, ended, accepted, got>>

SendSocketCloses ==
    /\ sendPhase = "closing" /\ sendPhase' = "closed"
    /\ sendCall' = IF sendCall = "blocked" THEN "idle" ELSE sendCall
    /\ UNCHANGED <<wire, recvCall, recvPhase, peerClosed, ended, accepted, got>>

-----------------------------------------------------------------------------
(* The receive endpoint.                                                     *)

\* _decode_frame of the next frame: EOF, which ends the stream, or an item; one
\* that the codec cannot decode raises, and is received all the same.
EofSkipped ==                                  \* mutant: EOF is taken for CLOSE
    /\ in # <<>> /\ in' = Tail(in)
    /\ got' = IF Head(in) = Eof THEN got ELSE Append(got, Head(in))
    /\ recvCall' = IF Head(in) = Eof THEN recvCall ELSE "idle"
    /\ UNCHANGED ended
EmptyIsEnd ==                                  \* mutant: would-block ends the stream
    /\ in' = IF in = <<>> THEN in ELSE Tail(in)
    /\ got' = IF in = <<>> \/ Head(in) = Eof THEN got ELSE Append(got, Head(in))
    /\ ended' = (in = <<>> \/ Head(in) = Eof)
    /\ recvCall' = "idle"
TakeFrame ==
    /\ in # <<>> /\ in' = Tail(in)
    /\ IF Head(in) = Eof THEN ended' = TRUE /\ UNCHANGED got
                         ELSE got' = Append(got, Head(in)) /\ UNCHANGED ended
    /\ recvCall' = "idle"

MayReceive == recvCall = "idle" /\ recvPhase = "open" /\ ~ended

\* receive() that finds a frame, and receive_nowait().
Receive ==
    /\ MayReceive /\ TakeFrame
    /\ UNCHANGED <<bindReceive, dropped, out, close, connected, sendCall, phases, peerClosed, accepted>>

ReceiveWaits ==
    /\ MayReceive /\ in = <<>>
    /\ recvCall' = "waiting"
    /\ UNCHANGED <<wire, sendCall, phases, peerClosed, ended, accepted, got>>

ReceiveWakes ==
    /\ recvCall = "waiting" /\ recvPhase # "closed"
    /\ TakeFrame
    /\ UNCHANGED <<bindReceive, dropped, out, close, connected, sendCall, phases, peerClosed, accepted>>

LosesFrame ==                                  \* mutant: the frame read goes with the call
    /\ recvCall = "waiting"
    /\ recvCall' = "idle"
    /\ in' = IF in = <<>> THEN in ELSE Tail(in)
    /\ UNCHANGED <<bindReceive, dropped, out, close, connected, sendCall, phases, peerClosed, ended, accepted, got>>
ReceiveCancelled ==
    /\ recvCall = "waiting"
    /\ recvCall' = "idle"
    /\ UNCHANGED <<wire, sendCall, phases, peerClosed, ended, accepted, got>>

\* aclose(): CLOSE goes out if a peer is connected.
CloseRecv ==
    /\ recvPhase = "open"
    /\ recvPhase' = "closing"
    /\ close' = IF bindReceive /\ ~connected THEN "lost" ELSE "sent"
    /\ UNCHANGED <<bindReceive, dropped, out, in, connected, calls, sendPhase, peerClosed, ended, accepted, got>>

RecvSocketCloses ==
    /\ recvPhase = "closing" /\ recvPhase' = "closed"
    /\ recvCall' = "idle"
    /\ UNCHANGED <<wire, sendCall, sendPhase, peerClosed, ended, accepted, got>>

-----------------------------------------------------------------------------
(* The transport.                                                            *)

Connect ==
    /\ ~connected /\ connected' = TRUE
    /\ recvPhase # "closed"
    /\ UNCHANGED <<bindReceive, dropped, out, in, close, calls, phases, peerClosed, ended, accepted, got>>

Deliver ==
    /\ connected /\ recvPhase # "closed"
    /\ out # <<>> /\ Len(in) < Hwm
    /\ in' = Append(in, Head(out)) /\ out' = Tail(out)
    /\ UNCHANGED <<bindReceive, dropped, close, connected, calls, phases, peerClosed, ended, accepted, got>>

DeliverClose ==
    /\ connected /\ close = "sent" /\ sendPhase # "closed"
    /\ close' = "arrived"
    /\ UNCHANGED <<bindReceive, dropped, out, in, connected, calls, phases, peerClosed, ended, accepted, got>>

\* linger_ms after its socket closed, what it still holds is dropped.
LingerExpires ==
    /\ \/ /\ sendPhase = "closed" /\ out # <<>>
          /\ out' = <<>> /\ dropped' = out /\ UNCHANGED close
       \/ /\ recvPhase = "closed" /\ close = "sent"
          /\ close' = "lost" /\ UNCHANGED <<out, dropped>>
    /\ UNCHANGED <<bindReceive, in, connected, calls, phases, peerClosed, ended, accepted, got>>

-----------------------------------------------------------------------------
Init ==
    /\ bindReceive \in BOOLEAN /\ dropped = <<>>
    /\ out = <<>> /\ in = <<>> /\ close = "none" /\ connected = FALSE
    /\ sendCall = "idle" /\ recvCall = "idle"
    /\ sendPhase = "open" /\ recvPhase = "open" /\ peerClosed = FALSE /\ ended = FALSE
    /\ accepted = 0 /\ got = <<>>

Next ==
    \/ Send \/ SendTries \/ SendUnblocked \/ SendCancelled \/ SendNowait
    \/ CloseSend \/ SendSocketCloses
    \/ Receive \/ ReceiveWaits \/ ReceiveWakes \/ ReceiveCancelled
    \/ CloseRecv \/ RecvSocketCloses
    \/ Connect \/ Deliver \/ DeliverClose \/ LingerExpires
Spec == Init /\ [][Next]_vars

\* The event loops run, and the network connects and delivers.
FairSpec ==
    /\ Spec
    /\ WF_vars(SendTries) /\ WF_vars(SendUnblocked) /\ WF_vars(SendSocketCloses)
    /\ WF_vars(ReceiveWakes) /\ WF_vars(RecvSocketCloses)
    /\ WF_vars(Connect) /\ WF_vars(Deliver) /\ WF_vars(DeliverClose)

-----------------------------------------------------------------------------
(* What the channel promises.                                                *)

\* Whatever is cancelled, closed or dropped, the items received are the first
\* ones sent, in order: none is lost before one that arrives (zmq.py:9-10).
NoGaps == got = [i \in 1..Len(got) |-> i]

\* EndOfStream means that every item was received (channel.py:60), but for the
\* one whose send() was in progress when another task closed the endpoint: it may
\* follow EOF, and send() returns all the same.
EndMeansAll == ended => accepted - Len(got) \in {0, 1}

\* The channel is a Stream of the frames before EOF, dropped ones included (they
\* are not received).  Its send side is closed when EOF is out or the socket is,
\* its receive side when its socket is and the sender knows.
Frames == in \o out \o dropped
Announced == ended \/ \E i \in DOMAIN Frames : Frames[i] = Eof
Undelivered ==
    IF ended THEN <<>>
    ELSE SubSeq(Frames, 1, IF Announced THEN SelectInSeq(Frames, LAMBDA f : f = Eof) - 1 ELSE Len(Frames))
StreamSpec == INSTANCE Stream WITH
    queue <- Undelivered, accepted <- Len(got \o Undelivered), kept <- 1..Len(got \o Undelivered),
    sendOpen <- sendPhase # "closed" /\ ~Announced, recvOpen <- ~peerClosed \/ recvPhase # "closed"
IsStream == StreamSpec!Spec

\* A receive() that waits gets the next frame, if there is one and it is not
\* dropped.
FramesArrive == recvCall = "waiting" /\ in \o out # <<>> ~> recvCall = "idle" \/ dropped # <<>>

\* zmq.py:81-83 ("Reserve one extra slot so close control frames can follow a
\* full data buffer"): aclose() of a sender whose peer is connected and still
\* receives sends EOF, however much data is in the queues.
EndIsAnnounced ==
    [][CloseSend /\ connected /\ recvPhase = "open" => out' # out]_vars
=============================================================================
