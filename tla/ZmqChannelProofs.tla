--------------------------- MODULE ZmqChannelProofs ---------------------------
(***************************************************************************)
(* What the ZeroMQ channel guarantees for any maxsize and any number of     *)
(* items: the items received are the first ones sent, EndOfStream comes     *)
(* after them, and the channel implements Stream.                           *)
(***************************************************************************)
EXTENDS ZmqChannel, SequenceTheorems, TLAPS

Shape ==
    /\ out \in Seq(Nat) /\ in \in Seq(Nat) /\ dropped \in Seq(Nat) /\ got \in Seq(Nat) /\ accepted \in Nat
    /\ sendCall \in {"idle", "checkpoint", "blocked"} /\ recvCall \in {"idle", "waiting"}
    /\ sendPhase \in {"open", "closing", "closed"} /\ recvPhase \in {"open", "closing", "closed"}
    /\ peerClosed \in BOOLEAN /\ ended \in BOOLEAN

\* The endpoints: frames are dropped once the send socket is closed, and then all
\* of them; a call that waits has not seen the other side close.
Endpoints ==
    /\ dropped # <<>> => out = <<>> /\ sendPhase = "closed"
    /\ sendCall = "blocked" => sendPhase # "closed" /\ ~peerClosed
    /\ recvCall = "waiting" => ~ended

\* The frames on the way: items in order, before EOF is sent, ...
Flowing ==
    /\ ~ended /\ accepted = Len(got) + Len(Frames)
    /\ \A i \in 1..Len(Frames) : Frames[i] = Len(got) + i

\* ... when it is in place e, with at most one item behind it: that of the send()
\* which was in progress, ...
Closing(e) ==
    /\ ~ended /\ sendPhase # "open" /\ accepted + 1 = Len(got) + Len(Frames)
    /\ \A i \in 1..(e - 1) : Frames[i] = Len(got) + i
    /\ Frames[e] = Eof
    /\ Len(Frames) = e \/ (Len(Frames) = e + 1 /\ sendCall = "idle" /\ Frames[e + 1] # Eof)

\* ... and when it was received.
Ended ==
    /\ ended /\ sendPhase # "open" /\ accepted = Len(got) + Len(Frames)
    /\ Len(Frames) = 0 \/ (Len(Frames) = 1 /\ sendCall = "idle" /\ Frames[1] # Eof)

FramesOK == Flowing \/ (\E e \in 1..Len(Frames) : Closing(e)) \/ Ended

Inv == Shape /\ Endpoints /\ FramesOK /\ NoGaps

-----------------------------------------------------------------------------
(* The frames on the way, as one sequence.                                   *)

LEMMA Regroup ==
    ASSUME NEW a \in Seq(Nat), NEW b \in Seq(Nat), NEW c \in Seq(Nat)
    PROVE  (a \o b) \o c = a \o (b \o c) /\ b \o c \in Seq(Nat)
  BY SMTT(60)

LEMMA OneMore == ASSUME NEW n \in Nat PROVE \A i \in 1..(n + 1) : i \in 1..n \/ i = n + 1
  OBVIOUS

LEMMA FramesType == ASSUME Shape PROVE Frames \in Seq(Nat)
  BY DEF Shape, Frames

LEMMA PutFrames ==
    ASSUME Shape, dropped = <<>>, NEW x \in Nat, out' = Append(out, x), UNCHANGED <<in, dropped>>
    PROVE  Frames' = Append(Frames, x)
<1>1. Frames = in \o out
  BY DEF Shape, Frames
<1>2. Frames' = in \o Append(out, x)
  BY DEF Shape, Frames
<1>3. in \in Seq(Nat) /\ out \in Seq(Nat)
  BY DEF Shape
<1>4. ASSUME NEW q \in Seq(Nat), NEW r \in Seq(Nat) PROVE q \o Append(r, x) = Append(q \o r, x)
  BY SMTT(60)
<1> QED BY <1>1, <1>2, <1>3, <1>4, Zenon

LEMMA TakeFrames ==
    ASSUME Shape, in # <<>>, in' = Tail(in), UNCHANGED <<out, dropped>>
    PROVE  Frames # <<>> /\ Frames[1] = Head(in) /\ Frames' = Tail(Frames)
<1>1. in \in Seq(Nat) /\ Tail(in) \in Seq(Nat) /\ out \in Seq(Nat) /\ dropped \in Seq(Nat) /\ out \o dropped \in Seq(Nat)
  BY DEF Shape
<1>2. Frames = in \o (out \o dropped)
  <2>1. (in \o out) \o dropped = in \o (out \o dropped)
    BY <1>1, Regroup, SMTT(60)
  <2> QED BY <2>1, Zenon DEF Frames
<1>3. Frames' = Tail(in) \o (out \o dropped)
  <2>1. (Tail(in) \o out) \o dropped = Tail(in) \o (out \o dropped)
    BY <1>1, Regroup, SMTT(60)
  <2> QED BY <2>1, Zenon DEF Frames
<1>4. ASSUME NEW q \in Seq(Nat), NEW r \in Seq(Nat), q # <<>>
      PROVE  q \o r # <<>> /\ (q \o r)[1] = Head(q) /\ Tail(q \o r) = Tail(q) \o r
  BY <1>4
<1> QED BY <1>1, <1>2, <1>3, <1>4

LEMMA DeliverFrames ==
    ASSUME Shape, out # <<>>, in' = Append(in, Head(out)), out' = Tail(out), UNCHANGED dropped
    PROVE  Frames' = Frames
<1>1. in \in Seq(Nat) /\ out \in Seq(Nat)
  BY DEF Shape
<1>2. ASSUME NEW q \in Seq(Nat), NEW r \in Seq(Nat), r # <<>> PROVE Append(q, Head(r)) \o Tail(r) = q \o r
  BY <1>2, SMTT(60)
<1>3. in' \o out' = in \o out
  BY <1>1, <1>2, Zenon
<1> QED BY <1>3 DEF Frames

LEMMA DropFrames ==
    ASSUME Shape, dropped = <<>>, out' = <<>>, dropped' = out, UNCHANGED in
    PROVE  Frames' = Frames
  BY DEF Shape, Frames

-----------------------------------------------------------------------------
(* What each kind of step does to them.                                      *)

\* No frame comes or goes.
LEMMA StayOK ==
    ASSUME FramesOK, Frames' = Frames, UNCHANGED <<got, ended, accepted>>, sendPhase' = "open" => sendPhase = "open",
           sendCall = "idle" => sendCall' = "idle" \/ sendPhase = "open"
    PROVE  FramesOK'
<1>1. CASE Flowing
  BY <1>1 DEF Flowing, FramesOK
<1>2. ASSUME NEW e \in 1..Len(Frames), Closing(e) PROVE Closing(e)'
  BY <1>2 DEF Closing
<1>3. CASE Ended
  BY <1>3 DEF Ended, FramesOK
<1> QED BY <1>1, <1>2, <1>3 DEF FramesOK

\* An item is put: by send_nowait() on the open endpoint, or by the send() in
\* progress, which is over then.
LEMMA PutOK ==
    ASSUME Shape, FramesOK, Frames' = Append(Frames, accepted'), accepted' = accepted + 1,
           UNCHANGED <<got, ended, sendPhase>>, sendPhase = "open" \/ (sendCall # "idle" /\ sendCall' = "idle")
    PROVE  FramesOK' /\ (Flowing => Flowing') /\ (Ended => Ended')
           /\ \A e \in 1..Len(Frames) : Closing(e) => e \in 1..Len(Frames') /\ Closing(e)'
<1> USE FramesType DEF Shape
<1>1. ASSUME Flowing PROVE Flowing'
  <2>1. Len(Frames') = Len(Frames) + 1 /\ Frames'[Len(Frames) + 1] = accepted' /\ \A i \in 1..Len(Frames) : Frames'[i] = Frames[i]
    OBVIOUS
  <2>2. Len(Frames) \in Nat /\ Len(got) \in Nat
    OBVIOUS
  <2>3. \A i \in 1..Len(Frames') : i \in 1..Len(Frames) \/ i = Len(Frames) + 1
    BY <2>1, <2>2, OneMore
  <2>4. accepted' = Len(got) + (Len(Frames) + 1)
    BY <1>1, <2>2 DEF Flowing
  <2>5. \A i \in 1..Len(Frames') : Frames'[i] = Len(got') + i
    <3> SUFFICES ASSUME NEW i \in 1..Len(Frames') PROVE Frames'[i] = Len(got) + i
      OBVIOUS
    <3>1. CASE i \in 1..Len(Frames)
      BY <1>1, <2>1, <3>1 DEF Flowing
    <3>2. CASE i = Len(Frames) + 1
      BY <2>1, <2>4, <3>2
    <3> QED BY <2>3, <3>1, <3>2
  <2> QED BY <1>1, <2>1, <2>4, <2>5 DEF Flowing
<1>2. ASSUME NEW e \in 1..Len(Frames), Closing(e) PROVE e \in 1..Len(Frames') /\ Closing(e)'
  <2>1. Len(Frames) = e /\ Len(Frames') = e + 1 /\ Frames'[e + 1] = accepted' /\ accepted' # Eof
    BY <1>2 DEF Closing, Eof
  <2>2. \A i \in 1..e : Frames'[i] = Frames[i]
    BY <2>1
  <2>3. Closing(e)'
    BY <1>2, <2>1, <2>2 DEF Closing
  <2>4. e \in 1..Len(Frames')
    BY <2>1
  <2> QED BY <2>3, <2>4
<1>3. ASSUME Ended PROVE Ended'
  <2>1. Len(Frames) = 0 /\ sendCall' = "idle"
    BY <1>3 DEF Ended
  <2>2. Len(Frames') = 1 /\ Frames'[1] = accepted' /\ accepted' # Eof
    BY <2>1 DEF Eof
  <2> QED BY <1>3, <2>1, <2>2 DEF Ended
<1> QED BY <1>1, <1>2, <1>3 DEF FramesOK

\* EOF is put.
LEMMA EofOK ==
    ASSUME Shape, FramesOK, Frames' = Append(Frames, Eof), sendPhase = "open", sendPhase' # "open",
           UNCHANGED <<got, ended, accepted>>
    PROVE  FramesOK' /\ Flowing /\ \E e \in 1..Len(Frames') : e = Len(Frames) + 1 /\ Closing(e)'
<1>1. Flowing
  BY DEF FramesOK, Closing, Ended
<1>2. Len(Frames') = Len(Frames) + 1 /\ Frames'[Len(Frames) + 1] = Eof /\ \A i \in 1..Len(Frames) : Frames'[i] = Frames[i]
  BY FramesType DEF Eof
<1>3. Len(Frames) \in Nat /\ Len(got) \in Nat /\ accepted \in Nat
  BY FramesType DEF Shape
<1>4. PICK e \in Nat : e = Len(Frames) + 1
  BY <1>3
<1>5. Closing(e)'
  BY <1>1, <1>2, <1>3, <1>4 DEF Flowing, Closing
<1>6. e \in 1..Len(Frames')
  BY <1>2, <1>3, <1>4
<1> QED BY <1>1, <1>4, <1>5, <1>6 DEF FramesOK

\* A frame is received: the next item, or EOF, which ends the stream.
LEMMA TakeOK ==
    ASSUME Shape, FramesOK, NoGaps, ~ended, Frames # <<>>, Frames' = Tail(Frames),
           IF Frames[1] = Eof THEN ended' = TRUE /\ UNCHANGED got
                              ELSE got' = Append(got, Frames[1]) /\ UNCHANGED ended,
           UNCHANGED <<accepted, sendPhase, sendCall>>
    PROVE  FramesOK' /\ NoGaps' /\ (Flowing => Flowing' /\ Frames[1] # Eof)
           /\ \A e \in 1..Len(Frames) : Closing(e) =>
                 IF e = 1 THEN Ended' /\ Frames[1] = Eof
                          ELSE e - 1 \in 1..Len(Frames') /\ Closing(e - 1)' /\ Frames[1] # Eof
<1>0. Frames \in Seq(Nat) /\ Frames' \in Seq(Nat) /\ Len(Frames) \in Nat /\ Len(Frames) >= 1 /\ Len(Frames') = Len(Frames) - 1
  BY FramesType
<1>1. \A i \in 1..Len(Frames') : i + 1 \in 1..Len(Frames) /\ Frames'[i] = Frames[i + 1]
  BY FramesType
<1>2. got \in Seq(Nat) /\ Len(got) \in Nat /\ accepted \in Nat
  BY DEF Shape
<1>3. ASSUME Frames[1] = Len(got) + 1
      PROVE  /\ Frames[1] # Eof /\ ~ended' /\ got' \in Seq(Nat) /\ Len(got') = Len(got) + 1 /\ NoGaps'
  <2>1. Frames[1] # Eof
    BY <1>2, <1>3 DEF Eof
  <2>2. got' = Append(got, Len(got) + 1)
    BY <1>3, <2>1
  <2>3. /\ got' \in Seq(Nat) /\ Len(got') = Len(got) + 1 /\ got'[Len(got) + 1] = Len(got) + 1
        /\ \A i \in 1..Len(got) : got'[i] = got[i]
    BY <1>2, <2>2
  <2>4. \A i \in 1..Len(got) : got[i] = i
    BY DEF NoGaps
  <2>5. \A i \in 1..Len(got') : got'[i] = i
    BY <1>2, <2>3, <2>4, OneMore
  <2>6. got' = [i \in 1..Len(got') |-> i]
    BY <2>3, <2>5
  <2> QED BY <2>1, <2>3, <2>6 DEF NoGaps
<1>4. ASSUME Flowing PROVE Flowing' /\ NoGaps' /\ Frames[1] # Eof
  <2>1. Frames[1] = Len(got) + 1 /\ accepted = Len(got) + Len(Frames)
    BY <1>0, <1>4 DEF Flowing
  <2>0. got' \in Seq(Nat) /\ Len(got') = Len(got) + 1
    BY <1>3, <2>1
  <2>2. accepted' = Len(got') + Len(Frames')
    BY <1>0, <1>2, <2>0, <2>1
  <2>3. \A i \in 1..Len(Frames') : Frames'[i] = Len(got') + i
    <3> SUFFICES ASSUME NEW i \in 1..Len(Frames') PROVE Frames'[i] = Len(got') + i
      OBVIOUS
    <3>1. Frames'[i] = Frames[i + 1] /\ i + 1 \in 1..Len(Frames)
      BY <1>1
    <3>2. Frames[i + 1] = Len(got) + (i + 1)
      BY <1>4, <3>1 DEF Flowing
    <3> QED BY <1>2, <2>0, <3>1, <3>2
  <2> QED BY <1>3, <2>1, <2>2, <2>3 DEF Flowing
<1>5. ASSUME NEW e \in 1..Len(Frames), Closing(e), e # 1
      PROVE  e - 1 \in 1..Len(Frames') /\ Closing(e - 1)' /\ NoGaps' /\ Frames[1] # Eof
  <2>1. Frames[1] = Len(got) + 1 /\ accepted + 1 = Len(got) + Len(Frames)
    <3>1. 1 \in 1..(e - 1)
      BY <1>0, <1>5
    <3> QED BY <3>1, <1>5 DEF Closing
  <2>0. got' \in Seq(Nat) /\ Len(got') = Len(got) + 1
    BY <1>3, <2>1
  <2>2. PICK d \in Nat : d = e - 1 /\ d \in 1..Len(Frames')
    BY <1>0, <1>5
  <2>3. accepted' + 1 = Len(got') + Len(Frames')
    <3>1. accepted + 1 = (Len(got) + 1) + (Len(Frames) - 1)
      <4>1. ASSUME NEW a \in Nat, NEW g \in Nat, NEW f \in Nat, a + 1 = g + f PROVE a + 1 = (g + 1) + (f - 1)
        BY <4>1
      <4>2. accepted + 1 = Len(got) + Len(Frames) /\ accepted \in Nat /\ Len(got) \in Nat /\ Len(Frames) \in Nat
        BY <1>0, <1>2, <2>1
      <4> QED BY <4>1, <4>2
    <3>2. accepted' = accepted
      OBVIOUS
    <3> QED BY <1>0, <2>0, <3>1, <3>2
  <2>4. \A i \in 1..(d - 1) : Frames'[i] = Len(got') + i
    <3> SUFFICES ASSUME NEW i \in 1..(d - 1) PROVE Frames'[i] = Len(got') + i
      OBVIOUS
    <3>1. Frames'[i] = Frames[i + 1] /\ i + 1 \in 1..(e - 1)
      <4>1. i \in 1..Len(Frames') /\ i + 1 \in 1..(e - 1)
        BY <1>0, <2>2
      <4> QED BY <1>1, <4>1
    <3>2. Frames[i + 1] = Len(got) + (i + 1)
      BY <1>5, <3>1 DEF Closing
    <3> QED BY <1>2, <2>0, <3>1, <3>2
  <2>5. Frames'[d] = Eof
    <3>1. Frames'[d] = Frames[d + 1] /\ d + 1 = e
      BY <1>1, <1>5, <2>2
    <3> QED BY <3>1, <1>5 DEF Closing
  <2>6. Len(Frames') = d \/ (Len(Frames') = d + 1 /\ sendCall = "idle" /\ Frames'[d + 1] # Eof)
    <3>1. CASE Len(Frames) = e
      BY <1>0, <2>2, <3>1
    <3>2. CASE Len(Frames) = e + 1 /\ sendCall = "idle" /\ Frames[e + 1] # Eof
      <4>1. Len(Frames') = d + 1 /\ d + 1 \in 1..Len(Frames') /\ (d + 1) + 1 = e + 1
        BY <1>0, <2>2, <3>2
      <4> QED BY <1>1, <3>2, <4>1
    <3> QED BY <1>5, <3>1, <3>2 DEF Closing
  <2>7. Closing(d)'
    BY <1>3, <1>5, <2>1, <2>3, <2>4, <2>5, <2>6 DEF Closing
  <2> QED BY <1>3, <2>1, <2>2, <2>7
<1>6. ASSUME Closing(1) PROVE Ended' /\ NoGaps' /\ Frames[1] = Eof
  <2>1. Frames[1] = Eof /\ ended' = TRUE /\ got' = got
    BY <1>6 DEF Closing
  <2>2. accepted' = Len(got') + Len(Frames')
    <3>1. accepted + 1 = Len(got) + Len(Frames)
      BY <1>6 DEF Closing
    <3> QED BY <1>0, <1>2, <2>1, <3>1
  <2>3. Len(Frames') = 0 \/ (Len(Frames') = 1 /\ sendCall = "idle" /\ Frames'[1] # Eof)
    BY <1>0, <1>1, <1>6 DEF Closing
  <2>4. Ended'
    BY <1>6, <2>1, <2>2, <2>3 DEF Ended, Closing
  <2> QED BY <2>1, <2>4 DEF NoGaps
<1>7. \A e \in 1..Len(Frames) : Closing(e) =>
         IF e = 1 THEN Ended' /\ Frames[1] = Eof
                  ELSE e - 1 \in 1..Len(Frames') /\ Closing(e - 1)' /\ Frames[1] # Eof
  BY <1>5, <1>6
<1>8. Flowing \/ \E e \in 1..Len(Frames) : Closing(e)
  BY DEF FramesOK, Ended
<1> QED BY <1>4, <1>5, <1>6, <1>7, <1>8 DEF FramesOK

-----------------------------------------------------------------------------
LEMMA InitInv == Init => Inv
<1> SUFFICES ASSUME Init PROVE Inv
  OBVIOUS
<1>1. Shape
  <2>1. out \in Seq(Nat) /\ in \in Seq(Nat) /\ dropped \in Seq(Nat) /\ got \in Seq(Nat) /\ accepted \in Nat
    BY DEF Init
  <2>2. peerClosed \in BOOLEAN /\ ended \in BOOLEAN
    BY DEF Init
  <2> QED BY <2>1, <2>2 DEF Init, Shape
<1>0. Endpoints
  BY DEF Init, Endpoints
<1>2. Frames = <<>> /\ Len(Frames) = 0 /\ Len(got) = 0
  BY DEF Init, Frames
<1>3. Flowing
  BY <1>2 DEF Init, Flowing
<1>4. NoGaps
  BY DEF Init, NoGaps
<1> QED BY <1>0, <1>1, <1>3, <1>4 DEF Inv, FramesOK

\* send(), from its checkpoint on, and send_nowait().
LEMMA PutItemOK ==
    ASSUME Inv, PutItem, sendPhase # "closed", UNCHANGED <<dropped, in, got, ended, sendPhase>>,
           sendPhase = "open" \/ (sendCall # "idle" /\ sendCall' = "idle")
    PROVE  FramesOK' /\ NoGaps' /\ out' \in Seq(Nat) /\ accepted' \in Nat
<1>1. accepted' = accepted + 1 /\ out' = Append(out, accepted') /\ accepted' \in Nat /\ out' \in Seq(Nat)
  BY DEF PutItem, Inv, Shape
<1>2. dropped = <<>>
  BY DEF Inv, Endpoints
<1>3. Frames' = Append(Frames, accepted')
  BY <1>1, <1>2, PutFrames DEF Inv
<1>4. FramesOK'
  BY <1>1, <1>3, PutOK DEF Inv
<1> QED BY <1>1, <1>4 DEF Inv, NoGaps

\* Steps that move no frame.
LEMMA SameWire ==
    ASSUME Inv, Frames' = Frames, UNCHANGED <<got, ended, accepted>>, sendPhase' = "open" => sendPhase = "open",
           sendCall = "idle" => sendCall' = "idle" \/ sendPhase = "open"
    PROVE  FramesOK' /\ NoGaps'
  BY StayOK DEF Inv, NoGaps

LEMMA FramesSame == ASSUME UNCHANGED <<out, in, dropped>> PROVE Frames' = Frames
  BY DEF Frames

LEMMA SendSteps == ASSUME Inv, Send \/ SendTries \/ SendUnblocked \/ SendCancelled \/ SendNowait PROVE Inv'
<1>1. CASE Send
  <2>1. FramesOK' /\ NoGaps'
    BY <1>1, SameWire, FramesSame DEF Send, wire, phases
  <2> QED BY <1>1, <2>1 DEF Inv, Shape, Endpoints, Send, wire, phases
<1>2. CASE SendTries
  <2>1. CASE PutItem /\ sendPhase # "closed" /\ ~PeerGone /\ sendCall' = "idle"
    <3>1. FramesOK' /\ NoGaps' /\ out' \in Seq(Nat) /\ accepted' \in Nat
      BY <1>2, <2>1, PutItemOK DEF SendTries, phases
    <3> QED BY <1>2, <2>1, <3>1 DEF Inv, Shape, Endpoints, SendTries, phases, PeerGone
  <2>2. CASE UNCHANGED <<out, accepted>> /\ sendCall' = "idle"
    <3>1. FramesOK' /\ NoGaps'
      BY <1>2, <2>2, SameWire, FramesSame DEF SendTries, phases
    <3> QED BY <1>2, <2>2, <3>1 DEF Inv, Shape, Endpoints, SendTries, phases, PeerGone
  <2>3. CASE UNCHANGED <<out, accepted>> /\ sendCall' = "blocked" /\ sendPhase # "closed" /\ ~PeerGone
    <3>1. FramesOK' /\ NoGaps'
      BY <1>2, <2>3, SameWire, FramesSame DEF SendTries, phases
    <3> QED BY <1>2, <2>3, <3>1 DEF Inv, Shape, Endpoints, SendTries, phases, PeerGone
  <2> QED BY <1>2, <2>1, <2>2, <2>3 DEF SendTries
<1>3. CASE SendUnblocked
  <2>1. FramesOK' /\ NoGaps' /\ out' \in Seq(Nat) /\ accepted' \in Nat
    BY <1>3, PutItemOK DEF SendUnblocked, phases
  <2> QED BY <1>3, <2>1 DEF Inv, Shape, Endpoints, SendUnblocked, phases
<1>4. CASE SendCancelled
  <2>1. FramesOK' /\ NoGaps'
    BY <1>4, SameWire, FramesSame DEF SendCancelled, wire, phases
  <2> QED BY <1>4, <2>1 DEF Inv, Shape, Endpoints, SendCancelled, wire, phases
<1>5. CASE SendNowait
  <2>1. CASE PutItem
    <3>1. FramesOK' /\ NoGaps' /\ out' \in Seq(Nat) /\ accepted' \in Nat
      BY <1>5, <2>1, PutItemOK DEF SendNowait, phases
    <3> QED BY <1>5, <2>1, <3>1 DEF Inv, Shape, Endpoints, SendNowait, phases, calls, PeerGone
  <2>2. CASE UNCHANGED <<out, accepted>>
    <3>1. FramesOK' /\ NoGaps'
      BY <1>5, <2>2, SameWire, FramesSame DEF SendNowait, phases, calls
    <3> QED BY <1>5, <2>2, <3>1 DEF Inv, Shape, Endpoints, SendNowait, phases, calls, PeerGone
  <2> QED BY <1>5, <2>1, <2>2 DEF SendNowait
<1> QED BY <1>1, <1>2, <1>3, <1>4, <1>5

\* aclose() of the send side.
LEMMA CloseSteps == ASSUME Inv, CloseSend \/ SendSocketCloses PROVE Inv'
<1>1. CASE SendSocketCloses
  <2>1. FramesOK' /\ NoGaps'
    BY <1>1, SameWire, FramesSame DEF SendSocketCloses, wire
  <2> QED BY <1>1, <2>1 DEF Inv, Shape, Endpoints, SendSocketCloses, wire
<1>2. CASE CloseSend /\ ~PeerGone /\ CanPut
  <2>1. dropped = <<>> /\ out' = Append(out, Eof) /\ Eof \in Nat
    BY <1>2 DEF CloseSend, Inv, Endpoints, Eof
  <2>2. Frames' = Append(Frames, Eof)
    BY <1>2, <2>1, PutFrames DEF Inv, CloseSend
  <2>3. FramesOK' /\ NoGaps'
    BY <1>2, <2>2, EofOK DEF Inv, CloseSend, NoGaps
  <2>4. out' \in Seq(Nat)
    BY <2>1 DEF Inv, Shape
  <2> QED BY <1>2, <2>1, <2>3, <2>4 DEF Inv, Shape, Endpoints, CloseSend, PeerGone
<1>3. CASE CloseSend /\ (PeerGone \/ ~CanPut)
  <2>1. UNCHANGED out
    BY <1>3 DEF CloseSend
  <2>2. FramesOK' /\ NoGaps'
    BY <1>3, <2>1, SameWire, FramesSame DEF CloseSend
  <2> QED BY <1>3, <2>1, <2>2 DEF Inv, Shape, Endpoints, CloseSend, PeerGone
<1> QED BY <1>1, <1>2, <1>3

\* The receive endpoint.
LEMMA TakeFrameStep ==
    ASSUME Inv, ~ended, TakeFrame, UNCHANGED <<dropped, out, sendCall, phases, peerClosed, accepted>>
    PROVE  Inv'
<1>1. Frames # <<>> /\ Frames[1] = Head(in) /\ Frames' = Tail(Frames)
  BY TakeFrames DEF Inv, TakeFrame
<1>2. FramesOK' /\ NoGaps'
  BY <1>1, TakeOK DEF Inv, TakeFrame, phases
<1>3. in' \in Seq(Nat) /\ got' \in Seq(Nat) /\ ended' \in BOOLEAN
  <2>1. Head(in) \in Nat /\ Tail(in) \in Seq(Nat)
    BY DEF Inv, Shape, TakeFrame
  <2>2. Append(got, Head(in)) \in Seq(Nat)
    BY <2>1 DEF Inv, Shape
  <2> QED BY <2>1, <2>2 DEF Inv, Shape, TakeFrame
<1> QED BY <1>2, <1>3 DEF Inv, Shape, Endpoints, TakeFrame, phases

LEMMA RecvSteps == ASSUME Inv, Receive \/ ReceiveWaits \/ ReceiveWakes \/ ReceiveCancelled \/ CloseRecv \/ RecvSocketCloses PROVE Inv'
<1>1. CASE Receive
  BY <1>1, TakeFrameStep DEF Receive, MayReceive
<1>2. CASE ReceiveWakes
  BY <1>2, TakeFrameStep DEF ReceiveWakes, Inv, Endpoints
<1>3. CASE ReceiveWaits \/ ReceiveCancelled \/ CloseRecv \/ RecvSocketCloses
  <2> USE DEF ReceiveWaits, ReceiveCancelled, CloseRecv, RecvSocketCloses, wire, phases, calls
  <2>1. FramesOK' /\ NoGaps'
    BY <1>3, SameWire, FramesSame
  <2>2. Shape'
    BY <1>3 DEF Inv, Shape, MayReceive
  <2>3. Endpoints'
    BY <1>3 DEF Inv, Shape, Endpoints, MayReceive
  <2> QED BY <2>1, <2>2, <2>3 DEF Inv
<1> QED BY <1>1, <1>2, <1>3

\* The transport.
LEMMA WireSteps == ASSUME Inv, Connect \/ Deliver \/ DeliverClose \/ LingerExpires PROVE Inv'
<1> USE DEF Connect, Deliver, DeliverClose, LingerExpires, phases, calls
<1>1. Frames' = Frames
  <2>1. CASE UNCHANGED <<out, in, dropped>>
    BY <2>1, FramesSame
  <2>2. CASE Deliver
    BY <2>2, DeliverFrames DEF Inv
  <2>3. CASE out # <<>> /\ out' = <<>> /\ dropped' = out /\ UNCHANGED in
    BY <2>3, DropFrames DEF Inv, Endpoints
  <2> QED BY <2>1, <2>2, <2>3
<1>2. FramesOK' /\ NoGaps'
  BY <1>1, SameWire
<1>3. Shape'
  <2>1. in \in Seq(Nat) /\ out \in Seq(Nat) /\ dropped \in Seq(Nat)
    BY DEF Inv, Shape
  <2>2. out # <<>> => Append(in, Head(out)) \in Seq(Nat) /\ Tail(out) \in Seq(Nat)
    BY <2>1
  <2>3. in' \in Seq(Nat) /\ out' \in Seq(Nat) /\ dropped' \in Seq(Nat)
    <3>1. CASE Deliver
      BY <2>1, <2>2, <3>1
    <3>2. CASE LingerExpires
      <4>1. <<>> \in Seq(Nat)
        OBVIOUS
      <4>2. in' = in /\ out' \in {out, <<>>} /\ dropped' \in {dropped, out}
        BY <3>2
      <4> QED BY <2>1, <4>1, <4>2
    <3>3. CASE Connect \/ DeliverClose
      BY <2>1, <3>3
    <3> QED BY <3>1, <3>2, <3>3
  <2> QED BY <2>3 DEF Inv, Shape
<1>4. Endpoints'
  BY DEF Inv, Endpoints
<1> QED BY <1>2, <1>3, <1>4 DEF Inv

LEMMA InvStep == Inv /\ [Next]_vars => Inv'
<1> SUFFICES ASSUME Inv, [Next]_vars PROVE Inv'
  OBVIOUS
<1>1. CASE UNCHANGED vars
  <2>1. FramesOK' /\ NoGaps'
    BY <1>1, SameWire, FramesSame DEF vars, wire, phases, calls
  <2> QED BY <1>1, <2>1 DEF Inv, Shape, Endpoints, vars, wire, phases, calls
<1> QED BY <1>1, SendSteps, CloseSteps, RecvSteps, WireSteps DEF Next

LEMMA InvAlways == Spec => []Inv
  BY InitInv, InvStep, PTL DEF Spec

-----------------------------------------------------------------------------
\* The items received are the first ones sent, in order, whatever is cancelled,
\* closed or dropped.  (_ZmqSend, _ZmqReceive)
THEOREM ReceivedInOrder == Spec => []NoGaps
<1>1. Inv => NoGaps
  BY DEF Inv
<1> QED BY <1>1, InvAlways, PTL

\* EndOfStream means that all items were received, but for one that was being
\* sent while another task closed the endpoint.  (aclose, _decode_frame)
THEOREM EndComesLast == Spec => []EndMeansAll
<1>1. Inv => EndMeansAll
  <2> SUFFICES ASSUME Inv, ended PROVE accepted - Len(got) \in {0, 1}
    BY DEF EndMeansAll
  <2>1. Ended
    BY DEF Inv, FramesOK, Flowing, Closing
  <2>2. Len(got) \in Nat /\ accepted = Len(got) + Len(Frames) /\ Len(Frames) \in {0, 1} /\ Frames \in Seq(Nat)
    BY <2>1, FramesType DEF Ended, Inv, Shape
  <2> QED BY <2>2
<1> QED BY <1>1, InvAlways, PTL

-----------------------------------------------------------------------------
(* The refinement of Stream: what its state is in each of the three cases.   *)

Count == Len(got \o Undelivered)
SendIsOpen == sendPhase # "closed" /\ ~Announced
RecvIsOpen == ~peerClosed \/ recvPhase # "closed"

View ==
    /\ Flowing => ~Announced /\ Undelivered = Frames
    /\ \A e \in 1..Len(Frames) : Closing(e) => Announced /\ Undelivered = SubSeq(Frames, 1, e - 1)
    /\ Ended => Announced /\ Undelivered = <<>>

LEMMA Around ==
    ASSUME NEW n \in Nat, NEW e \in 1..n, n = e \/ n = e + 1, NEW i \in 1..n
    PROVE  i \in 1..(e - 1) \/ i = e \/ (i = e + 1 /\ n = e + 1)
  OBVIOUS

LEMMA ViewHolds == Inv => View
<1> SUFFICES ASSUME Inv PROVE View
  OBVIOUS
<1>1. Frames \in Seq(Nat) /\ DOMAIN Frames = 1..Len(Frames) /\ Len(got) \in Nat
  BY FramesType DEF Inv, Shape
<1>2. ASSUME Flowing PROVE ~Announced /\ Undelivered = Frames
  <2>1. \A i \in 1..Len(Frames) : Frames[i] # Eof
    BY <1>1, <1>2 DEF Flowing, Eof
  <2>2. ~Announced /\ ~ended
    BY <1>1, <1>2, <2>1 DEF Flowing, Announced
  <2>3. SubSeq(Frames, 1, Len(Frames)) = Frames
    BY <1>1
  <2> QED BY <2>2, <2>3 DEF Undelivered
<1>3. ASSUME NEW e \in 1..Len(Frames), Closing(e) PROVE Announced /\ Undelivered = SubSeq(Frames, 1, e - 1)
  <2>1. Announced /\ ~ended
    BY <1>1, <1>3 DEF Closing, Announced
  <2>2. ASSUME NEW i \in 1..(e - 1) PROVE Frames[i] # Eof
    <3>1. Frames[i] = Len(got) + i
      BY <1>3 DEF Closing
    <3> QED BY <1>1, <3>1 DEF Eof
  <2>3. {i \in 1..Len(Frames) : Frames[i] = Eof} = {e}
    <3>1. ASSUME NEW i \in 1..Len(Frames), Frames[i] = Eof PROVE i = e
      <4>1. i \in 1..(e - 1) \/ i = e \/ (i = e + 1 /\ Len(Frames) = e + 1)
        <5>1. Len(Frames) = e \/ Len(Frames) = e + 1
          BY <1>3, Zenon DEF Closing
        <5>2. Len(Frames) \in Nat
          BY <1>1
        <5> QED BY <5>1, <5>2, Around
      <4> QED BY <1>1, <1>3, <2>2, <3>1, <4>1 DEF Closing
    <3>2. Frames[e] = Eof
      BY <1>3 DEF Closing
    <3> QED BY <3>1, <3>2
  <2>4. Min({e}) = e
    BY DEF Min
  <2>5. SelectInSeq(Frames, LAMBDA f : f = Eof) = e
    BY <2>3, <2>4 DEF SelectInSeq
  <2> QED BY <2>1, <2>5 DEF Undelivered
<1>4. ASSUME Ended PROVE Announced /\ Undelivered = <<>>
  BY <1>4 DEF Ended, Announced, Undelivered
<1> QED BY <1>2, <1>3, <1>4 DEF View

LEMMA UndeliveredType == ASSUME Inv PROVE Undelivered \in Seq(Nat)
<1>1. View /\ Frames \in Seq(Nat)
  BY ViewHolds, FramesType DEF Inv
<1>2. \A e \in 1..Len(Frames) : SubSeq(Frames, 1, e - 1) \in Seq(Nat)
  BY <1>1
<1>3. <<>> \in Seq(Nat)
  OBVIOUS
<1> QED BY <1>1, <1>2, <1>3 DEF View, Inv, FramesOK

-----------------------------------------------------------------------------
(* Each step of the channel is one of the stream, or none.                   *)

\* Nothing moves, but the receive side may be known to be closed now.
LEMMA QuietIsStream ==
    ASSUME Undelivered' = Undelivered, SendIsOpen' <=> SendIsOpen, RecvIsOpen' => RecvIsOpen, UNCHANGED <<got, ended>>
    PROVE  [StreamSpec!Next]_(StreamSpec!vars)
<1>1. CASE RecvIsOpen' <=> RecvIsOpen
  BY <1>1 DEF StreamSpec!vars, SendIsOpen, RecvIsOpen
<1>2. CASE ~RecvIsOpen'
  <2>1. StreamSpec!CloseRecv
    BY <1>2 DEF StreamSpec!CloseRecv, SendIsOpen, RecvIsOpen
  <2> QED BY <2>1 DEF StreamSpec!Next
<1> QED BY <1>1, <1>2

\* The send side is closed.
LEMMA ShutIsStream ==
    ASSUME Undelivered' = Undelivered, ~SendIsOpen', RecvIsOpen' => RecvIsOpen, UNCHANGED <<got, ended>>
    PROVE  StreamSpec!CloseSend
  BY DEF StreamSpec!CloseSend, SendIsOpen, RecvIsOpen

LEMMA UpTo == ASSUME NEW n \in Nat PROVE 1..(n + 1) = 1..n \cup {n + 1}
  OBVIOUS

\* An item is put: it joins the stream, unless EOF has gone before it.
LEMMA PutIsStream ==
    ASSUME Inv, View, View', PutItem, sendPhase # "closed", ~peerClosed, UNCHANGED <<dropped, in, got, ended, sendPhase, peerClosed>>,
           sendPhase = "open" \/ (sendCall # "idle" /\ sendCall' = "idle"), UNCHANGED recvPhase
    PROVE  [StreamSpec!Next]_(StreamSpec!vars)
<1>1. accepted' = accepted + 1 /\ out' = Append(out, accepted') /\ accepted' \in Nat /\ dropped = <<>>
  BY DEF PutItem, Inv, Shape, Endpoints
<1>2. Frames' = Append(Frames, accepted') /\ Frames \in Seq(Nat)
  BY <1>1, PutFrames, FramesType DEF Inv
<1>3. /\ (Flowing => Flowing') /\ (Ended => Ended')
      /\ \A e \in 1..Len(Frames) : Closing(e) => e \in 1..Len(Frames') /\ Closing(e)'
  BY <1>1, <1>2, PutOK DEF Inv
<1>4. CASE Flowing
  <2>1. Undelivered = Frames /\ Undelivered' = Append(Undelivered, accepted') /\ ~Announced /\ ~Announced'
    BY <1>2, <1>3, <1>4 DEF View
  <2>2. got \in Seq(Nat) /\ accepted = Len(got) + Len(Frames)
    BY <1>4 DEF Inv, Shape, Flowing
  <2>3. Count \in Nat /\ Count = accepted /\ Count' = accepted'
    BY <1>1, <1>2, <2>1, <2>2 DEF Count
  <2>4. (1..Count)' = 1..Count \cup {Count'}
    BY <1>1, <2>3, UpTo
  <2>5. StreamSpec!Put
    BY <1>1, <2>1, <2>3, <2>4 DEF StreamSpec!Put, Count
  <2> QED BY <2>5 DEF StreamSpec!Next
<1>5. CASE ~Flowing
  <2>1. Undelivered' = Undelivered /\ Announced /\ Announced'
    <3>1. ASSUME NEW e \in 1..Len(Frames), Closing(e) PROVE Undelivered' = Undelivered /\ Announced /\ Announced'
      <4>1. SubSeq(Frames', 1, e - 1) = SubSeq(Frames, 1, e - 1)
        BY <1>1, <1>2
      <4> QED BY <1>3, <3>1, <4>1 DEF View
    <3> QED BY <1>3, <1>5, <3>1 DEF View, Inv, FramesOK
  <2> QED BY <2>1, QuietIsStream DEF SendIsOpen, RecvIsOpen
<1> QED BY <1>4, <1>5

\* EOF is put: nothing joins the stream any more.
LEMMA EofIsStream ==
    ASSUME Inv, View, View', Frames' = Append(Frames, Eof), sendPhase = "open", sendPhase' # "open",
           UNCHANGED <<got, ended, accepted, recvPhase>>, peerClosed => peerClosed'
    PROVE  StreamSpec!CloseSend
<1>1. Flowing /\ Frames \in Seq(Nat)
  BY EofOK, FramesType DEF Inv
<1>2. PICK e \in 1..Len(Frames') : e = Len(Frames) + 1 /\ Closing(e)'
  BY EofOK DEF Inv
<1>3. SubSeq(Frames', 1, e - 1) = Frames
  BY <1>1, <1>2 DEF Eof
<1>4. Undelivered' = Undelivered /\ Announced'
  BY <1>1, <1>2, <1>3 DEF View
<1> QED BY <1>4, ShutIsStream DEF SendIsOpen, RecvIsOpen

LEMMA TailOfPrefix ==
    ASSUME NEW q \in Seq(Nat), NEW k \in 1..Len(q)
    PROVE  /\ SubSeq(q, 1, k) \in Seq(Nat) /\ SubSeq(q, 1, k) # <<>> /\ Head(SubSeq(q, 1, k)) = q[1]
           /\ SubSeq(Tail(q), 1, k - 1) = Tail(SubSeq(q, 1, k))
<1>1. SubSeq(q, 1, k) \in Seq(Nat) /\ Len(SubSeq(q, 1, k)) = k /\ \A i \in 1..k : SubSeq(q, 1, k)[i] = q[i]
  OBVIOUS
<1>2. SubSeq(q, 1, k) # <<>> /\ Head(SubSeq(q, 1, k)) = q[1]
  BY <1>1
<1>3. /\ Tail(SubSeq(q, 1, k)) \in Seq(Nat) /\ Len(Tail(SubSeq(q, 1, k))) = k - 1
      /\ \A i \in 1..(k - 1) : Tail(SubSeq(q, 1, k))[i] = q[i + 1]
  BY <1>1, <1>2
<1>4. Tail(q) \in Seq(Nat) /\ Len(Tail(q)) = Len(q) - 1 /\ \A i \in 1..(Len(q) - 1) : Tail(q)[i] = q[i + 1]
  OBVIOUS
<1>5. /\ SubSeq(Tail(q), 1, k - 1) \in Seq(Nat) /\ Len(SubSeq(Tail(q), 1, k - 1)) = k - 1
      /\ \A i \in 1..(k - 1) : SubSeq(Tail(q), 1, k - 1)[i] = q[i + 1]
  BY <1>4
<1> QED BY <1>1, <1>2, <1>3, <1>5, SeqEqual

\* A frame is received: Take, or End for EOF.
LEMMA TakeIsStream ==
    ASSUME Inv, View, View', ~ended, TakeFrame, recvPhase # "closed",
           UNCHANGED <<dropped, out, sendCall, phases, peerClosed, accepted>>
    PROVE  StreamSpec!Take \/ StreamSpec!End
<1>1. Frames # <<>> /\ Frames[1] = Head(in) /\ Frames' = Tail(Frames) /\ Frames \in Seq(Nat) /\ got \in Seq(Nat)
  BY TakeFrames, FramesType DEF Inv, Shape, TakeFrame
<1>2. /\ Flowing => Flowing' /\ Frames[1] # Eof
      /\ \A e \in 1..Len(Frames) : Closing(e) =>
            IF e = 1 THEN Ended' /\ Frames[1] = Eof
                     ELSE e - 1 \in 1..Len(Frames') /\ Closing(e - 1)' /\ Frames[1] # Eof
  BY <1>1, TakeOK DEF Inv, TakeFrame, phases
<1>3. ASSUME Undelivered \in Seq(Nat), Undelivered # <<>>, Frames[1] # Eof, Head(Undelivered) = Frames[1],
             Undelivered' = Tail(Undelivered), Announced' <=> Announced
      PROVE  StreamSpec!Take
  <2>1. got' = Append(got, Head(Undelivered)) /\ UNCHANGED ended
    BY <1>1, <1>3 DEF TakeFrame
  <2>2. Count' = Count
    BY <1>1, <1>3, <2>1 DEF Count
  <2> QED BY <1>3, <2>1, <2>2 DEF StreamSpec!Take, Count, phases
<1>4. CASE Flowing
  <2>1. Undelivered = Frames /\ Undelivered' = Frames' /\ ~Announced /\ ~Announced'
    BY <1>2, <1>4 DEF View
  <2>2. Head(Frames) = Frames[1]
    BY <1>1
  <2> QED BY <1>1, <1>2, <1>3, <1>4, <2>1, <2>2
<1>5. ASSUME NEW e \in 1..Len(Frames), Closing(e), e # 1 PROVE StreamSpec!Take
  <2>1. e - 1 \in 1..Len(Frames') /\ Closing(e - 1)' /\ Frames[1] # Eof
    BY <1>2, <1>5
  <2>2. /\ Undelivered = SubSeq(Frames, 1, e - 1) /\ Announced
        /\ Undelivered' = SubSeq(Frames', 1, (e - 1) - 1) /\ Announced'
    BY <1>5, <2>1 DEF View
  <2>3. /\ SubSeq(Frames, 1, e - 1) \in Seq(Nat) /\ SubSeq(Frames, 1, e - 1) # <<>>
        /\ Head(SubSeq(Frames, 1, e - 1)) = Frames[1]
        /\ SubSeq(Tail(Frames), 1, (e - 1) - 1) = Tail(SubSeq(Frames, 1, e - 1))
    <3>1. Len(Frames) \in Nat /\ e - 1 \in 1..Len(Frames)
      BY <1>1, <1>5
    <3> QED BY <1>1, <3>1, TailOfPrefix
  <2> QED BY <1>1, <1>3, <2>1, <2>2, <2>3
<1>6. ASSUME Closing(1) PROVE StreamSpec!End
  <2>1. Len(Frames) \in Nat \ {0}
    BY <1>1
  <2>2. Ended' /\ Frames[1] = Eof
    BY <1>2, <1>6, <2>1
  <2>3. Undelivered = SubSeq(Frames, 1, 0) /\ Announced /\ Undelivered' = <<>> /\ Announced'
    BY <1>6, <2>1, <2>2 DEF View
  <2>4. Undelivered = <<>>
    BY <1>1, <2>3
  <2>5. ended' = TRUE /\ UNCHANGED got
    BY <1>1, <2>2 DEF TakeFrame
  <2> QED BY <2>3, <2>4, <2>5 DEF StreamSpec!End, phases
<1> QED BY <1>4, <1>5, <1>6 DEF Inv, FramesOK, Ended

LEMMA SameView ==
    ASSUME Frames' = Frames, UNCHANGED ended
    PROVE  Undelivered' = Undelivered /\ (Announced' <=> Announced)
  BY DEF Undelivered, Announced, SelectInSeq, Min

\* No frame comes or goes, and what is closed stays so.
LEMMA StillIsStream ==
    ASSUME Frames' = Frames, UNCHANGED <<ended, got>>, sendPhase' = "closed" <=> sendPhase = "closed",
           peerClosed => peerClosed', recvPhase = "closed" => recvPhase' = "closed"
    PROVE  [StreamSpec!Next]_(StreamSpec!vars)
  BY SameView, QuietIsStream DEF SendIsOpen, RecvIsOpen

LEMMA SendIsStream ==
    ASSUME Inv, View, View', Send \/ SendTries \/ SendUnblocked \/ SendCancelled \/ SendNowait
    PROVE  [StreamSpec!Next]_(StreamSpec!vars)
<1> USE DEF wire, phases, calls, PeerGone
<1>1. CASE Send \/ SendCancelled
  BY <1>1, FramesSame, StillIsStream DEF Send, SendCancelled
<1>2. CASE SendTries
  <2>1. CASE UNCHANGED <<out, accepted>>
    <3>1. Frames' = Frames
      BY <1>2, <2>1, FramesSame DEF SendTries
    <3> QED BY <1>2, <2>1, <3>1, StillIsStream DEF SendTries
  <2>2. CASE sendPhase # "closed" /\ ~PeerGone /\ PutItem /\ sendCall' = "idle"
    <3>1. peerClosed = FALSE /\ peerClosed' = FALSE
      BY <1>2, <2>2 DEF SendTries, Inv, Shape
    <3> QED BY <1>2, <2>2, <3>1, PutIsStream DEF SendTries
  <2> QED BY <1>2, <2>1, <2>2 DEF SendTries
<1>3. CASE SendUnblocked
  BY <1>3, PutIsStream DEF SendUnblocked, Inv, Endpoints
<1>4. CASE SendNowait
  <2>1. CASE UNCHANGED <<out, accepted>>
    <3>1. Frames' = Frames
      BY <1>4, <2>1, FramesSame DEF SendNowait
    <3> QED BY <1>4, <2>1, <3>1, StillIsStream DEF SendNowait
  <2>2. CASE ~PeerGone /\ PutItem
    <3>1. peerClosed = FALSE /\ peerClosed' = FALSE
      BY <1>4, <2>2 DEF SendNowait, Inv, Shape
    <3> QED BY <1>4, <2>2, <3>1, PutIsStream DEF SendNowait
  <2> QED BY <1>4, <2>1, <2>2 DEF SendNowait
<1> QED BY <1>1, <1>2, <1>3, <1>4

LEMMA CloseSendIsStream ==
    ASSUME Inv, View, View', CloseSend \/ SendSocketCloses
    PROVE  [StreamSpec!Next]_(StreamSpec!vars)
<1> USE DEF wire, phases, calls, PeerGone
<1>1. CASE SendSocketCloses
  <2>1. Undelivered' = Undelivered
    BY <1>1, FramesSame, SameView DEF SendSocketCloses
  <2>2. StreamSpec!CloseSend
    BY <1>1, <2>1, ShutIsStream DEF SendSocketCloses, SendIsOpen, RecvIsOpen
  <2> QED BY <2>2 DEF StreamSpec!Next
<1>2. CASE CloseSend /\ PeerGone
  <2>1. Undelivered' = Undelivered
    BY <1>2, FramesSame, SameView DEF CloseSend
  <2>2. StreamSpec!CloseSend
    BY <1>2, <2>1, ShutIsStream DEF CloseSend, SendIsOpen, RecvIsOpen
  <2> QED BY <2>2 DEF StreamSpec!Next
<1>3. CASE CloseSend /\ ~PeerGone /\ CanPut
  <2>1. out' = Append(out, Eof) /\ UNCHANGED <<in, dropped>> /\ Eof \in Nat /\ dropped = <<>>
    BY <1>3 DEF CloseSend, Eof, Inv, Endpoints
  <2>2. Frames' = Append(Frames, Eof)
    BY <2>1, PutFrames DEF Inv
  <2>3. StreamSpec!CloseSend
    BY <1>3, <2>2, EofIsStream DEF CloseSend
  <2> QED BY <2>3 DEF StreamSpec!Next
<1>4. CASE CloseSend /\ ~PeerGone /\ ~CanPut
  <2>1. Frames' = Frames
    BY <1>4, FramesSame DEF CloseSend
  <2> QED BY <1>4, <2>1, StillIsStream DEF CloseSend
<1> QED BY <1>1, <1>2, <1>3, <1>4

LEMMA RecvIsStream ==
    ASSUME Inv, View, View', Receive \/ ReceiveWaits \/ ReceiveWakes \/ ReceiveCancelled \/ CloseRecv \/ RecvSocketCloses
    PROVE  [StreamSpec!Next]_(StreamSpec!vars)
<1>1. CASE Receive
  BY <1>1, TakeIsStream DEF Receive, MayReceive, StreamSpec!Next
<1>2. CASE ReceiveWakes
  BY <1>2, TakeIsStream DEF ReceiveWakes, Inv, Endpoints, StreamSpec!Next
<1>3. CASE ReceiveWaits \/ ReceiveCancelled \/ CloseRecv \/ RecvSocketCloses
  BY <1>3, FramesSame, StillIsStream DEF ReceiveWaits, ReceiveCancelled, CloseRecv, RecvSocketCloses, wire, phases, calls
<1> QED BY <1>1, <1>2, <1>3

LEMMA WireIsStream ==
    ASSUME Inv, Connect \/ Deliver \/ DeliverClose \/ LingerExpires
    PROVE  [StreamSpec!Next]_(StreamSpec!vars)
<1> USE DEF Connect, Deliver, DeliverClose, LingerExpires, phases, calls
<1>1. Frames' = Frames
  <2>1. CASE UNCHANGED <<out, in, dropped>>
    BY <2>1, FramesSame
  <2>2. CASE Deliver
    BY <2>2, DeliverFrames DEF Inv
  <2>3. CASE out # <<>> /\ out' = <<>> /\ dropped' = out /\ UNCHANGED in
    BY <2>3, DropFrames DEF Inv, Endpoints
  <2> QED BY <2>1, <2>2, <2>3
<1> QED BY <1>1, StillIsStream

LEMMA StepIsStream == ASSUME Inv, View, View', [Next]_vars PROVE [StreamSpec!Next]_(StreamSpec!vars)
<1>1. CASE UNCHANGED vars
  BY <1>1, FramesSame, StillIsStream DEF vars, wire, phases, calls
<1> QED BY <1>1, SendIsStream, CloseSendIsStream, RecvIsStream, WireIsStream DEF Next

LEMMA InitIsStream == Init => StreamSpec!Init
<1> SUFFICES ASSUME Init PROVE StreamSpec!Init
  OBVIOUS
<1>1. Frames = <<>>
  BY DEF Init, Frames
<1>2. ~Announced
  BY <1>1 DEF Init, Announced
<1>3. Undelivered = <<>>
  BY <1>1, <1>2 DEF Init, Undelivered
<1>4. Len(got \o Undelivered) = 0 /\ 1..0 = {}
  BY <1>3 DEF Init
<1> QED BY <1>2, <1>3, <1>4 DEF Init, StreamSpec!Init

\* The ZeroMQ channel implements Stream, whatever the network delays and the linger
\* time drops: items are received in the order sent, each once, none of them after
\* EndOfStream, and EndOfStream only when all those before it were received.
\* (_ZmqSend, _ZmqReceive)
THEOREM ZmqImplementsStream == Spec => IsStream
<1>1. Inv /\ View /\ View' /\ [Next]_vars => [StreamSpec!Next]_(StreamSpec!vars)
  BY StepIsStream
<1> QED BY <1>1, InitIsStream, ViewHolds, InvAlways, PTL DEF Spec, IsStream, StreamSpec!Spec
=============================================================================
