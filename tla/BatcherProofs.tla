---------------------------- MODULE BatcherProofs ----------------------------
(***************************************************************************)
(* What the batcher guarantees for any number of requests, channel size and *)
(* max_batch: no request is lost, overtaken or answered twice, and the loop *)
(* returns only when all are answered.                                      *)
(***************************************************************************)
EXTENDS Batcher, SequenceTheorems, TLAPS

\* The channel: a parked loop has an empty one, and only an item that woke it may
\* be there beyond maxsize.
ChannelOK ==
    /\ recv = "parked" => queue = <<>> /\ sendOpen
    /\ recv # "woken" => Len(queue) <= maxsize

\* The loop: what it holds and awaits in each of its phases.
LoopOK ==
    /\ phase = "first" => batch = <<>> /\ recv # "none"
    /\ phase = "window" => batch # <<>> /\ Len(batch) < MaxBatch /\ recv # "none"
    /\ phase \in {"forward", "reply"} => batch # <<>> /\ recv = "none"
    /\ phase = "returned" => batch = <<>> /\ queue = <<>> /\ ~sendOpen /\ recv = "none"
    /\ phase = "dead" => recv = "none"

\* The callers: a request enters the channel once.
CallsOK ==
    /\ \A i, j \in 1..Len(accepted) : accepted[i] = accepted[j] => i = j
    /\ \A i \in 1..Len(accepted) : call[accepted[i]] \notin {"idle", "polling"}

Inv == TypeOK /\ ChannelOK /\ LoopOK /\ NothingLost /\ CallsOK

\* No request is answered twice: its reply channel holds one reply.
AnsweredOnce == \A i, j \in 1..Len(answered) : answered[i] = answered[j] => i = j

-----------------------------------------------------------------------------
(* Requests move from the channel to the batch to the answers, in order.     *)

LEMMA Regroup ==
    ASSUME NEW a \in Seq(Requests), NEW b \in Seq(Requests), NEW c \in Seq(Requests)
    PROVE  (a \o b) \o c = a \o (b \o c) /\ a \o b \in Seq(Requests)
<1>1. (a \o b) \o c = a \o (b \o c)
  BY ConcatAssociative, SMTT(60)
<1>2. a \o b \in Seq(Requests)
  BY ConcatProperties, Zenon
<1> QED BY <1>1, <1>2

LEMMA OneItem == ASSUME NEW q \in Seq(Requests), NEW r \in Requests PROVE <<r>> \in Seq(Requests) /\ Append(q, r) = q \o <<r>>
<1>1. <<r>> \in Seq(Requests)
  OBVIOUS
<1> QED BY <1>1, AppendIsConcat

LEMMA HeadThenTail ==
    ASSUME NEW q \in Seq(Requests), q # <<>>
    PROVE  /\ Head(q) \in Requests /\ Tail(q) \in Seq(Requests) /\ <<Head(q)>> \in Seq(Requests)
           /\ Len(Tail(q)) = Len(q) - 1 /\ Len(q) \in Nat \ {0}
           /\ q = <<Head(q)>> \o Tail(q)
<1>1. Head(q) \in Requests /\ Tail(q) \in Seq(Requests) /\ Len(Tail(q)) = Len(q) - 1 /\ Len(q) \in Nat \ {0} /\ <<Head(q)>> \in Seq(Requests)
      /\ Head(q) = q[1] /\ \A i \in 1..Len(Tail(q)) : Tail(q)[i] = q[i + 1]
  BY HeadTailProperties
<1> DEFINE c == <<Head(q)>> \o Tail(q)
<1>2. c \in Seq(Requests) /\ Len(c) = Len(q)
  BY <1>1
<1>3. \A i \in 1..Len(q) : c[i] = q[i]
  BY <1>1
<1>4. c = q
  BY <1>2, <1>3, SeqEqual
<1> QED BY <1>1, <1>4

LEMMA Enqueue ==
    ASSUME NEW a \in Seq(Requests), NEW b \in Seq(Requests), NEW q \in Seq(Requests), NEW r \in Requests
    PROVE  Append(a \o b \o q, r) = a \o b \o Append(q, r)
<1>1. a \o b \in Seq(Requests)
  BY ConcatProperties
<1> DEFINE c == a \o b
<1> HIDE DEF c
<1>2. c \in Seq(Requests)
  BY <1>1 DEF c
<1>3. c \o q \in Seq(Requests) /\ <<r>> \in Seq(Requests) /\ Append(q, r) = q \o <<r>>
  BY <1>2, ConcatProperties, OneItem
<1>4. Append(c \o q, r) = (c \o q) \o <<r>>
  BY <1>3, OneItem
<1>5. (c \o q) \o <<r>> = c \o (q \o <<r>>)
  BY <1>2, <1>3, Regroup, SMTT(60)
<1>6. Append(c \o q, r) = c \o Append(q, r)
  BY <1>3, <1>4, <1>5
<1> QED BY <1>6 DEF c

LEMMA Drain ==
    ASSUME NEW a \in Seq(Requests), NEW q \in Seq(Requests), NEW k \in 0..Len(q)
    PROVE  /\ SubSeq(q, 1, k) \in Seq(Requests) /\ SubSeq(q, k + 1, Len(q)) \in Seq(Requests)
           /\ Len(SubSeq(q, 1, k)) = k /\ Len(SubSeq(q, k + 1, Len(q))) = Len(q) - k
           /\ a \o <<>> \o q = a \o SubSeq(q, 1, k) \o SubSeq(q, k + 1, Len(q))
<1>1. /\ SubSeq(q, 1, k) \in Seq(Requests) /\ SubSeq(q, k + 1, Len(q)) \in Seq(Requests)
      /\ Len(SubSeq(q, 1, k)) = k /\ Len(SubSeq(q, k + 1, Len(q))) = Len(q) - k
  OBVIOUS
<1>2. SubSeq(q, 1, k) \o SubSeq(q, k + 1, Len(q)) = q
  <2>1. 1 \in 1..Len(q) + 1 /\ k \in (1 - 1)..Len(q) /\ Len(q) \in k..Len(q)
    OBVIOUS
  <2>2. SubSeq(q, 1, k) \o SubSeq(q, k + 1, Len(q)) = SubSeq(q, 1, Len(q))
    BY <2>1, ConcatAdjacentSubSeq
  <2> QED BY <2>2, SubSeqFull
<1>3. (a \o SubSeq(q, 1, k)) \o SubSeq(q, k + 1, Len(q)) = a \o (SubSeq(q, 1, k) \o SubSeq(q, k + 1, Len(q)))
  BY <1>1, Regroup
<1>4. a \o <<>> = a
  BY ConcatEmptySeq
<1> QED BY <1>1, <1>2, <1>3, <1>4

LEMMA TakeOne ==
    ASSUME NEW a \in Seq(Requests), NEW b \in Seq(Requests), NEW q \in Seq(Requests), q # <<>>
    PROVE  /\ Append(b, Head(q)) \in Seq(Requests) /\ Tail(q) \in Seq(Requests)
           /\ Len(Append(b, Head(q))) = Len(b) + 1 /\ Len(Tail(q)) = Len(q) - 1
           /\ Append(b, Head(q)) # <<>>
           /\ a \o b \o q = a \o Append(b, Head(q)) \o Tail(q)
<1>1. PICK h \in Requests, t \in Seq(Requests) : Head(q) = h /\ Tail(q) = t /\ q = <<h>> \o t /\ Len(t) = Len(q) - 1
  BY HeadThenTail
<1>2. /\ Append(b, h) \in Seq(Requests) /\ Len(Append(b, h)) = Len(b) + 1 /\ Append(b, h) # <<>>
      /\ <<h>> \in Seq(Requests) /\ Append(b, h) = b \o <<h>>
  BY AppendProperties, OneItem
<1>3. (a \o b) \o (<<h>> \o t) = ((a \o b) \o <<h>>) \o t
  <2>1. a \o b \in Seq(Requests)
    BY ConcatProperties, Zenon
  <2> QED BY <1>2, <2>1, Regroup, Zenon
<1>4. (a \o b) \o <<h>> = a \o (b \o <<h>>)
  BY <1>2, Regroup, SMTT(60)
<1> QED BY <1>1, <1>2, <1>3, <1>4

LEMMA AnswerOne ==
    ASSUME NEW a \in Seq(Requests), NEW b \in Seq(Requests), NEW q \in Seq(Requests), b # <<>>
    PROVE  /\ Head(b) \in Requests /\ Append(a, Head(b)) \in Seq(Requests) /\ Tail(b) \in Seq(Requests)
           /\ Len(Tail(b)) = Len(b) - 1 /\ Len(b) \in Nat
           /\ a \o b \o q = Append(a, Head(b)) \o Tail(b) \o q
<1>1. PICK h \in Requests, t \in Seq(Requests) : Head(b) = h /\ Tail(b) = t /\ b = <<h>> \o t /\ Len(t) = Len(b) - 1
  BY HeadThenTail
<1>2. Append(a, h) \in Seq(Requests) /\ <<h>> \in Seq(Requests) /\ Append(a, h) = a \o <<h>>
  BY AppendProperties, OneItem
<1>3. a \o (<<h>> \o t) = (a \o <<h>>) \o t
  BY <1>2, Regroup, SMTT(60)
<1>4. a \o b = Append(a, h) \o t
  BY <1>1, <1>2, <1>3
<1>5. Len(b) \in Nat
  OBVIOUS
<1> QED BY <1>1, <1>2, <1>4, <1>5

-----------------------------------------------------------------------------
LEMMA SizeType == ASSUME TypeOK PROVE maxsize \in Nat /\ Len(queue) \in Nat /\ Len(batch) \in Nat
  BY BatcherAssumption DEF TypeOK

LEMMA InitInv == Init => Inv
<1> SUFFICES ASSUME Init PROVE Inv
  OBVIOUS
<1>1. <<>> \in Seq(Requests) /\ Len(<<>>) = 0 /\ <<>> \o <<>> \o <<>> = <<>>
  OBVIOUS
<1>2. maxsize \in Nat /\ MaxBatch \in Nat
  BY BatcherAssumption DEF Init
<1>3. TypeOK
  BY <1>1, <1>2 DEF Init, TypeOK
<1>4. ChannelOK /\ LoopOK
  BY <1>1, <1>2 DEF Init, ChannelOK, LoopOK
<1>5. NothingLost
  BY <1>1, <1>2 DEF Init, NothingLost
<1>6. CallsOK
  BY <1>1 DEF Init, CallsOK
<1> QED BY <1>3, <1>4, <1>5, <1>6 DEF Inv

\* A request enters the channel.
LEMMA Enters ==
    ASSUME Inv, NEW r \in Requests, call[r] \in {"idle", "polling"}, sendOpen, Room,
           call' = [call EXCEPT ![r] = "waiting"], queue' = Append(queue, r), accepted' = Append(accepted, r),
           recv' = IF recv = "parked" THEN "woken" ELSE recv,
           UNCHANGED <<config, sendOpen, reply, phase, batch, outcome, answered>>
    PROVE  Inv'
<1> USE DEF config
<1>1. queue \in Seq(Requests) /\ accepted \in Seq(Requests) /\ answered \in Seq(Requests) /\ batch \in Seq(Requests)
      /\ maxsize \in Nat /\ queue' \in Seq(Requests) /\ accepted' \in Seq(Requests)
  BY SizeType DEF Inv, TypeOK
<1>2. Len(queue') = Len(queue) + 1
  BY <1>1
<1>3. recv = "parked" => Len(queue) = 0
  BY <1>1 DEF Inv, ChannelOK
<1>4. Len(queue') <= maxsize' + 1 /\ (recv' # "woken" => Len(queue') <= maxsize')
  BY <1>1, <1>2, <1>3 DEF Room
<1>5. TypeOK'
  BY <1>1, <1>4 DEF Inv, TypeOK
<1>6. ChannelOK'
  BY <1>4 DEF ChannelOK
<1>7. LoopOK'
  BY DEF Inv, LoopOK
<1>8. NothingLost'
  <2>1. Append(answered \o batch \o queue, r) = answered \o batch \o Append(queue, r)
    <3>1. PICK a \in Seq(Requests), b \in Seq(Requests), q \in Seq(Requests) : a = answered /\ b = batch /\ q = queue
      BY <1>1
    <3>2. Append(a \o b \o q, r) = a \o b \o Append(q, r)
      BY Enqueue
    <3> QED BY <3>1, <3>2, Zenon
  <2> QED BY <2>1 DEF Inv, NothingLost
<1>9. CallsOK'
  <2>1. Len(accepted') = Len(accepted) + 1 /\ accepted'[Len(accepted) + 1] = r
        /\ \A i \in 1..Len(accepted) : accepted'[i] = accepted[i] /\ accepted[i] \in Requests
    BY <1>1
  <2>2. \A i \in 1..Len(accepted) : accepted[i] # r
    BY DEF Inv, CallsOK
  <2>3. \A i \in 1..Len(accepted') : i \in 1..Len(accepted) \/ i = Len(accepted) + 1
    BY <1>1, <2>1
  <2>4. \A q \in Requests : call'[q] = IF q = r THEN "waiting" ELSE call[q]
    BY DEF Inv, TypeOK
  <2>5. \A i, j \in 1..Len(accepted') : accepted'[i] = accepted'[j] => i = j
    <3>1. \A i, j \in 1..Len(accepted) : accepted[i] = accepted[j] => i = j
      BY DEF Inv, CallsOK
    <3> QED BY <2>1, <2>2, <2>3, <3>1
  <2>6. \A i \in 1..Len(accepted') : call'[accepted'[i]] \notin {"idle", "polling"}
    <3>1. \A i \in 1..Len(accepted) : call[accepted[i]] \notin {"idle", "polling"}
      BY DEF Inv, CallsOK
    <3> QED BY <2>1, <2>3, <2>4, <3>1
  <2> QED BY <2>5, <2>6 DEF CallsOK
<1> QED BY <1>5, <1>6, <1>7, <1>8, <1>9 DEF Inv

\* A caller moves on without entering.
LEMMA CallMoves ==
    ASSUME Inv, NEW r \in Requests, NEW c \in {"polling", "returned", "raised", "refused", "cancelled"},
           call' = [call EXCEPT ![r] = c], c = "polling" => call[r] \in {"idle", "polling"},
           UNCHANGED <<config, queue, sendOpen, reply, loop, accepted, answered>>
    PROVE  Inv'
<1> USE DEF config, loop
<1>1. TypeOK'
  BY DEF Inv, TypeOK
<1>2. ChannelOK' /\ LoopOK' /\ NothingLost'
  BY DEF Inv, ChannelOK, LoopOK, NothingLost
<1>3. CallsOK'
  <2>1. \A i \in 1..Len(accepted) : accepted[i] \in Requests
    BY DEF Inv, TypeOK
  <2>2. \A q \in Requests : call'[q] = IF q = r THEN c ELSE call[q]
    BY DEF Inv, TypeOK
  <2> QED BY <2>1, <2>2 DEF Inv, CallsOK
<1> QED BY <1>1, <1>2, <1>3 DEF Inv

LEMMA CallStep == ASSUME Inv, NEW r \in Requests, Submit(r) \/ SubmitReturns(r) \/ SubmitCancelled(r) PROVE Inv'
<1>1. CASE Submit(r)
  <2>1. CASE sendOpen /\ Room
    BY <1>1, <2>1, Enters DEF Submit
  <2>2. CASE sendOpen /\ ~Room
    BY <1>1, <2>2, CallMoves DEF Submit, loop
  <2>3. CASE ~sendOpen
    BY <1>1, <2>3, CallMoves DEF Submit, loop
  <2> QED BY <2>1, <2>2, <2>3
<1>2. CASE SubmitReturns(r)
  BY <1>2, CallMoves DEF SubmitReturns
<1>3. CASE SubmitCancelled(r)
  BY <1>3, CallMoves DEF SubmitCancelled
<1> QED BY <1>1, <1>2, <1>3

LEMMA SameCalls == ASSUME CallsOK, UNCHANGED <<call, accepted>> PROVE CallsOK'
  BY DEF CallsOK

\* The loop takes what the channel holds.
LEMMA FirstStep == ASSUME Inv, First PROVE Inv'
<1> USE DEF First, config
<1>1. queue \in Seq(Requests) /\ answered \in Seq(Requests) /\ maxsize \in Nat /\ batch = <<>> /\ MaxBatch \in Nat \ {0}
  BY SizeType, BatcherAssumption DEF Inv, TypeOK, LoopOK
<1>2. Drained \in 1..Len(queue) /\ Drained <= MaxBatch /\ Len(queue) \in Nat /\ Drained \in 0..Len(queue)
  BY <1>1 DEF Drained
<1>3. /\ batch' \in Seq(Requests) /\ queue' \in Seq(Requests)
      /\ Len(batch') = Drained /\ Len(queue') = Len(queue) - Drained
      /\ answered \o batch \o queue = answered \o batch' \o queue'
  <2>1. answered \o <<>> \o queue = answered \o SubSeq(queue, 1, Drained) \o SubSeq(queue, Drained + 1, Len(queue))
    BY <1>1, <1>2, Drain, ZenonT(60)
  <2>2. batch' = SubSeq(queue, 1, Drained) /\ queue' = SubSeq(queue, Drained + 1, Len(queue))
    OBVIOUS
  <2>3. /\ SubSeq(queue, 1, Drained) \in Seq(Requests) /\ SubSeq(queue, Drained + 1, Len(queue)) \in Seq(Requests)
        /\ Len(SubSeq(queue, 1, Drained)) = Drained /\ Len(SubSeq(queue, Drained + 1, Len(queue))) = Len(queue) - Drained
    BY <1>1, <1>2, Drain, Zenon
  <2> QED BY <1>1, <2>1, <2>2, <2>3, Zenon
<1>4. Len(queue') <= maxsize /\ Len(batch') <= MaxBatch /\ Len(batch') > 0 /\ batch' # <<>>
  <2>1. Len(queue) <= maxsize + 1
    BY DEF Inv, TypeOK
  <2>2. Len(queue') \in Nat /\ Len(batch') \in Nat
    BY <1>3
  <2>3. Len(queue') <= maxsize /\ Len(batch') <= MaxBatch /\ Len(batch') > 0
    BY <1>1, <1>2, <1>3, <2>1, <2>2
  <2> QED BY <1>3, <2>3
<1>5. \/ phase' = "window" /\ recv' = "checkpoint" /\ Len(batch') < MaxBatch
      \/ phase' = "forward" /\ recv' = "none"
  BY DEF Headroom, ToWindow, ToForward
<1>6. TypeOK'
  <2>1. Len(queue') <= maxsize' + 1
    <3>1. maxsize' = maxsize
      OBVIOUS
    <3>2. queue' \in Seq(Requests) /\ maxsize \in Nat /\ Len(queue') <= maxsize
      BY <1>1, <1>3, <1>4, Zenon
    <3>3. \A q \in Seq(Requests), m \in Nat : Len(q) <= m => Len(q) <= m + 1
      OBVIOUS
    <3> QED BY <3>1, <3>2, <3>3, Zenon
  <2> QED BY <1>3, <1>4, <1>5, <2>1 DEF Inv, TypeOK
<1>7. ChannelOK' /\ LoopOK'
  BY <1>4, <1>5 DEF ChannelOK, LoopOK
<1>8. NothingLost'
  BY <1>3, <1>4 DEF Inv, NothingLost
<1> QED BY <1>6, <1>7, <1>8, SameCalls DEF Inv

\* One more request joins the batch: in the window, or as the loop dies.
LEMMA OneJoins ==
    ASSUME Inv, queue # <<>>, Len(batch) < MaxBatch, batch' = Append(batch, Head(queue)), queue' = Tail(queue),
           \/ phase' = "window" /\ recv' = "checkpoint" /\ Len(batch') < MaxBatch
           \/ phase' = "forward" /\ recv' = "none"
           \/ phase' = "dead" /\ recv' = "none",
           UNCHANGED <<config, sendOpen, call, reply, outcome, accepted, answered>>
    PROVE  Inv'
<1> USE DEF config
<1>1. /\ batch' \in Seq(Requests) /\ queue' \in Seq(Requests) /\ batch' # <<>>
      /\ Len(batch') = Len(batch) + 1 /\ Len(queue') = Len(queue) - 1
      /\ answered \o batch \o queue = answered \o batch' \o queue'
  <2>1. answered \in Seq(Requests) /\ batch \in Seq(Requests) /\ queue \in Seq(Requests)
    BY DEF Inv, TypeOK
  <2>2. /\ Append(batch, Head(queue)) \in Seq(Requests) /\ Tail(queue) \in Seq(Requests)
        /\ Len(Append(batch, Head(queue))) = Len(batch) + 1 /\ Len(Tail(queue)) = Len(queue) - 1
        /\ Append(batch, Head(queue)) # <<>>
        /\ answered \o batch \o queue = answered \o Append(batch, Head(queue)) \o Tail(queue)
    BY <2>1, TakeOne, SMTT(60)
  <2> QED BY <2>2, Zenon
<1>2. Len(queue') <= maxsize' /\ Len(queue') <= maxsize' + 1 /\ Len(batch') <= MaxBatch
  <2>1. Len(queue) <= maxsize + 1 /\ maxsize \in Nat /\ Len(queue) \in Nat /\ Len(batch) \in Nat /\ MaxBatch \in Nat
    BY SizeType, BatcherAssumption DEF Inv, TypeOK
  <2> QED BY <1>1, <2>1
<1>3. TypeOK'
  BY <1>1, <1>2 DEF Inv, TypeOK
<1>4. ChannelOK' /\ LoopOK'
  BY <1>1, <1>2 DEF ChannelOK, LoopOK
<1>5. NothingLost'
  BY <1>1, <1>2 DEF Inv, NothingLost
<1> QED BY <1>3, <1>4, <1>5, SameCalls DEF Inv

\* The loop moves on, and no request with it.
LEMMA LoopMoves ==
    ASSUME Inv, UNCHANGED <<config, queue, call, reply, batch, accepted, answered>>,
           sendOpen' \in BOOLEAN, outcome' \in {"none", "responses", "exception"},
           phase' \in {"first", "window", "forward", "reply", "returned", "dead"},
           recv' \in {"none", "checkpoint", "parked", "woken"},
           recv # "woken" \/ recv' = "woken" \/ queue = <<>> \/ Len(queue) <= maxsize, ChannelOK', LoopOK'
    PROVE  Inv'
<1> USE DEF config
<1>1. TypeOK' /\ NothingLost'
  BY DEF Inv, TypeOK, NothingLost
<1> QED BY <1>1, SameCalls DEF Inv

LEMMA LoopStep ==
    ASSUME Inv, Close \/ Parks \/ Ends \/ TimerEnds \/ ForwardReturns \/ ForwardRaises
    PROVE  Inv'
<1> USE DEF Inv, TypeOK, ChannelOK, LoopOK, config, Receives
<1>0. maxsize \in Nat /\ Len(<<>>) = 0
  BY SizeType
<1>1. CASE Close
  <2>1. ChannelOK' /\ LoopOK'
    BY <1>0, <1>1 DEF Close
  <2> QED BY <1>1, <2>1, LoopMoves DEF Close
<1>2. CASE Parks
  <2>1. ChannelOK' /\ LoopOK'
    BY <1>0, <1>2 DEF Parks
  <2> QED BY <1>2, <2>1, LoopMoves DEF Parks
<1>3. CASE Ends
  <2>1. ChannelOK' /\ LoopOK'
    BY <1>0, <1>3 DEF Ends, ToForward
  <2> QED BY <1>3, <2>1, LoopMoves DEF Ends, ToForward
<1>4. CASE TimerEnds
  <2>1. ChannelOK' /\ LoopOK'
    BY <1>0, <1>4 DEF TimerEnds, ToForward
  <2> QED BY <1>4, <2>1, LoopMoves DEF TimerEnds, ToForward
<1>5. CASE ForwardReturns \/ ForwardRaises
  <2>1. ChannelOK' /\ LoopOK'
    BY <1>0, <1>5 DEF ForwardReturns, ForwardRaises
  <2>2. outcome' \in {"responses", "exception"}
    BY <1>5 DEF ForwardReturns, ForwardRaises
  <2> QED BY <1>5, <2>1, <2>2, LoopMoves DEF ForwardReturns, ForwardRaises
<1> QED BY <1>1, <1>2, <1>3, <1>4, <1>5

LEMMA ReplyStep == ASSUME Inv, Reply PROVE Inv'
<1> USE DEF Reply, config
<1>1. batch # <<>> /\ batch \in Seq(Requests) /\ answered \in Seq(Requests) /\ queue \in Seq(Requests) /\ recv = "none"
  BY DEF Inv, TypeOK, LoopOK
<1>2. /\ Head(batch) \in Requests /\ answered' \in Seq(Requests) /\ batch' \in Seq(Requests)
      /\ Len(batch') = Len(batch) - 1 /\ Len(batch) \in Nat
      /\ answered \o batch \o queue = answered' \o batch' \o queue
  BY <1>1, AnswerOne
<1>3. Len(batch') <= MaxBatch /\ Len(queue) <= maxsize
  BY <1>1, <1>2, BatcherAssumption DEF Inv, TypeOK, ChannelOK
<1>4. reply' \in [Requests -> {"none", "responses", "exception"}]
  BY <1>2 DEF Inv, TypeOK
<1>5. \/ phase' = "reply" /\ recv' = "none" /\ batch' # <<>>
      \/ phase' = "first" /\ recv' = "checkpoint" /\ batch' = <<>>
  BY <1>1
<1>6. TypeOK'
  BY <1>2, <1>3, <1>4, <1>5 DEF Inv, TypeOK
<1>7. ChannelOK' /\ LoopOK'
  BY <1>3, <1>5 DEF ChannelOK, LoopOK
<1>8. NothingLost'
  BY <1>2, <1>3 DEF Inv, NothingLost
<1> QED BY <1>6, <1>7, <1>8, SameCalls DEF Inv

LEMMA DiesStep == ASSUME Inv, Dies PROVE Inv'
<1>1. CASE recv = "woken" /\ queue # <<>>
  <2>1. Len(batch) < MaxBatch
    BY <1>1 DEF Dies, Inv, LoopOK
  <2> QED BY <1>1, <2>1, OneJoins DEF Dies
<1>2. CASE ~(recv = "woken" /\ queue # <<>>)
  <2>1. Len(queue) <= maxsize
    <3>1. maxsize \in Nat /\ Len(<<>>) = 0
      BY SizeType DEF Inv
    <3> QED BY <1>2, <3>1 DEF Inv, ChannelOK
  <2>2. ChannelOK' /\ LoopOK'
    BY <1>2, <2>1 DEF Dies, ChannelOK, LoopOK, config
  <2> QED BY <1>2, <2>1, <2>2, LoopMoves DEF Dies, Inv, TypeOK
<1> QED BY <1>1, <1>2

LEMMA InvStep == Inv /\ [Next]_vars => Inv'
<1> SUFFICES ASSUME Inv, [Next]_vars PROVE Inv'
  OBVIOUS
<1>1. CASE UNCHANGED vars
  <2> USE <1>1 DEF vars, config, loop
  <2>1. TypeOK'
    BY DEF Inv, TypeOK
  <2>2. ChannelOK' /\ LoopOK'
    BY DEF Inv, ChannelOK, LoopOK
  <2>3. NothingLost' /\ CallsOK'
    BY DEF Inv, NothingLost, CallsOK
  <2> QED BY <2>1, <2>2, <2>3 DEF Inv
<1>2. CASE Another
  <2>1. Len(batch) < MaxBatch
    BY <1>2 DEF Another, Inv, LoopOK
  <2> QED BY <1>2, <2>1, OneJoins DEF Another, Headroom, ToWindow, ToForward
<1> QED BY <1>1, <1>2, CallStep, FirstStep, LoopStep, ReplyStep, DiesStep DEF Next, Loop

LEMMA InvAlways == Spec => []Inv
  BY InitInv, InvStep, PTL DEF Spec

-----------------------------------------------------------------------------
\* Every variable has its type; the channel never holds more than maxsize items
\* and one for a loop that waits (submit, batcher_loop).
THEOREM TypeCorrect == Spec => []TypeOK
<1>1. Inv => TypeOK
  BY DEF Inv
<1> QED BY <1>1, InvAlways, PTL

\* No request is lost, taken twice or overtaken, whichever of timer, item and
\* close comes first, and no batch is larger than max_batch (batcher_loop,
\* _recv_or_timeout).
THEOREM NoRequestLost == Spec => []NothingLost
<1>1. Inv => NothingLost
  BY DEF Inv
<1> QED BY <1>1, InvAlways, PTL

\* batcher_loop returns only when everything that was accepted is answered.
THEOREM ReturnsWhenDrained == Spec => []ReturnsDrained
<1>1. Inv => ReturnsDrained
  <2> SUFFICES ASSUME Inv, phase = "returned" PROVE accepted = answered /\ ~sendOpen
    BY DEF ReturnsDrained
  <2>1. batch = <<>> /\ queue = <<>> /\ ~sendOpen /\ answered \in Seq(Requests) /\ accepted = answered \o batch \o queue
    BY DEF Inv, TypeOK, LoopOK, NothingLost
  <2>2. answered \o <<>> \o <<>> = answered
    BY <2>1
  <2> QED BY <2>1, <2>2
<1> QED BY <1>1, InvAlways, PTL

\* No request is answered twice, so that the reply never finds its channel full or
\* closed (submit, batcher_loop).
THEOREM OneAnswerEach == Spec => []AnsweredOnce
<1>1. Inv => AnsweredOnce
  <2> SUFFICES ASSUME Inv, NEW i \in 1..Len(answered), NEW j \in 1..Len(answered), answered[i] = answered[j]
               PROVE  i = j
    BY DEF AnsweredOnce
  <2>1. answered \in Seq(Requests) /\ batch \in Seq(Requests) /\ queue \in Seq(Requests)
        /\ accepted \in Seq(Requests) /\ accepted = answered \o batch \o queue
    BY DEF Inv, TypeOK, NothingLost
  <2>2. ASSUME NEW k \in 1..Len(answered) PROVE k \in 1..Len(accepted) /\ accepted[k] = answered[k]
    BY <2>1
  <2> QED BY <2>2 DEF Inv, CallsOK
<1> QED BY <1>1, InvAlways, PTL
=============================================================================
