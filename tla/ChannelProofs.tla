---------------------------- MODULE ChannelProofs ----------------------------
(***************************************************************************)
(* What Channel guarantees for any number of tasks, any buffer size and any *)
(* number of items: the endpoints are single-owner, nobody waits in vain,   *)
(* drops are counted, and the channel implements Stream.                    *)
(***************************************************************************)
EXTENDS Channel, SequenceTheorems, TLAPS

Shape ==
    /\ maxsize \in Nat /\ buffer \in Seq(Nat) /\ got \in Seq(Nat)
    /\ waitingSend \in Seq([task : Senders, item : Nat]) /\ waitingRecv \in Seq(Receivers)
    /\ sender \in [Senders -> {"idle", "parked", "woken"}] /\ sending \in [Senders -> Nat]
    /\ receiver \in [Receivers -> {"idle", "checkpoint", "parked", "woken"}] /\ hand \in [Receivers -> Nat]
    /\ accepted \in Nat /\ dropped \in Nat

\* The busy flag admits one sender at a time, so at most one item is in
\* waiting_senders: that of the sender inside send().  A sender whose item has
\* gone was served: the item is in the buffer, or was handed out.
Served(s) == \E i \in 1..Len(got \o buffer) : (got \o buffer)[i] = sending[s]
SendSide ==
    /\ sendBusy <=> \E s \in Senders : sender[s] # "idle"
    /\ \A s, t \in Senders : sender[s] # "idle" /\ sender[t] # "idle" => s = t
    /\ waitingSend # <<>> => \E s \in Senders : sender[s] # "idle"
    /\ \A s \in Senders : sender[s] = "parked" => waitingSend = <<Entry(s)>>
    /\ \A s \in Senders : sender[s] = "woken" =>
          \/ waitingSend = <<Entry(s)>> /\ ~recvOpen
          \/ waitingSend = <<>> /\ Served(s)

\* Likewise waiting_receivers; whoever was woken with nothing finds nothing.
RecvSide ==
    /\ recvBusy <=> \E r \in Receivers : receiver[r] # "idle"
    /\ \A q, r \in Receivers : receiver[q] # "idle" /\ receiver[r] # "idle" => q = r
    /\ waitingRecv # <<>> => \E r \in Receivers : receiver[r] = "parked"
    /\ \A r \in Receivers : receiver[r] = "parked" => waitingRecv = <<r>>
    /\ \A r \in Receivers : receiver[r] = "woken" /\ hand[r] = 0 => ~sendOpen /\ buffer = <<>> /\ waitingSend = <<>>

\* The buffer against who waits, and the items whose send() has returned.
Room == Len(buffer) <= maxsize /\ NobodyWaitsForNothing
Kept ==
    /\ \A k \in kept : k \in Nat /\ k <= accepted
    /\ \A s \in Senders : sending[s] <= accepted
    /\ waitingSend # <<>> => waitingSend[1].item \notin kept

Inv == Shape /\ SendSide /\ RecvSide /\ Room /\ Kept

-----------------------------------------------------------------------------
\* Sequences of one element.
LEMMA RemoveOnly == ASSUME NEW e PROVE RemoveFirst(<<>>, e) = <<>> /\ RemoveFirst(<<e>>, e) = <<>>
<1>1. RemoveFirst(<<>>, e) = <<>>
  BY DEF RemoveFirst, RemoveAt, SelectInSeq, Min
<1>2. RemoveFirst(<<e>>, e) = SubSeq(<<e>>, 1, 0) \o SubSeq(<<e>>, 2, 1)
  BY DEF RemoveFirst, RemoveAt, SelectInSeq, Min
<1> QED BY <1>1, <1>2

LEMMA EntryType == ASSUME Shape, NEW s \in Senders PROVE Entry(s) \in [task : Senders, item : Nat]
  BY DEF Shape, Entry

\* What waiting_senders and waiting_receivers can hold.
LEMMA Solo ==
    ASSUME Inv
    PROVE  /\ waitingSend = <<>> \/ \E s \in Senders : sender[s] # "idle" /\ waitingSend = <<Entry(s)>>
           /\ waitingRecv = <<>> \/ \E r \in Receivers : receiver[r] = "parked" /\ waitingRecv = <<r>>
  BY DEF Inv, Shape, SendSide, RecvSide

\* The stream's queue and what receive_nowait() works on are the same.
LEMMA QueueIsFilled ==
    ASSUME Inv
    PROVE  /\ Filled = buffer \o Items
           /\ Filled \in Seq(Nat)
           /\ waitingSend = <<>> => Filled = buffer /\ Items = <<>>
<1>1. CASE waitingSend = <<>>
  <2>1. Items = <<>>
    BY <1>1 DEF Items
  <2> QED BY <1>1, <2>1 DEF Filled, Inv, Shape
<1>2. ASSUME NEW s \in Senders, waitingSend = <<Entry(s)>> PROVE Filled = buffer \o Items /\ Filled \in Seq(Nat)
  <2>1. Items = <<sending[s]>> /\ Head(waitingSend).item = sending[s] /\ sending[s] \in Nat
    BY <1>2 DEF Items, Entry, Inv, Shape
  <2>2. Filled = Append(buffer, sending[s])
    BY <1>2, <2>1 DEF Filled
  <2> QED BY <2>1, <2>2 DEF Inv, Shape
<1> QED BY <1>1, <1>2, Solo

\* got and the buffer together only ever grow at the end: what was served stays so.
LEMMA ServedStays ==
    ASSUME NEW s \in Senders, Served(s), sending'[s] = sending[s],
           NEW log \in Seq(Nat), got \o buffer \in Seq(Nat), (got \o buffer)' = (got \o buffer) \o log
    PROVE  Served(s)'
  BY SMTT(60) DEF Served

LEMMA ServedStay ==
    ASSUME Shape, NEW log \in Seq(Nat), (got \o buffer)' = (got \o buffer) \o log, UNCHANGED sending
    PROVE  \A s \in Senders : Served(s) => Served(s)'
<1>1. got \o buffer \in Seq(Nat)
  BY DEF Shape
<1> QED BY <1>1, ServedStays

\* Taking the head of a queue, and putting an item after it.
LEMMA TakeLog ==
    ASSUME NEW g \in Seq(Nat), NEW q \in Seq(Nat), q # <<>>
    PROVE  Append(g, Head(q)) \o Tail(q) = g \o q /\ Append(g, Head(q)) \in Seq(Nat) /\ Tail(q) \in Seq(Nat)
           /\ Len(Tail(q)) = Len(q) - 1
  BY SMTT(60)

-----------------------------------------------------------------------------
LEMMA Regroup ==
    ASSUME NEW a \in Seq(Nat), NEW b \in Seq(Nat), NEW c \in Seq(Nat)
    PROVE  a \o (b \o c) = (a \o b) \o c
  BY SMTT(60)

\* The buffer's length after the head of the queue has gone.
LEMMA Shorter ==
    ASSUME NEW b \in Nat, NEW w, w \in {0, 1}, NEW f, f = b + w, NEW m \in Nat, b <= m
    PROVE  f - 1 <= m /\ f \in Nat
  OBVIOUS

LEMMA InitInv == Init => Inv
<1> SUFFICES ASSUME Init PROVE Inv
  OBVIOUS
<1>1. Shape
  BY SizeAssumption DEF Init, Shape
<1>2. SendSide /\ RecvSide /\ Kept
  BY DEF Init, SendSide, RecvSide, Kept
<1>3. Room
  BY SizeAssumption DEF Init, Room, NobodyWaitsForNothing
<1> QED BY <1>1, <1>2, <1>3 DEF Inv

\* send() that need not wait, and send_nowait(): to the one receiver that waits,
\* or to the buffer; nobody is blocked in send() then.
LEMMA HandStep ==
    ASSUME Inv, CanSend, accepted' = accepted + 1, Hand, kept' = kept \cup {accepted'},
           UNCHANGED <<dropped, maxsize, waitingSend, sendOpen, recvOpen, sendBusy, recvBusy, sender, sending, ended>>
    PROVE  Inv'
<1>1. waitingSend = <<>>
  BY DEF Inv, Shape, Room, NobodyWaitsForNothing, CanSend
<1>2. CASE waitingRecv = <<>>
  <2>1. buffer' = Append(buffer, accepted') /\ UNCHANGED <<waitingRecv, receiver, hand, got>> /\ Len(buffer) < maxsize
    BY <1>2 DEF Hand, CanSend
  <2>2. Shape'
    BY <2>1 DEF Inv, Shape
  <2>3. (got \o buffer)' = (got \o buffer) \o <<accepted'>>
    BY <2>1 DEF Inv, Shape
  <2>4. SendSide'
    <3>1. Shape /\ <<accepted'>> \in Seq(Nat)
      BY DEF Inv, Shape
    <3>2. \A s \in Senders : Served(s) => Served(s)'
      BY <2>3, <3>1, ServedStay
    <3> QED BY <3>2, <1>1 DEF Inv, SendSide, Entry
  <2>5. RecvSide'
    BY <2>1, <1>1 DEF Inv, RecvSide, CanSend
  <2>6. Room'
    BY <1>1, <1>2, <2>1 DEF Inv, Shape, Room, NobodyWaitsForNothing
  <2>7. Kept'
    BY <1>1 DEF Inv, Shape, Kept
  <2> QED BY <2>2, <2>4, <2>5, <2>6, <2>7 DEF Inv
<1>3. CASE waitingRecv # <<>>
  <2>1. PICK r \in Receivers : receiver[r] = "parked" /\ waitingRecv = <<r>>
    BY <1>3, Solo
  <2>2. /\ waitingRecv' = <<>> /\ receiver' = [receiver EXCEPT ![r] = "woken"]
        /\ hand' = [hand EXCEPT ![r] = accepted'] /\ got' = Append(got, accepted') /\ buffer' = buffer
    BY <2>1 DEF Hand
  <2>3. buffer = <<>>
    BY <1>3 DEF Inv, Room, NobodyWaitsForNothing
  <2>4. Shape'
    BY <2>2 DEF Inv, Shape
  <2>5. (got \o buffer)' = (got \o buffer) \o <<accepted'>>
    BY <2>2, <2>3 DEF Inv, Shape
  <2>6. SendSide'
    <3>1. Shape /\ <<accepted'>> \in Seq(Nat)
      BY DEF Inv, Shape
    <3>2. \A s \in Senders : Served(s) => Served(s)'
      BY <2>5, <3>1, ServedStay
    <3> QED BY <3>2, <1>1 DEF Inv, SendSide, Entry
  <2>7. RecvSide'
    BY <2>1, <2>2 DEF Inv, Shape, RecvSide
  <2>8. Room'
    BY <1>1, <2>2 DEF Inv, Shape, Room, NobodyWaitsForNothing
  <2>9. Kept'
    BY <1>1 DEF Inv, Shape, Kept
  <2> QED BY <2>4, <2>6, <2>7, <2>8, <2>9 DEF Inv
<1> QED BY <1>2, <1>3

LEMMA SendBlocksStep == ASSUME Inv, NEW s \in Senders, SendBlocks(s) PROVE Inv'
<1> USE DEF SendBlocks, MaySend
<1>1. waitingSend = <<>> /\ waitingRecv = <<>> /\ Len(buffer) = maxsize
  BY Solo DEF Inv, Shape, Room, SendSide, CanSend
<1>2. Shape' /\ waitingSend' = <<[task |-> s, item |-> accepted']>>
  BY <1>1 DEF Inv, Shape
<1>3. sender' = [sender EXCEPT ![s] = "parked"] /\ \A t \in Senders : sender[t] = "idle"
  BY DEF Inv, Shape, SendSide
<1>4. SendSide'
  BY <1>1, <1>2, <1>3 DEF Inv, Shape, SendSide, Entry
<1>5. RecvSide'
  BY DEF Inv, Shape, RecvSide
<1>6. Room'
  BY <1>1 DEF Inv, Shape, Room, NobodyWaitsForNothing
<1>7. Kept'
  BY <1>2, SMTT(60) DEF Inv, Shape, Kept
<1> QED BY <1>2, <1>4, <1>5, <1>6, <1>7 DEF Inv

\* The sender leaves send(), with its item gone or taken back.
LEMMA SendLeavesStep ==
    ASSUME Inv, NEW s \in Senders, sender[s] # "idle", sender' = [sender EXCEPT ![s] = "idle"],
           sending' = [sending EXCEPT ![s] = 0], sendBusy' = FALSE, waitingSend' = Without(s),
           kept' \subseteq kept \cup {sending[s]},
           UNCHANGED <<dropped, maxsize, buffer, waitingRecv, sendOpen, recvOpen, recvBusy, receiver, hand, accepted, got, ended>>
    PROVE  Inv'
<1>1. waitingSend' = <<>>
  BY RemoveOnly DEF Inv, Shape, SendSide, Without
<1>2. Shape'
  BY <1>1 DEF Inv, Shape
<1>3. \A t \in Senders : sender'[t] = "idle"
  BY DEF Inv, Shape, SendSide
<1>4. SendSide'
  BY <1>1, <1>3 DEF SendSide
<1>5. RecvSide'
  BY <1>1 DEF Inv, RecvSide
<1>6. Room'
  BY <1>1 DEF Inv, Room, NobodyWaitsForNothing
<1>7. Kept'
  BY <1>1 DEF Inv, Shape, Kept
<1> QED BY <1>2, <1>4, <1>5, <1>6, <1>7 DEF Inv

-----------------------------------------------------------------------------
\* receive_nowait(), for a receiver or to make room: the oldest item leaves, and
\* the blocked sender, if any, is woken with its item in the queue.
LEMMA WokenByTake ==
    ASSUME Inv
    PROVE  /\ Take => \A s \in Senders : sender'[s] = IF waitingSend = <<Entry(s)>> THEN "woken" ELSE sender[s]
           /\ DropOldest => \A s \in Senders : sender'[s] = IF waitingSend = <<Entry(s)>> THEN "woken" ELSE sender[s]
           /\ Take \/ DropOldest => waitingSend' = <<>> /\ sender' \in [Senders -> {"idle", "parked", "woken"}]
<1>1. CASE waitingSend = <<>>
  <2>1. \A s \in Senders : waitingSend # <<Entry(s)>> /\ ~IsWaiting(s)
    BY <1>1 DEF IsWaiting
  <2> QED BY <1>1, <2>1 DEF Inv, Shape, Take, DropOldest
<1>2. ASSUME NEW t \in Senders, waitingSend = <<Entry(t)>>
      PROVE  /\ Take => \A s \in Senders : sender'[s] = IF s = t THEN "woken" ELSE sender[s]
             /\ DropOldest => \A s \in Senders : sender'[s] = IF s = t THEN "woken" ELSE sender[s]
             /\ Take \/ DropOldest => waitingSend' = <<>> /\ sender' \in [Senders -> {"idle", "parked", "woken"}]
             /\ \A s \in Senders : waitingSend = <<Entry(s)>> <=> s = t
  <2>1. Head(waitingSend) = Entry(t) /\ Tail(waitingSend) = <<>> /\ waitingSend # <<>> /\ Entry(t).task = t
    BY <1>2 DEF Entry
  <2>2. \A s \in Senders : Entry(s) = Entry(t) <=> s = t
    BY DEF Entry
  <2>3. \A s \in Senders : IsWaiting(s) <=> s = t
    <3>1. DOMAIN waitingSend = {1} /\ waitingSend[1] = Entry(t)
      BY <1>2
    <3> QED BY <3>1, <2>2 DEF IsWaiting
  <2>4. \A s \in Senders : waitingSend = <<Entry(s)>> <=> s = t
    BY <1>2, <2>2
  <2>5. ASSUME Take PROVE sender' = [sender EXCEPT ![t] = "woken"] /\ waitingSend' = <<>>
    BY <2>5, <2>1 DEF Take
  <2>6. ASSUME DropOldest
        PROVE  sender' = [s \in Senders |-> IF s = t THEN "woken" ELSE sender[s]] /\ waitingSend' = <<>>
    BY <2>6, <2>1, <2>2, <2>3 DEF DropOldest
  <2> QED BY <2>4, <2>5, <2>6 DEF Inv, Shape
<1> QED BY <1>1, <1>2, Solo

\* Whoever takes: the send side.
LEMMA TakeSendSide ==
    ASSUME Inv, CanTake, waitingSend' = <<>>,
           \A s \in Senders : sender'[s] = IF waitingSend = <<Entry(s)>> THEN "woken" ELSE sender[s],
           NEW log \in Seq(Nat), (got \o buffer)' = (got \o Filled) \o log,
           UNCHANGED <<sending, sendBusy>>
    PROVE  SendSide'
<1>1. ASSUME NEW s \in Senders, waitingSend = <<Entry(s)>> PROVE sender[s] = "parked"
  <2>1. PICK t \in Senders : sender[t] # "idle" /\ waitingSend = <<Entry(t)>>
    BY <1>1, Solo
  <2>2. Entry(s) = Entry(t)
    BY <1>1, <2>1
  <2>3. s = t
    BY <2>2 DEF Entry
  <2> QED BY <2>1, <2>3 DEF Inv, Shape, SendSide, CanTake
<1>2. \A s \in Senders : sender'[s] # "parked" /\ (sender'[s] = "idle" <=> sender[s] = "idle")
  BY <1>1 DEF Inv, Shape, SendSide
<1>3. ASSUME NEW s \in Senders, sender'[s] = "woken" PROVE Served(s)'
  <2>1. CASE waitingSend = <<Entry(s)>>
    <3>1. Filled = Append(buffer, sending[s])
      BY <2>1 DEF Filled, Entry
    <3>2. /\ got \in Seq(Nat) /\ buffer \in Seq(Nat) /\ sending[s] \in Nat
          /\ (got \o buffer)' = (got \o Append(buffer, sending[s])) \o log
      BY <3>1 DEF Inv, Shape
    <3>3. Len(got) + Len(buffer) + 1 \in 1..Len((got \o Append(buffer, sending[s])) \o log)
          /\ ((got \o Append(buffer, sending[s])) \o log)[Len(got) + Len(buffer) + 1] = sending[s]
      BY <3>2
    <3> QED BY <3>2, <3>3 DEF Served
  <2>2. CASE waitingSend # <<Entry(s)>>
    <3>1. waitingSend = <<>> /\ Served(s) /\ Filled = buffer
      BY <1>3, <2>2 DEF Inv, SendSide, CanTake, Filled
    <3> QED BY <3>1, ServedStay DEF Inv
  <2> QED BY <2>1, <2>2
<1> QED BY <1>2, <1>3 DEF Inv, SendSide

LEMMA TakeFacts ==
    ASSUME Inv, CanTake
    PROVE  /\ Filled \in Seq(Nat) /\ Filled # <<>>
           /\ Len(Filled) = Len(buffer) + Len(waitingSend) /\ Len(waitingSend) \in {0, 1}
           /\ waitingRecv = <<>>
           /\ ~\E r \in Receivers : receiver[r] = "woken" /\ hand[r] = 0
<1>1. waitingRecv = <<>> /\ ~\E r \in Receivers : receiver[r] = "woken" /\ hand[r] = 0
  BY DEF Inv, CanTake, RecvSide, Room, NobodyWaitsForNothing
<1>2. waitingSend = <<>> \/ \E s \in Senders : waitingSend = <<Entry(s)>>
  BY Solo
<1>3. CASE waitingSend = <<>>
  <2>1. Filled = buffer /\ buffer \in Seq(Nat) /\ buffer # <<>> /\ Len(waitingSend) = 0
    BY <1>3, QueueIsFilled DEF CanTake, Inv, Shape
  <2> QED BY <1>1, <2>1
<1>4. ASSUME NEW s \in Senders, waitingSend = <<Entry(s)>>
      PROVE  Len(waitingSend) = 1 /\ Len(Filled) = Len(buffer) + 1 /\ Filled # <<>>
  <2>1. Filled = Append(buffer, sending[s]) /\ buffer \in Seq(Nat) /\ sending[s] \in Nat
    BY <1>4 DEF Filled, Entry, Inv, Shape
  <2> QED BY <1>4, <2>1
<1> QED BY <1>1, <1>2, <1>3, <1>4, QueueIsFilled DEF Inv, Shape

LEMMA TakeStep ==
    ASSUME Inv, CanTake, Take, RecvSide',
           UNCHANGED <<dropped, maxsize, waitingRecv, sendOpen, recvOpen, sendBusy, sending, hand, accepted, kept>>,
           receiver' \in [Receivers -> {"idle", "checkpoint", "parked", "woken"}]
    PROVE  Inv'
<1>1. /\ got' = Append(got, Head(Filled)) /\ buffer' = Tail(Filled)
      /\ (got \o buffer)' = (got \o Filled) \o <<>> /\ buffer' \in Seq(Nat) /\ got' \in Seq(Nat)
      /\ Len(buffer') = Len(Filled) - 1
  <2>1. Filled \in Seq(Nat) /\ Filled # <<>> /\ got \in Seq(Nat)
    BY TakeFacts DEF Inv, Shape
  <2>2. got' = Append(got, Head(Filled)) /\ buffer' = Tail(Filled)
    BY DEF Take
  <2>3. /\ Append(got, Head(Filled)) \o Tail(Filled) = got \o Filled /\ Append(got, Head(Filled)) \in Seq(Nat)
        /\ Tail(Filled) \in Seq(Nat) /\ Len(Tail(Filled)) = Len(Filled) - 1
    BY <2>1, TakeLog, Zenon
  <2>4. (got \o Filled) \o <<>> = got \o Filled
    BY <2>1
  <2> QED BY <2>2, <2>3, <2>4, Zenon
<1>2. /\ \A s \in Senders : sender'[s] = IF waitingSend = <<Entry(s)>> THEN "woken" ELSE sender[s]
      /\ waitingSend' = <<>> /\ sender' \in [Senders -> {"idle", "parked", "woken"}]
  BY WokenByTake
<1>3. Shape'
  BY <1>1, <1>2 DEF Inv, Shape
<1>4. SendSide'
  BY <1>1, <1>2, TakeSendSide, <<>> \in Seq(Nat)
<1>5. Room'
  <2>1. Len(buffer') <= maxsize
    <3>1. Len(Filled) = Len(buffer) + Len(waitingSend) /\ Len(waitingSend) \in {0, 1} /\ Len(buffer) \in Nat
      BY TakeFacts DEF Inv, Shape
    <3>2. Len(buffer) <= maxsize /\ maxsize \in Nat
      BY DEF Inv, Shape, Room
    <3>3. Len(Filled) - 1 <= maxsize
      BY <3>1, <3>2, Shorter
    <3> QED BY <1>1, <3>3
  <2> QED BY <1>2, <2>1, TakeFacts DEF Room, NobodyWaitsForNothing
<1>6. Kept'
  BY <1>2 DEF Inv, Kept
<1> QED BY <1>3, <1>4, <1>5, <1>6 DEF Inv

LEMMA DropNewestStep == ASSUME Inv, DropNewest PROVE Inv'
<1>1. Shape'
  BY DEF Inv, Shape, DropNewest, ghosts
<1> QED BY <1>1 DEF Inv, SendSide, RecvSide, Room, NobodyWaitsForNothing, Kept, Served, Entry, DropNewest, ghosts

LEMMA DropOldestStep == ASSUME Inv, DropOldest PROVE Inv'
<1>1. CanTake /\ sendOpen /\ recvOpen /\ accepted' \in Nat /\ accepted' >= accepted
  BY DEF Inv, Shape, DropOldest, MustDrop
<1>2. /\ \A s \in Senders : sender'[s] = IF waitingSend = <<Entry(s)>> THEN "woken" ELSE sender[s]
      /\ waitingSend' = <<>> /\ sender' \in [Senders -> {"idle", "parked", "woken"}]
  BY WokenByTake
<1>3. /\ Filled \in Seq(Nat) /\ Filled # <<>> /\ got \in Seq(Nat) /\ buffer \in Seq(Nat) /\ waitingRecv = <<>>
      /\ Len(Filled) = Len(buffer) + Len(waitingSend) /\ Len(waitingSend) \in {0, 1} /\ Len(Tail(Filled)) = Len(Filled) - 1
      /\ got' = Append(got, Head(Filled)) /\ Tail(Filled) \in Seq(Nat)
  <2>1. /\ Filled \in Seq(Nat) /\ Filled # <<>> /\ waitingRecv = <<>>
        /\ Len(Filled) = Len(buffer) + Len(waitingSend) /\ Len(waitingSend) \in {0, 1}
    BY <1>1, TakeFacts DEF Inv
  <2>2. got \in Seq(Nat) /\ buffer \in Seq(Nat)
    BY DEF Inv, Shape
  <2>3. got' = Append(got, Head(Filled))
    BY DEF DropOldest
  <2>4. Len(Tail(Filled)) = Len(Filled) - 1 /\ Tail(Filled) \in Seq(Nat)
    BY <2>1
  <2> QED BY <2>1, <2>2, <2>3, <2>4
<1>4. PICK log \in Seq(Nat) :
         /\ buffer' = Tail(Filled) \o log
         /\ \/ log = <<>> /\ UNCHANGED <<accepted, kept>>
            \/ log = <<accepted'>> /\ Len(Filled) <= maxsize /\ accepted' = accepted + 1 /\ kept' = kept \cup {accepted'}
  <2>1. CASE Fits
    <3>1. <<accepted'>> \in Seq(Nat) /\ Append(Tail(Filled), accepted') = Tail(Filled) \o <<accepted'>>
      BY <1>1, <1>3
    <3> QED BY <2>1, <3>1 DEF DropOldest, Fits
  <2>2. CASE ~Fits
    <3>1. <<>> \in Seq(Nat) /\ Tail(Filled) = Tail(Filled) \o <<>>
      BY <1>3
    <3> QED BY <2>2, <3>1 DEF DropOldest, Fits
  <2> QED BY <2>1, <2>2
<1>5. (got \o buffer)' = (got \o Filled) \o log /\ buffer' \in Seq(Nat) /\ got' \in Seq(Nat)
  <2>1. got' \o Tail(Filled) = got \o Filled /\ got' \in Seq(Nat)
    BY <1>3, TakeLog
  <2>2. got' \o (Tail(Filled) \o log) = (got' \o Tail(Filled)) \o log
    <3>1. Tail(Filled) \in Seq(Nat) /\ log \in Seq(Nat) /\ got' \in Seq(Nat)
      BY <1>3, <2>1
    <3> QED BY <3>1, Regroup
  <2>3. Tail(Filled) \o log \in Seq(Nat)
    BY <1>3, ConcatProperties
  <2> QED BY <1>4, <2>1, <2>2, <2>3
<1>6. Len(buffer') <= maxsize
  <2>1. Len(buffer') = Len(Tail(Filled)) + Len(log) /\ Len(<<>>) = 0 /\ Len(<<accepted'>>) = 1
    BY <1>3, <1>4
  <2>2. Len(buffer) <= maxsize /\ maxsize \in Nat /\ Len(buffer) \in Nat
    BY <1>3 DEF Inv, Shape, Room
  <2>3. Len(buffer') \in {Len(Filled) - 1, Len(Filled)} /\ (Len(buffer') = Len(Filled) => Len(Filled) <= maxsize)
    <3>1. CASE log = <<>>
      BY <1>3, <2>1, <3>1
    <3>2. CASE log = <<accepted'>> /\ Len(Filled) <= maxsize
      BY <1>3, <2>1, <3>2
    <3> QED BY <1>4, <3>1, <3>2
  <2>4. Len(Filled) - 1 <= maxsize
    BY <1>3, <2>2, Shorter
  <2>5. CASE Len(buffer') = Len(Filled) - 1
    BY <2>4, <2>5
  <2>6. CASE Len(buffer') = Len(Filled)
    BY <2>3, <2>6
  <2> QED BY <2>3, <2>5, <2>6
<1>7. Shape'
  <2>1. dropped' \in Nat
    BY DEF Inv, Shape, DropOldest
  <2>2. UNCHANGED <<maxsize, waitingRecv, receiver, sending, hand>>
    BY DEF DropOldest
  <2> QED BY <1>1, <1>2, <1>5, <2>1, <2>2 DEF Inv, Shape
<1>8. SendSide'
  BY <1>1, <1>2, <1>5, TakeSendSide DEF DropOldest
<1>9. RecvSide'
  BY <1>1, TakeFacts DEF Inv, RecvSide, DropOldest
<1>10. Room'
  BY <1>1, <1>2, <1>6, TakeFacts DEF Inv, Room, NobodyWaitsForNothing, DropOldest
<1>11. Kept'
  <2>1. /\ \A k \in kept' : k \in kept \/ k = accepted'
        /\ accepted' >= accepted /\ accepted \in Nat /\ accepted' \in Nat
    BY <1>1, <1>4 DEF Inv, Shape
  <2>2. sending' = sending /\ sending \in [Senders -> Nat]
    BY DEF Inv, Shape, DropOldest
  <2> QED BY <1>2, <2>1, <2>2 DEF Inv, Kept
<1> QED BY <1>7, <1>8, <1>9, <1>10, <1>11 DEF Inv

-----------------------------------------------------------------------------
\* aclose() of either end.
LEMMA CloseSendStep == ASSUME Inv, CloseSend PROVE Inv'
<1>1. Shape'
  BY DEF Inv, Shape, CloseSend, ghosts
<1>2. SendSide'
  BY DEF Inv, SendSide, Served, Entry, CloseSend, ghosts
<1>3. RecvSide'
  <2>1. /\ \A r \in Receivers : receiver'[r] = IF receiver[r] = "parked" THEN "woken" ELSE receiver[r]
        /\ UNCHANGED <<recvBusy, hand, buffer, waitingSend>> /\ waitingRecv' = <<>> /\ ~sendOpen'
    BY DEF CloseSend
  <2>2. \A r \in Receivers : receiver[r] = "parked" => buffer = <<>> /\ waitingSend = <<>>
    BY DEF Inv, RecvSide, Room, NobodyWaitsForNothing
  <2>3. \A r \in Receivers : receiver'[r] # "parked" /\ (receiver'[r] = "idle" <=> receiver[r] = "idle")
    BY <2>1
  <2>4. \A r \in Receivers : receiver'[r] = "woken" /\ hand'[r] = 0 => buffer = <<>> /\ waitingSend = <<>>
    BY <2>1, <2>2 DEF Inv, RecvSide
  <2> QED BY <2>1, <2>3, <2>4 DEF Inv, RecvSide
<1>4. Room' /\ Kept'
  BY DEF Inv, Room, NobodyWaitsForNothing, Kept, CloseSend, ghosts
<1> QED BY <1>1, <1>2, <1>3, <1>4 DEF Inv

LEMMA CloseRecvStep == ASSUME Inv, CloseRecv PROVE Inv'
<1>1. Shape'
  BY DEF Inv, Shape, CloseRecv, ghosts
<1>2. SendSide'
  BY DEF Inv, Shape, SendSide, Served, Entry, CloseRecv, ghosts
<1>3. RecvSide' /\ Room' /\ Kept'
  BY DEF Inv, RecvSide, Room, NobodyWaitsForNothing, Kept, CloseRecv, ghosts
<1> QED BY <1>1, <1>2, <1>3 DEF Inv

\* Steps that only move a receiver.
LEMMA RecvOnlyStep ==
    ASSUME Inv, RecvSide', waitingRecv' \in Seq(Receivers), waitingRecv' # <<>> => buffer = <<>> /\ waitingSend = <<>> /\ sendOpen,
           receiver' \in [Receivers -> {"idle", "checkpoint", "parked", "woken"}], hand' \in [Receivers -> Nat],
           UNCHANGED <<dropped, maxsize, buffer, waitingSend, sendOpen, recvOpen, sendBusy, sender, sending, accepted, got, kept>>
    PROVE  Inv'
<1>1. Shape'
  BY DEF Inv, Shape
<1>2. SendSide'
  BY DEF Inv, SendSide, Served, Entry
<1>3. Room' /\ Kept'
  BY DEF Inv, Room, NobodyWaitsForNothing, Kept
<1> QED BY <1>1, <1>2, <1>3 DEF Inv

LEMMA ReceiveStep == ASSUME Inv, NEW r \in Receivers, Receive(r) PROVE Inv'
<1> USE DEF Receive, MayReceive, stream, ghosts
<1>1. RecvSide'
  BY DEF Inv, Shape, RecvSide
<1> QED BY <1>1, RecvOnlyStep DEF Inv, Shape, Room, NobodyWaitsForNothing

LEMMA ReceiveTriesStep == ASSUME Inv, NEW r \in Receivers, ReceiveTries(r) PROVE Inv'
<1>1. /\ waitingRecv = <<>> /\ recvBusy
      /\ \A q \in Receivers \ {r} : receiver[q] = "idle"
  BY Solo DEF Inv, RecvSide, ReceiveTries
<1>2. CASE recvOpen /\ CanTake /\ Take /\ receiver' = [receiver EXCEPT ![r] = "idle"] /\ recvBusy' = FALSE /\ UNCHANGED waitingRecv
  <2>1. RecvSide'
    BY <1>1, <1>2 DEF Inv, Shape, RecvSide
  <2> QED BY <1>2, <2>1, TakeStep DEF Inv, Shape, ReceiveTries
<1>3. CASE /\ receiver' = [receiver EXCEPT ![r] = "idle"] /\ recvBusy' = FALSE
           /\ UNCHANGED <<buffer, waitingSend, waitingRecv, sender, got>>
  <2>1. RecvSide'
    BY <1>1, <1>3 DEF Inv, Shape, RecvSide
  <2> QED BY <1>1, <1>3, <2>1, RecvOnlyStep DEF Inv, Shape, ReceiveTries
<1>4. CASE /\ sendOpen /\ recvOpen /\ ~CanTake /\ receiver' = [receiver EXCEPT ![r] = "parked"] /\ waitingRecv' = Append(waitingRecv, r)
           /\ UNCHANGED <<buffer, waitingSend, recvBusy, sender, got>>
  <2>1. waitingRecv' = <<r>> /\ buffer = <<>> /\ waitingSend = <<>>
    BY <1>1, <1>4 DEF CanTake
  <2>2. RecvSide'
    BY <1>1, <1>4, <2>1 DEF Inv, Shape, RecvSide, ReceiveTries
  <2> QED BY <1>4, <2>1, <2>2, RecvOnlyStep DEF Inv, Shape, ReceiveTries
<1> QED BY <1>2, <1>3, <1>4 DEF ReceiveTries

LEMMA ReceiveWakesStep == ASSUME Inv, NEW r \in Receivers, ReceiveWakes(r) PROVE Inv'
<1> USE DEF ReceiveWakes, stream
<1>1. RecvSide'
  BY DEF Inv, Shape, RecvSide
<1> QED BY <1>1, RecvOnlyStep DEF Inv, Shape, Room, NobodyWaitsForNothing

LEMMA ReceiveCancelledStep == ASSUME Inv, NEW r \in Receivers, ReceiveCancelled(r) PROVE Inv'
<1>1. waitingRecv = <<>> \/ waitingRecv = <<r>>
  BY Solo DEF Inv, RecvSide, ReceiveCancelled
<1>2. waitingRecv' = <<>>
  BY <1>1, RemoveOnly DEF ReceiveCancelled
<1>3. RecvSide'
  BY <1>2 DEF Inv, Shape, RecvSide, ReceiveCancelled, ghosts
<1> QED BY <1>2, <1>3, RecvOnlyStep DEF Inv, Shape, ReceiveCancelled, ghosts

LEMMA ReceiveNowaitStep == ASSUME Inv, ReceiveNowait PROVE Inv'
<1>1. RecvSide'
  BY TakeFacts DEF Inv, RecvSide, ReceiveNowait
<1> QED BY <1>1, TakeStep DEF Inv, Shape, ReceiveNowait

LEMMA ReceiveNowaitEndsStep == ASSUME Inv, ReceiveNowaitEnds PROVE Inv'
<1> USE DEF ReceiveNowaitEnds, stream
<1>1. RecvSide'
  BY DEF Inv, RecvSide
<1> QED BY <1>1, RecvOnlyStep DEF Inv, Shape, Room, NobodyWaitsForNothing

LEMMA InvStep == Inv /\ [Next]_vars => Inv'
<1> SUFFICES ASSUME Inv, [Next]_vars PROVE Inv'
  OBVIOUS
<1>1. CASE UNCHANGED vars
  BY <1>1 DEF Inv, Shape, SendSide, RecvSide, Room, NobodyWaitsForNothing, Kept, Served, Entry, vars, stream, ghosts
<1>2. CASE Send \/ SendNowait
  BY <1>2, HandStep DEF Send, SendNowait
<1>3. CASE DropNewest \/ DropOldest \/ CloseSend \/ CloseRecv \/ ReceiveNowait \/ ReceiveNowaitEnds
  BY <1>3, DropNewestStep, DropOldestStep, CloseSendStep, CloseRecvStep, ReceiveNowaitStep, ReceiveNowaitEndsStep
<1>4. ASSUME NEW s \in Senders, SendBlocks(s) \/ SendWakes(s) \/ SendCancelled(s) PROVE Inv'
  <2>1. CASE SendWakes(s)
    <3>1. kept' \subseteq kept \cup {sending[s]}
      BY <2>1 DEF SendWakes
    <3> QED BY <2>1, <3>1, SendLeavesStep DEF SendWakes
  <2>2. CASE SendCancelled(s)
    BY <2>2, SendLeavesStep DEF SendCancelled, ghosts
  <2> QED BY <1>4, <2>1, <2>2, SendBlocksStep
<1>5. ASSUME NEW r \in Receivers, Receive(r) \/ ReceiveTries(r) \/ ReceiveWakes(r) \/ ReceiveCancelled(r) PROVE Inv'
  BY <1>5, ReceiveStep, ReceiveTriesStep, ReceiveWakesStep, ReceiveCancelledStep
<1> QED BY <1>1, <1>2, <1>3, <1>4, <1>5 DEF Next

LEMMA InvAlways == Spec => []Inv
  BY InitInv, InvStep, PTL DEF Spec

-----------------------------------------------------------------------------
\* The busy flags are true of the endpoints however calls end and interleave:
\* each endpoint has one owner at a time.  (send, receive)
THEOREM EndpointsAreSingleOwner == Spec => []BusyIsTrue
<1>1. Inv => BusyIsTrue
  BY DEF Inv, SendSide, RecvSide, BusyIsTrue
<1> QED BY <1>1, InvAlways, PTL

\* The calls that ignore the busy flag never leave a blocked call behind space or
\* an item it could have.  (send_nowait, receive_nowait, aclose)
THEOREM NobodyWaitsInVain == Spec => []NobodyWaitsForNothing
<1>1. Inv => NobodyWaitsForNothing
  BY DEF Inv, Room
<1> QED BY <1>1, InvAlways, PTL

\* Each drop of a lossy wrapper is in its count, and drop-oldest keeps the newest
\* item.  (DropNewestSend, DropOldestSend, CoalesceSend)
THEOREM DropsCounted == Spec => DropsAreCounted
<1> DEFINE Counted ==
       dropped' # dropped =>
          /\ Len(buffer \o waitingSend) + 1 = Len(buffer' \o waitingSend') + (dropped' - dropped)
          /\ got' # got /\ waitingSend = <<>> =>
                accepted' = accepted + 1 /\ buffer'[Len(buffer')] = accepted'
<1>1. Inv /\ [Next]_vars => [Counted]_vars
  <2> SUFFICES ASSUME Inv, Next, dropped' # dropped PROVE Counted
    OBVIOUS
  <2>1. DropNewest \/ DropOldest
    BY DEF Next, Send, SendNowait, CloseSend, SendBlocks, SendWakes, SendCancelled, ReceiveNowait, ReceiveNowaitEnds,
           CloseRecv, Receive, ReceiveTries, ReceiveWakes, ReceiveCancelled, stream
  <2>2. CASE DropNewest
    <3>1. UNCHANGED <<buffer, waitingSend, got>> /\ dropped' - dropped = 1
      BY <2>2 DEF Inv, Shape, DropNewest, ghosts
    <3> QED BY <3>1
  <2>3. CASE DropOldest
    <3>1. CanTake
      BY <2>3 DEF DropOldest
    <3>2. /\ Filled \in Seq(Nat) /\ Filled # <<>> /\ buffer \in Seq(Nat)
          /\ Len(Filled) = Len(buffer) + Len(waitingSend) /\ Len(Tail(Filled)) = Len(Filled) - 1 /\ Tail(Filled) \in Seq(Nat)
          /\ Len(buffer) \in Nat /\ Len(waitingSend) \in {0, 1}
      BY <3>1, TakeFacts DEF Inv, Shape
    <3>3. waitingSend' = <<>>
      BY <2>3, WokenByTake
    <3>4. Len(buffer \o waitingSend) = Len(Filled)
      <4>1. waitingSend \in Seq([task : Senders, item : Nat])
        BY DEF Inv, Shape
      <4> QED BY <3>2, <4>1
    <3>5. CASE Fits
      <4>1. /\ buffer' = Append(Tail(Filled), accepted') /\ accepted' = accepted + 1 /\ dropped' - dropped = 1 /\ accepted' \in Nat
        BY <2>3, <3>5 DEF Inv, Shape, DropOldest
      <4>2. Len(buffer') = Len(Filled) /\ buffer'[Len(buffer')] = accepted' /\ buffer' \o waitingSend' = buffer'
        BY <3>2, <3>3, <4>1
      <4> QED BY <3>2, <3>4, <4>1, <4>2
    <3>6. CASE ~Fits
      <4>1. buffer' = Tail(Filled) /\ dropped' - dropped = 2
        BY <2>3, <3>6 DEF Inv, Shape, DropOldest
      <4>2. Len(buffer') = Len(Filled) - 1 /\ buffer' \o waitingSend' = buffer'
        BY <3>2, <3>3, <4>1
      <4>3. waitingSend # <<>>
        BY <3>2, <3>6 DEF Inv, Shape, Room, Fits
      <4> QED BY <3>2, <3>4, <4>1, <4>2, <4>3
    <3> QED BY <3>5, <3>6
  <2> QED BY <2>1, <2>2, <2>3
<1> QED BY <1>1, InvAlways, PTL DEF Spec, DropsAreCounted

-----------------------------------------------------------------------------
(* The refinement of Stream, one lemma per kind of step.                     *)

Queue == buffer \o Items

LEMMA InitIsStream == ASSUME Init PROVE StreamSpec!Init
<1>1. Items = <<>>
  BY DEF Init, Items
<1> QED BY <1>1 DEF Init, StreamSpec!Init

\* The queue of the stream when nobody is blocked in send(), and when s is.
LEMMA QueueIs ==
    ASSUME Inv
    PROVE  /\ Queue = Filled /\ Queue \in Seq(Nat)
           /\ waitingSend = <<>> => Queue = buffer
           /\ \A s \in Senders : waitingSend = <<Entry(s)>> => Queue = Append(buffer, sending[s])
<1>1. ASSUME NEW s \in Senders, waitingSend = <<Entry(s)>> PROVE Filled = Append(buffer, sending[s])
  BY <1>1 DEF Filled, Entry
<1> QED BY <1>1, QueueIsFilled DEF Queue

LEMMA HandIsStream ==
    ASSUME Inv, Inv', CanSend, accepted' = accepted + 1, Hand, kept' = kept \cup {accepted'},
           UNCHANGED <<waitingSend, sendOpen, recvOpen, ended>>
    PROVE  StreamSpec!Put \/ StreamSpec!Pass
<1>1. waitingSend = <<>> /\ waitingSend' = <<>>
  BY DEF Inv, Shape, Room, NobodyWaitsForNothing, CanSend
<1>2. Queue = buffer /\ Queue' = buffer'
  <2>1. Items = <<>> /\ Items' = <<>>
    BY <1>1 DEF Items
  <2> QED BY <2>1 DEF Queue, Inv, Shape
<1>3. CASE waitingRecv = <<>>
  <2>1. Queue' = Append(Queue, accepted') /\ UNCHANGED got
    BY <1>2, <1>3 DEF Hand
  <2> QED BY <2>1 DEF StreamSpec!Put, Queue, CanSend
<1>4. CASE waitingRecv # <<>>
  <2>1. Queue = <<>> /\ Queue' = Queue /\ got' = Append(got, accepted')
    BY <1>2, <1>4 DEF Hand, Inv, Room, NobodyWaitsForNothing
  <2> QED BY <2>1 DEF StreamSpec!Pass, Queue, CanSend
<1> QED BY <1>3, <1>4

LEMMA BlockIsStream == ASSUME Inv, Inv', NEW s \in Senders, SendBlocks(s) PROVE StreamSpec!Put
<1>1. waitingSend = <<>> /\ waitingSend' = <<[task |-> s, item |-> accepted']>>
  <2>1. waitingSend = <<>>
    BY DEF Inv, SendSide, SendBlocks, MaySend
  <2> QED BY <2>1 DEF SendBlocks
<1>2. Items = <<>> /\ Items' = <<accepted'>>
  BY <1>1 DEF Items
<1>3. Queue' = Append(Queue, accepted')
  BY <1>2 DEF Queue, Inv, Shape, SendBlocks
<1> QED BY <1>3 DEF StreamSpec!Put, Queue, SendBlocks

\* A send() that is over returns; one that gives up takes its item back.
LEMMA WakesIsStream == ASSUME Inv, Inv', NEW s \in Senders, SendWakes(s) PROVE StreamSpec!Return \/ StreamSpec!Withdraw
<1>1. waitingSend' = <<>> /\ Items' = <<>> /\ Queue' = buffer
  <2>1. waitingSend' = <<>>
    BY RemoveOnly DEF Inv, SendSide, SendWakes, Without
  <2>2. Items' = <<>>
    BY <2>1 DEF Items
  <2> QED BY <2>1, <2>2 DEF Queue, Inv, Shape, SendWakes
<1>2. CASE waitingSend = <<>>
  <2>1. Served(s) /\ Sent(s) /\ Queue = buffer
    BY <1>2, QueueIs DEF Inv, SendSide, SendWakes, Sent, IsWaiting
  <2>2. \E i \in 1..Len(got \o Queue) : kept' = kept \cup {(got \o Queue)[i]}
    BY <2>1 DEF Served, SendWakes
  <2> QED BY <1>1, <2>1, <2>2 DEF StreamSpec!Return, Queue, SendWakes
<1>3. CASE waitingSend = <<Entry(s)>>
  <2>1. ~Sent(s) /\ waitingSend[1].item = sending[s] /\ sending[s] \notin kept
    BY <1>3 DEF Sent, IsWaiting, Inv, Kept, Entry
  <2>2. Queue = Append(buffer, sending[s]) /\ buffer \in Seq(Nat) /\ sending[s] \in Nat
    BY <1>3, QueueIs DEF Inv, Shape
  <2>3. Queue # <<>> /\ Queue[Len(Queue)] = sending[s] /\ SubSeq(Queue, 1, Len(Queue) - 1) = buffer
    BY <2>2
  <2>4. kept' = kept /\ Queue' = SubSeq(Queue, 1, Len(Queue) - 1)
    BY <1>1, <2>1, <2>3 DEF SendWakes
  <2> QED BY <2>1, <2>3, <2>4 DEF StreamSpec!Withdraw, Queue, SendWakes
<1> QED BY <1>2, <1>3 DEF Inv, SendSide, SendWakes

LEMMA CancelIsStream == ASSUME Inv, Inv', NEW s \in Senders, SendCancelled(s) PROVE StreamSpec!Withdraw
<1>1. waitingSend = <<Entry(s)>> /\ waitingSend' = <<>>
  BY RemoveOnly DEF Inv, SendSide, SendCancelled, Without
<1>2. Items' = <<>>
  BY <1>1 DEF Items
<1>3. Queue' = buffer
  BY <1>2 DEF Queue, Inv, Shape, SendCancelled
<1>4. Queue = Append(buffer, sending[s]) /\ buffer \in Seq(Nat) /\ sending[s] \in Nat /\ sending[s] \notin kept
  BY <1>1, QueueIs DEF Inv, Shape, Kept, Entry
<1>5. Queue # <<>> /\ Queue[Len(Queue)] = sending[s] /\ SubSeq(Queue, 1, Len(Queue) - 1) = buffer
  BY <1>4
<1> QED BY <1>3, <1>4, <1>5 DEF StreamSpec!Withdraw, Queue, SendCancelled, ghosts

\* receive_nowait() and drop-oldest.
LEMMA TakeIsStream ==
    ASSUME Inv, Inv', CanTake, waitingSend' = <<>>, buffer' = Tail(Filled), got' = Append(got, Head(Filled)),
           UNCHANGED <<accepted, kept, sendOpen, recvOpen, ended>>
    PROVE  StreamSpec!Take
<1>1. Items' = <<>>
  BY DEF Items
<1>2. Queue' = buffer'
  BY <1>1 DEF Queue, Inv, Shape
<1>3. Queue = Filled /\ Queue # <<>>
  BY QueueIs, TakeFacts
<1> QED BY <1>2, <1>3 DEF StreamSpec!Take, Queue, CanTake

LEMMA DropOldestIsStream == ASSUME Inv, Inv', DropOldest PROVE StreamSpec!Take \/ StreamSpec!Replace
<1>1. CanTake /\ sendOpen /\ recvOpen /\ got' = Append(got, Head(Filled)) /\ UNCHANGED <<sendOpen, recvOpen, ended>>
  BY DEF DropOldest, MustDrop
<1>2. waitingSend' = <<>>
  BY WokenByTake
<1>3. CASE Fits
  <2>1. /\ accepted' = accepted + 1 /\ kept' = kept \cup {accepted'}
        /\ buffer' = Append(Tail(Filled), accepted')
    BY <1>3 DEF DropOldest
  <2>2. Items' = <<>>
    BY <1>2 DEF Items
  <2>3. Queue' = buffer'
    BY <2>2 DEF Queue, Inv, Shape
  <2>4. Queue = Filled /\ Queue # <<>>
    BY <1>1, QueueIs, TakeFacts
  <2> QED BY <1>1, <2>1, <2>3, <2>4 DEF StreamSpec!Replace, Queue
<1>4. CASE ~Fits
  <2>1. buffer' = Tail(Filled) /\ UNCHANGED <<accepted, kept>>
    BY <1>4 DEF DropOldest
  <2> QED BY <1>1, <1>2, <2>1, TakeIsStream
<1> QED BY <1>3, <1>4

\* A receive() that raises finds the stream closed and drained.
LEMMA EmptyQueue == ASSUME Inv, buffer = <<>>, waitingSend = <<>> PROVE Queue = <<>>
  BY QueueIs

LEMMA EndIsStream ==
    ASSUME Inv, ~sendOpen, Queue = <<>>, ended' = TRUE,
           UNCHANGED <<accepted, got, kept, sendOpen, recvOpen, buffer, waitingSend>>
    PROVE  StreamSpec!End
  BY DEF StreamSpec!End, Queue, Items

LEMMA SameIsStream ==
    ASSUME UNCHANGED <<accepted, got, kept, sendOpen, recvOpen, ended, buffer, waitingSend>>
    PROVE  UNCHANGED StreamSpec!vars
  BY DEF StreamSpec!vars, Items

LEMMA TriesIsStream == ASSUME Inv, Inv', ended \in BOOLEAN, NEW r \in Receivers, ReceiveTries(r) PROVE [StreamSpec!Next]_(StreamSpec!vars)
<1>0. UNCHANGED <<sendOpen, recvOpen, accepted, kept>>
  BY DEF ReceiveTries
<1>1. CASE CanTake /\ Take /\ UNCHANGED ended
  <2>1. waitingSend' = <<>> /\ buffer' = Tail(Filled) /\ got' = Append(got, Head(Filled))
    BY <1>1, WokenByTake DEF Take
  <2>2. StreamSpec!Take
    BY <1>0, <1>1, <2>1, TakeIsStream
  <2> QED BY <2>2 DEF StreamSpec!Next
<1>2. CASE (~recvOpen \/ AtEnd) /\ ended' = (ended \/ recvOpen) /\ UNCHANGED <<buffer, waitingSend, got>>
  <2>1. CASE recvOpen
    <3>1. ~sendOpen /\ Queue = <<>> /\ ended' = TRUE
      BY <1>2, <2>1, EmptyQueue DEF AtEnd, CanTake
    <3>2. StreamSpec!End
      BY <1>0, <1>2, <3>1, EndIsStream
    <3> QED BY <3>2 DEF StreamSpec!Next
  <2>2. CASE ~recvOpen
    BY <1>0, <1>2, <2>2, SameIsStream
  <2> QED BY <2>1, <2>2
<1>3. CASE UNCHANGED <<buffer, waitingSend, got, ended>>
  BY <1>0, <1>3, SameIsStream
<1> QED BY <1>1, <1>2, <1>3 DEF ReceiveTries

LEMMA ReceiveWakesIsStream == ASSUME Inv, Inv', ended \in BOOLEAN, NEW r \in Receivers, ReceiveWakes(r) PROVE [StreamSpec!Next]_(StreamSpec!vars)
<1> USE DEF ReceiveWakes, stream
<1>1. CASE hand[r] = 0 /\ recvOpen
  <2>1. ~sendOpen /\ Queue = <<>>
    BY <1>1, EmptyQueue DEF Inv, RecvSide
  <2>2. StreamSpec!End
    BY <1>1, <2>1, EndIsStream
  <2> QED BY <2>2 DEF StreamSpec!Next
<1>2. CASE ~(hand[r] = 0 /\ recvOpen)
  BY <1>2, SameIsStream
<1> QED BY <1>1, <1>2

LEMMA StepIsStream == ASSUME Inv, Inv', ended \in BOOLEAN, [Next]_vars PROVE [StreamSpec!Next]_(StreamSpec!vars)
<1> USE DEF StreamSpec!Next
<1>1. CASE UNCHANGED vars
  BY <1>1, SameIsStream DEF vars, stream, ghosts
<1>2. CASE Send \/ SendNowait
  BY <1>2, HandIsStream DEF Send, SendNowait
<1>3. CASE DropNewest
  BY <1>3, SameIsStream DEF DropNewest, ghosts
<1>4. CASE DropOldest
  BY <1>4, DropOldestIsStream
<1>5. CASE CloseSend
  BY <1>5 DEF CloseSend, StreamSpec!CloseSend, Items, ghosts
<1>6. CASE CloseRecv
  BY <1>6 DEF CloseRecv, StreamSpec!CloseRecv, Items, ghosts
<1>7. ASSUME NEW s \in Senders, SendBlocks(s) \/ SendWakes(s) \/ SendCancelled(s) PROVE StreamSpec!Next
  BY <1>7, BlockIsStream, WakesIsStream, CancelIsStream
<1>8. CASE ReceiveNowait
  <2>1. waitingSend' = <<>> /\ buffer' = Tail(Filled) /\ got' = Append(got, Head(Filled))
    BY <1>8, WokenByTake DEF ReceiveNowait, Take
  <2> QED BY <1>8, <2>1, TakeIsStream DEF ReceiveNowait
<1>9. CASE ReceiveNowaitEnds
  <2>1. ~sendOpen /\ Queue = <<>>
    BY <1>9, EmptyQueue DEF ReceiveNowaitEnds, AtEnd, CanTake
  <2> QED BY <1>9, <2>1, EndIsStream DEF ReceiveNowaitEnds, stream
<1>10. ASSUME NEW r \in Receivers, Receive(r) \/ ReceiveTries(r) \/ ReceiveWakes(r) \/ ReceiveCancelled(r)
       PROVE  [StreamSpec!Next]_(StreamSpec!vars)
  <2>1. CASE Receive(r) \/ ReceiveCancelled(r)
    BY <2>1, SameIsStream DEF Receive, ReceiveCancelled, stream, ghosts
  <2> QED BY <1>10, <2>1, TriesIsStream, ReceiveWakesIsStream
<1> QED BY <1>1, <1>2, <1>3, <1>4, <1>5, <1>6, <1>7, <1>8, <1>9, <1>10 DEF Next

EndedOK == ended \in BOOLEAN
LEMMA EndedType == Spec => []EndedOK
<1>1. Init => EndedOK
  BY DEF Init, EndedOK
<1>2. EndedOK /\ [Next]_vars => EndedOK'
  BY DEF EndedOK, vars, ghosts, Next, Send, SendNowait, DropNewest, DropOldest, CloseSend, SendBlocks, SendWakes, SendCancelled,
         ReceiveNowait, ReceiveNowaitEnds, CloseRecv, Receive, ReceiveTries, ReceiveWakes, ReceiveCancelled
<1> QED BY <1>1, <1>2, PTL DEF Spec

\* The in-process channel implements Stream under the mapping that appends the
\* blocked send()'s item to the buffer: items are handed out in the order in which
\* they were sent, each once; a send() that raises has sent nothing; EndOfStream
\* comes only when all was handed out.  (_Send, _Recv)
THEOREM ChannelImplementsStream == Spec => IsStream
<1>1. Init => StreamSpec!Init
  BY InitIsStream
<1>2. Inv /\ Inv' /\ EndedOK /\ [Next]_vars => [StreamSpec!Next]_(StreamSpec!vars)
  BY StepIsStream DEF EndedOK
<1> QED BY <1>1, <1>2, InvAlways, EndedType, PTL DEF Spec, IsStream, StreamSpec!Spec
-----------------------------------------------------------------------------
(* What Stream, and so the channel, means for its users.                     *)

Line == got \o Queue
Increasing(s) == \A i, j \in DOMAIN s : i < j => s[i] < s[j]
UpTo(s, n) == \A i \in DOMAIN s : s[i] <= n
Among(s) == {s[i] : i \in DOMAIN s}

\* First in, first out, each item once; no item is lost once its send() has
\* returned; the end comes when all is out, and for good.
FirstInFirstOut == Increasing(Line) /\ UpTo(Line, accepted)
NothingKeptIsLost == kept \subseteq Among(Line)
EndIsLast == ended => ~sendOpen /\ Queue = <<>>
Promise == FirstInFirstOut /\ NothingKeptIsLost /\ EndIsLast

LEMMA Longer ==
    ASSUME NEW s \in Seq(Nat), NEW n \in Nat, Increasing(s), UpTo(s, n), NEW k, k \subseteq Among(s)
    PROVE  /\ Increasing(Append(s, n + 1)) /\ UpTo(Append(s, n + 1), n + 1)
           /\ k \cup {n + 1} \subseteq Among(Append(s, n + 1))
<1> DEFINE l == Append(s, n + 1)
<1>1. /\ Len(s) \in Nat /\ DOMAIN s = 1..Len(s) /\ DOMAIN l = 1..(Len(s) + 1) /\ l[Len(s) + 1] = n + 1
      /\ \A i \in 1..Len(s) : l[i] = s[i] /\ s[i] \in Nat
  OBVIOUS
<1> HIDE DEF l
<1>2. UpTo(l, n + 1)
  BY <1>1 DEF UpTo
<1>3. Increasing(l)
  <2> SUFFICES ASSUME NEW i \in DOMAIN l, NEW j \in DOMAIN l, i < j PROVE l[i] < l[j]
    BY DEF Increasing
  <2>1. i \in 1..Len(s) /\ (j \in 1..Len(s) \/ j = Len(s) + 1)
    BY <1>1
  <2> QED BY <1>1, <2>1 DEF Increasing, UpTo
<1>4. k \cup {n + 1} \subseteq Among(l)
  <2>1. Among(s) \subseteq Among(l)
    BY <1>1 DEF Among
  <2>2. n + 1 \in Among(l)
    BY <1>1 DEF Among
  <2> QED BY <2>1, <2>2
<1> QED BY <1>2, <1>3, <1>4 DEF l

LEMMA Prefix ==
    ASSUME NEW s \in Seq(Nat), s # <<>>, NEW n \in Nat, Increasing(s), UpTo(s, n),
           NEW k, k \subseteq Among(s), s[Len(s)] \notin k
    PROVE  LET l == SubSeq(s, 1, Len(s) - 1) IN Increasing(l) /\ UpTo(l, n) /\ k \subseteq Among(l)
<1> DEFINE l == SubSeq(s, 1, Len(s) - 1)
<1>1. /\ Len(s) \in Nat \ {0} /\ DOMAIN s = 1..Len(s) /\ DOMAIN l = 1..(Len(s) - 1)
      /\ \A i \in 1..(Len(s) - 1) : l[i] = s[i]
  OBVIOUS
<1> HIDE DEF l
<1>4. DOMAIN l \subseteq DOMAIN s /\ \A i \in DOMAIN l : l[i] = s[i]
  <2>1. \A i \in 1..(Len(s) - 1) : i \in 1..Len(s)
    BY <1>1
  <2> QED BY <1>1, <2>1
<1>2. Increasing(l) /\ UpTo(l, n)
  BY <1>4 DEF Increasing, UpTo
<1>3. ASSUME NEW x \in k PROVE x \in Among(l)
  <2>1. PICK i \in 1..Len(s) : s[i] = x
    BY <1>1 DEF Among
  <2>2. i # Len(s)
    BY <1>3, <2>1
  <2>3. i \in 1..(Len(s) - 1)
    <3>1. Len(s) \in Nat
      BY <1>1
    <3> QED BY <2>2, <3>1
  <2> QED BY <1>1, <2>1, <2>3 DEF Among
<1> QED BY <1>2, <1>3 DEF l

\* got and the queue as one sequence: what the steps of Stream do to it.
LEMMA LineFacts ==
    ASSUME NEW g \in Seq(Nat), NEW q \in Seq(Nat), NEW n \in Nat
    PROVE  /\ g \o q \in Seq(Nat)
           /\ g \o Append(q, n) = Append(g \o q, n)
           /\ q = <<>> => Append(g, n) \o q = Append(g \o q, n)
           /\ q # <<>> => /\ g \o SubSeq(q, 1, Len(q) - 1) = SubSeq(g \o q, 1, Len(g \o q) - 1)
                          /\ g \o q # <<>> /\ (g \o q)[Len(g \o q)] = q[Len(q)]
                          /\ Append(g, Head(q)) \o Append(Tail(q), n) = Append(g \o q, n)
<1>1. g \o q \in Seq(Nat) /\ g \o Append(q, n) = Append(g \o q, n) /\ (q = <<>> => Append(g, n) \o q = Append(g \o q, n))
  BY SMTT(60)
<1>2. ASSUME q # <<>>
      PROVE  /\ g \o SubSeq(q, 1, Len(q) - 1) = SubSeq(g \o q, 1, Len(g \o q) - 1)
             /\ g \o q # <<>> /\ (g \o q)[Len(g \o q)] = q[Len(q)]
  BY <1>2, SMTT(60)
<1>3. ASSUME q # <<>> PROVE Append(g, Head(q)) \o Append(Tail(q), n) = Append(g \o q, n)
  <2>1. Append(g, Head(q)) \o Tail(q) = g \o q /\ Append(g, Head(q)) \in Seq(Nat) /\ Tail(q) \in Seq(Nat)
    BY <1>3, TakeLog
  <2>2. Append(g, Head(q)) \o Append(Tail(q), n) = Append(Append(g, Head(q)) \o Tail(q), n)
    BY <2>1, SMTT(60)
  <2> QED BY <2>1, <2>2
<1> QED BY <1>1, <1>2, <1>3

LEMMA PromiseInit == ASSUME StreamSpec!Init PROVE Promise
<1>1. Queue = <<>> /\ got = <<>> /\ kept = {} /\ ended = FALSE
  BY DEF StreamSpec!Init, Queue
<1>2. Line = <<>>
  BY <1>1 DEF Line
<1> QED BY <1>1, <1>2 DEF Promise, FirstInFirstOut, NothingKeptIsLost, EndIsLast, Increasing, UpTo

\* The steps of Stream keep its promise.
LEMMA PromiseStep ==
    ASSUME Inv, Promise, [StreamSpec!Next]_(StreamSpec!vars)
    PROVE  Promise' /\ (ended => got' = got /\ ended')
<1>1. got \in Seq(Nat) /\ Queue \in Seq(Nat) /\ accepted \in Nat /\ Line \in Seq(Nat)
  <2>1. got \in Seq(Nat) /\ Queue \in Seq(Nat) /\ accepted \in Nat
    BY QueueIs DEF Inv, Shape
  <2> QED BY <2>1, LineFacts DEF Line
<1> USE DEF Promise, FirstInFirstOut, NothingKeptIsLost, EndIsLast
<1>2. ASSUME sendOpen, accepted' = accepted + 1, Line' = Append(Line, accepted'), kept' \subseteq kept \cup {accepted'}, UNCHANGED ended
      PROVE  Promise' /\ (ended => got' = got /\ ended')
  BY <1>1, <1>2, Longer
<1>3. ASSUME UNCHANGED <<accepted, kept, Line>>, EndIsLast', ended => got' = got /\ ended'
      PROVE  Promise' /\ (ended => got' = got /\ ended')
  BY <1>3
<1>4. CASE StreamSpec!Put
  <2>1. sendOpen /\ accepted' = accepted + 1 /\ Queue' = Append(Queue, accepted') /\ UNCHANGED <<got, ended>>
        /\ kept' \subseteq kept \cup {accepted'}
    BY <1>4 DEF StreamSpec!Put, Queue
  <2>2. Line' = Append(Line, accepted')
    BY <1>1, <2>1, LineFacts DEF Line
  <2> QED BY <1>2, <2>1, <2>2
<1>5. CASE StreamSpec!Pass
  <2>1. sendOpen /\ accepted' = accepted + 1 /\ Queue = <<>> /\ Queue' = Queue /\ got' = Append(got, accepted')
        /\ kept' \subseteq kept \cup {accepted'} /\ UNCHANGED ended
    BY <1>5 DEF StreamSpec!Pass, Queue
  <2>2. Line' = Append(Line, accepted')
    BY <1>1, <2>1, LineFacts DEF Line
  <2> QED BY <1>2, <2>1, <2>2
<1>6. CASE StreamSpec!Return
  <2>1. UNCHANGED <<accepted, Queue, got, sendOpen, ended>> /\ \E i \in 1..Len(Line) : kept' = kept \cup {Line[i]}
    BY <1>6 DEF StreamSpec!Return, Queue, Line
  <2>2. UNCHANGED Line /\ kept' \subseteq Among(Line)
    BY <1>1, <2>1 DEF Line, Among
  <2> QED BY <2>1, <2>2
<1>7. CASE StreamSpec!Withdraw
  <2>1. /\ Queue # <<>> /\ Queue[Len(Queue)] \notin kept /\ Queue' = SubSeq(Queue, 1, Len(Queue) - 1)
        /\ UNCHANGED <<accepted, got, kept, sendOpen, ended>>
    BY <1>7 DEF StreamSpec!Withdraw, Queue
  <2>2. Line' = SubSeq(Line, 1, Len(Line) - 1) /\ Line # <<>> /\ Line[Len(Line)] \notin kept
    BY <1>1, <2>1, LineFacts DEF Line
  <2>3. FirstInFirstOut' /\ NothingKeptIsLost'
    BY <1>1, <2>1, <2>2, Prefix
  <2> QED BY <2>1, <2>3
<1>8. CASE StreamSpec!Take
  <2>1. Queue # <<>> /\ got' = Append(got, Head(Queue)) /\ Queue' = Tail(Queue) /\ UNCHANGED <<accepted, kept, ended>>
    BY <1>8 DEF StreamSpec!Take, Queue
  <2>2. UNCHANGED Line
    BY <1>1, <2>1, TakeLog DEF Line
  <2> QED BY <1>3, <2>1, <2>2
<1>9. CASE StreamSpec!Replace
  <2>1. /\ sendOpen /\ Queue # <<>> /\ accepted' = accepted + 1 /\ UNCHANGED ended /\ kept' \subseteq kept \cup {accepted'}
        /\ Queue' = Append(Tail(Queue), accepted') /\ got' = Append(got, Head(Queue))
    BY <1>9 DEF StreamSpec!Replace, Queue
  <2>2. Line' = Append(Line, accepted')
    <3>1. accepted' \in Nat
      BY <1>1, <2>1
    <3>2. Append(got, Head(Queue)) \o Append(Tail(Queue), accepted') = Append(got \o Queue, accepted')
      BY <1>1, <2>1, <3>1, LineFacts
    <3> QED BY <2>1, <3>2 DEF Line
  <2> QED BY <1>2, <2>1, <2>2
<1>10. CASE StreamSpec!End \/ StreamSpec!CloseSend \/ StreamSpec!CloseRecv \/ UNCHANGED StreamSpec!vars
  <2>1. UNCHANGED <<accepted, Queue, got, kept>>
    BY <1>10 DEF StreamSpec!End, StreamSpec!CloseSend, StreamSpec!CloseRecv, StreamSpec!vars, Queue
  <2>2. /\ \/ ~sendOpen /\ ~sendOpen' /\ Queue = <<>> /\ ended'
           \/ (sendOpen' = sendOpen \/ ~sendOpen') /\ ended' = ended
    BY <1>10 DEF StreamSpec!End, StreamSpec!CloseSend, StreamSpec!CloseRecv, StreamSpec!vars, Queue
  <2>3. UNCHANGED Line
    BY <2>1 DEF Line
  <2> QED BY <1>3, <2>1, <2>2, <2>3
<1> QED BY <1>4, <1>5, <1>6, <1>7, <1>8, <1>9, <1>10 DEF StreamSpec!Next

\* However sends block, give up or drop, and whoever closes: items leave the channel
\* in the order in which they were sent, each once; what a send() returned for is
\* handed out, dropped to make room, or still queued; and after the first
\* EndOfStream there is nothing left and nothing follows.  (_Send, _Recv)
THEOREM ChannelKeepsItsPromise == Spec => []Promise /\ [][ended => got' = got /\ ended']_vars
<1>1. Init => Promise
  BY InitIsStream, PromiseInit
<1>2. Inv /\ Inv' /\ EndedOK /\ Promise /\ [Next]_vars => Promise' /\ [ended => got' = got /\ ended']_vars
  BY StepIsStream, PromiseStep DEF EndedOK
<1> QED BY <1>1, <1>2, InvAlways, EndedType, PTL DEF Spec

=============================================================================
