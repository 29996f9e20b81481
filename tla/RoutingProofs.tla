--------------------------- MODULE RoutingProofs ---------------------------
(***************************************************************************)
(* What the routing recipes and select() guarantee for any number of        *)
(* sources, destinations, workers and items.                                *)
(***************************************************************************)
EXTENDS Routing, FiniteSetTheorems, TLAPS

Items == Ids \X Nat
Kind(c) == IF c = Ready THEN Ids ELSE Items
Inputs == {Src(i) : i \in Ids} \cup Jobs
Places == {"receive", "parked", "pick", "handle", "lock", "send", "done"}

Shape ==
    /\ log = [c \in Chans |-> log[c]] /\ \A c \in Chans : log[c] \in Seq(Kind(c))
    /\ taken \in [Chans -> Nat] /\ sendOpen \in [Chans -> BOOLEAN]
    /\ pc \in [Tasks -> Places] /\ item \in [Tasks -> Items \cup {None}] /\ todo = [p \in Tasks |-> todo[p]]
    /\ idx \in Ids /\ {cancelled, over, outer} \subseteq BOOLEAN

\* What a task that sends, or waits for its turn, has and where it goes: a worker
\* to the output or to announce itself, the dispatcher to one worker, the others
\* to destinations.
Outgoing(p) ==
    \/ Works(p) /\ todo[p] = {Ready}
    \/ Works(p) /\ todo[p] = {Dst(1)} /\ item[p] # None
    \/ Dispatches(p) /\ (\E i \in Ids : todo[p] = {Job(i)}) /\ item[p] # None
    \/ ~IsPool /\ todo[p] \subseteq Dests /\ item[p] # None

\* One task.  If it has ended and nothing went wrong, its input is closed and empty.
TaskOK(p) ==
    /\ pc[p] \in {"receive", "parked"} => item[p] = None
    /\ pc[p] = "pick" => Dispatches(p) /\ item[p] # None
    /\ pc[p] = "handle" => Works(p) /\ item[p] # None
    /\ pc[p] \in {"lock", "send"} => Outgoing(p)
    /\ pc[p] = "done" /\ ~cancelled => ~Pending(In(p)) /\ ~sendOpen[In(p)] /\ item[p] = None

\* The group: why it is cancelled, and what is closed when.
GroupOK ==
    /\ cancelled => outer \/ failed # "none" \/ winner # None
    /\ failed # "ChannelInUse"
    /\ over => \A p \in Started : pc[p] = "done"

ClosedOK ==
    /\ \A c \in Dests : ~sendOpen[c] <=> over /\ closes /\ ~(IsPool /\ outer)
    /\ IsPool /\ pc[0] # "done" => \A c \in Jobs : sendOpen[c]
    /\ ~IsPool => \A c \in Jobs : ~Pending(c)

Inv == Shape /\ (\A p \in Started : TaskOK(p)) /\ GroupOK /\ ClosedOK

-----------------------------------------------------------------------------
(* Channels and tasks.                                                       *)

LEMMA OneId == 1 \in Ids /\ N \in Nat \ {0}
  BY RoutingAssumption DEF Ids

LEMMA ItemNotNone == \A x \in Items : x # None
  BY SMTT(60) DEF Items, None

LEMMA ChanFacts ==
    /\ Inputs \subseteq Chans /\ Jobs \subseteq Chans /\ Ready \in Chans /\ Ready \notin Inputs
    /\ \A i \in Ids : /\ Src(i) \in Inputs /\ Src(i) \in Chans /\ Src(i) \notin Jobs /\ Src(i) # Ready
                      /\ Dst(i) \in Chans /\ Dst(i) \notin Inputs /\ Dst(i) # Ready
                      /\ Job(i) \in Jobs /\ Job(i) \in Inputs /\ Job(i) # Ready
  BY DEF Inputs, Chans, Jobs, Src, Dst, Job, Ready

LEMMA DestFacts ==
    /\ Dests \subseteq {Dst(i) : i \in Ids}
    /\ IsPool => Dests = {Dst(1)}
    /\ ~IsPool /\ recipe # "select" => Targets \subseteq {Dst(i) : i \in Ids} \/ idx \notin Ids
    /\ ~IsPool /\ recipe # "select" /\ idx \in Ids => Targets \subseteq Dests
  BY OneId DEF Dests, IsPool, Targets

LEMMA StartedFacts ==
    /\ Started \subseteq Tasks /\ 0 \in Tasks /\ Ids \subseteq Tasks /\ Sources \subseteq Ids
    /\ IsPool => Started = Tasks
    /\ \A p \in Started : In(p) \in Inputs /\ (Works(p) => p \in Ids) /\ (~IsPool => p \in Sources /\ In(p) = Src(p))
  <1>1. Ids \subseteq Tasks /\ 0 \in Tasks /\ \A p \in Tasks : p # 0 => p \in Ids
    BY RoutingAssumption DEF Ids, Tasks
  <1>2. Sources \subseteq Ids
    BY OneId DEF Sources
  <1>3. Started \subseteq Tasks /\ (IsPool => Started = Tasks)
    BY <1>1, <1>2 DEF Started
  <1>4. ASSUME NEW p \in Started PROVE In(p) \in Inputs /\ (Works(p) => p \in Ids) /\ (~IsPool => p \in Sources /\ In(p) = Src(p))
    <2>1. CASE ~IsPool
      <3>1. p \in Sources /\ In(p) = Src(p) /\ ~Works(p)
        BY <2>1 DEF Started, In, Works, Dispatches
      <3> QED BY <1>2, <3>1, ChanFacts
    <2>2. CASE IsPool
      BY <1>1, <1>3, <2>2, ChanFacts, OneId DEF In, Works, Dispatches
    <2> QED BY <2>1, <2>2
  <1> QED BY <1>1, <1>2, <1>3, <1>4

\* The recipe does not change.
LEMMA SameRecipe ==
    ASSUME recipe' = recipe
    PROVE  /\ Started' = Started /\ Dests' = Dests /\ (IsPool' <=> IsPool) /\ Sources' = Sources
           /\ \A p : (Works(p)' <=> Works(p)) /\ (Dispatches(p)' <=> Dispatches(p)) /\ In(p)' = In(p)
  BY DEF Started, Dests, IsPool, Sources, Works, Dispatches, In

-----------------------------------------------------------------------------
(* Steps and the tasks that do not make them.                                *)

\* Nothing comes into a channel that is closed, and it stays so.
Shut(c) == ~sendOpen[c] /\ ~Pending(c)
StaysShut == \A c \in Inputs : Shut(c) => Shut(c)'

LEMMA Bystander ==
    ASSUME NEW p \in Started, TaskOK(p), recipe' = recipe, pc'[p] = pc[p], item'[p] = item[p], todo'[p] = todo[p],
           cancelled => cancelled', StaysShut
    PROVE  TaskOK(p)'
<1>1. In(p) \in Inputs
  BY StartedFacts
<1>2. /\ (Works(p)' <=> Works(p)) /\ (Dispatches(p)' <=> Dispatches(p)) /\ In(p)' = In(p)
      /\ Dests' = Dests /\ (IsPool' <=> IsPool)
  BY SameRecipe
<1>3. Outgoing(p)' <=> Outgoing(p)
  BY <1>2 DEF Outgoing
<1>4. Shut(In(p)) => Shut(In(p))'
  BY <1>1, <1>2 DEF StaysShut, Shut, Pending
<1> QED BY <1>2, <1>3, <1>4 DEF TaskOK, Shut

LEMMA OthersOK ==
    ASSUME Inv, recipe' = recipe, cancelled => cancelled', StaysShut, NEW p \in Started, TaskOK(p)',
           \A q \in Tasks \ {p} : pc'[q] = pc[q] /\ item'[q] = item[q] /\ todo'[q] = todo[q]
    PROVE  (\A q \in Started : TaskOK(q))'
<1>1. Started' = Started /\ Started \subseteq Tasks
  BY SameRecipe, StartedFacts
<1>2. ASSUME NEW q \in Started, q # p PROVE TaskOK(q)'
  BY <1>1, <1>2, Bystander DEF Inv
<1> QED BY <1>1, <1>2

LEMMA AllOK ==
    ASSUME Inv, recipe' = recipe, cancelled => cancelled', StaysShut, UNCHANGED <<pc, item, todo>>
    PROVE  (\A q \in Started : TaskOK(q))'
<1>1. Started' = Started /\ Started \subseteq Tasks
  BY SameRecipe, StartedFacts
<1>2. ASSUME NEW q \in Started PROVE TaskOK(q)'
  BY <1>1, <1>2, Bystander DEF Inv
<1> QED BY <1>1, <1>2

LEMMA LenType == ASSUME Shape, NEW c \in Chans PROVE Len(log[c]) \in Nat /\ taken[c] \in Nat
  BY DEF Shape

\* Taking from channels, and closing some, leaves what is shut so.
LEMMA TakingShuts ==
    ASSUME Shape, UNCHANGED log, \A c \in Inputs : taken'[c] \in {taken[c], taken[c] + 1} /\ (~sendOpen[c] => ~sendOpen'[c])
    PROVE  StaysShut
<1> SUFFICES ASSUME NEW c \in Inputs, Shut(c) PROVE Shut(c)'
  BY DEF StaysShut
<1>1. Len(log[c]) \in Nat /\ taken[c] \in Nat /\ ~(taken[c] < Len(log[c]))
  BY LenType, ChanFacts DEF Shut, Pending
<1>2. ~(taken'[c] < Len(log'[c]))
  BY <1>1
<1> QED BY <1>2 DEF Shut, Pending

\* A task that ends: it has nothing left to do, or the group is cancelled.
LEMMA Ending ==
    ASSUME Inv, NEW p \in Started, pc[p] # "done", Ends(p), UNCHANGED <<args, log, todo, idx, over>>,
           {cancelled', outer'} \subseteq BOOLEAN, outer' = outer, cancelled => cancelled',
           taken' \in [Chans -> Nat], \A c \in Chans : taken'[c] \in {taken[c], taken[c] + 1},
           item' \in [Tasks -> Items \cup {None}], \A q \in Tasks \ {p} : item'[q] = item[q],
           cancelled' \/ (~Pending(In(p))' /\ ~sendOpen[In(p)] /\ item'[p] = None)
    PROVE  Shape' /\ (\A q \in Started : TaskOK(q))' /\ ClosedOK' /\ (over => \A q \in Started : pc[q] = "done")'
<1> USE DEF Ends
<1>1. recipe' = recipe /\ closes' = closes
  BY DEF args
<1>2. p \in Tasks /\ pc \in [Tasks -> Places] /\ sendOpen \in [Chans -> BOOLEAN] /\ over \in BOOLEAN /\ ~over /\ ~over'
  BY StartedFacts DEF Inv, Shape, GroupOK
<1>3. pc' \in [Tasks -> Places] /\ pc'[p] = "done" /\ \A q \in Tasks \ {p} : pc'[q] = pc[q]
  BY <1>2 DEF Places
<1>4. sendOpen' \in [Chans -> BOOLEAN] /\ \A c \in Chans : sendOpen'[c] = (sendOpen[c] /\ ~(Dispatches(p) /\ c \in Jobs))
  BY <1>2
<1>5. \A c \in Chans : ~sendOpen[c] => ~sendOpen'[c]
  BY <1>4
<1>6. Shape'
  <2>1. log' = [c \in Chans |-> log'[c]] /\ (\A c \in Chans : log'[c] \in Seq(Kind(c)))
    BY DEF Inv, Shape
  <2>2. (\A c \in Chans : log'[c] \in Seq(Kind(c)'))
    BY <2>1 DEF Kind
  <2>3. todo' = [q \in Tasks |-> todo'[q]] /\ idx' \in Ids
    BY DEF Inv, Shape
  <2> QED BY <1>2, <1>3, <1>4, <2>1, <2>2, <2>3 DEF Shape
<1>7. StaysShut
  BY <1>5, TakingShuts, ChanFacts DEF Inv
<1>8. In(p)' = In(p) /\ In(p) \in Chans
  BY <1>1, SameRecipe, StartedFacts, ChanFacts
<1>9. TaskOK(p)'
  <2>1. ~cancelled' => ~Pending(In(p))' /\ ~sendOpen'[In(p)'] /\ item'[p] = None
    BY <1>5, <1>8
  <2> QED BY <1>3, <2>1 DEF TaskOK
<1>10. (\A q \in Started : TaskOK(q))'
  BY <1>1, <1>3, <1>7, <1>9, OthersOK
<1>11. ClosedOK'
  <2>1. ASSUME NEW c \in Dests, ~sendOpen'[c] PROVE FALSE
    <3>1. c \in Chans /\ c \notin Jobs
      BY DestFacts, ChanFacts DEF Inputs
    <3> QED BY <1>2, <1>4, <2>1, <3>1 DEF Inv, ClosedOK
  <2>2. ASSUME IsPool, pc'[0] # "done", NEW c \in Jobs PROVE sendOpen'[c]
    <3>1. p # 0 /\ pc[0] # "done" /\ c \in Chans /\ ~Dispatches(p)
      BY <1>3, <2>2, StartedFacts, ChanFacts DEF Dispatches
    <3> QED BY <1>4, <2>2, <3>1 DEF Inv, ClosedOK
  <2>3. ASSUME ~IsPool, NEW c \in Jobs PROVE ~Pending(c)'
    <3>1. ~(taken[c] < Len(log[c])) /\ c \in Chans /\ Len(log[c]) \in Nat /\ taken[c] \in Nat
      BY <2>3, LenType, ChanFacts DEF Inv, ClosedOK, Pending
    <3>2. ~(taken'[c] < Len(log[c]))
      BY <3>1
    <3> QED BY <3>2 DEF Pending
  <2> QED BY <1>1, <1>2, <2>1, <2>2, <2>3, SameRecipe DEF ClosedOK
<1> QED BY <1>2, <1>6, <1>10, <1>11

\* A task that goes on.
LEMMA Moving ==
    ASSUME Inv, NEW p \in Started, pc[p] # "done", Shape', TaskOK(p)', StaysShut, pc'[p] # "done",
           \A q \in Tasks \ {p} : pc'[q] = pc[q] /\ item'[q] = item[q] /\ todo'[q] = todo[q],
           UNCHANGED <<args, sendOpen, winner, cancelled, outer, failed, over>>,
           ~IsPool => \A c \in Jobs : ~Pending(c)'
    PROVE  Inv'
<1>1. recipe' = recipe /\ closes' = closes
  BY DEF args
<1>2. p \in Tasks /\ ~over /\ ~over'
  BY StartedFacts DEF Inv, GroupOK
<1>3. (\A q \in Started : TaskOK(q))'
  BY <1>1, OthersOK
<1>4. GroupOK'
  BY <1>2 DEF Inv, GroupOK
<1>5. ClosedOK'
  <2>1. IsPool /\ pc'[0] # "done" => pc[0] # "done"
    BY StartedFacts
  <2> QED BY <1>1, <1>2, <2>1, SameRecipe DEF Inv, ClosedOK
<1> QED BY <1>3, <1>4, <1>5 DEF Inv

-----------------------------------------------------------------------------
(* The invariant, action by action.                                          *)

LEMMA InitInv == Init => Inv
<1> SUFFICES ASSUME Init PROVE Inv
  OBVIOUS
<1>1. \A c \in Chans : log[c] = <<>> /\ taken[c] = 0 /\ sendOpen[c] = TRUE /\ ~Pending(c)
  BY DEF Init, Pending
<1>2. Shape
  <2> <<>> \in Seq(Ids) /\ <<>> \in Seq(Items)
    OBVIOUS
  <2>1. \A c \in Chans : log[c] \in Seq(Kind(c))
    BY <1>1 DEF Kind
  <2>2. log = [c \in Chans |-> log[c]] /\ taken \in [Chans -> Nat] /\ sendOpen \in [Chans -> BOOLEAN]
    BY <1>1 DEF Init
  <2>3. pc \in [Tasks -> Places]
    BY DEF Init, Places
  <2>4. item \in [Tasks -> Items \cup {None}] /\ todo = [p \in Tasks |-> todo[p]]
    BY DEF Init
  <2> QED BY <2>1, <2>2, <2>3, <2>4, OneId DEF Init, Shape
<1>3. ASSUME NEW p \in Started PROVE TaskOK(p)
  <2>1. p \in Tasks /\ In(p) \in Chans
    BY StartedFacts, ChanFacts
  <2>2. pc[p] \in {"lock", "receive"} /\ item[p] = None /\ (pc[p] = "lock" => Works(p) /\ todo[p] = {Ready})
    BY <2>1 DEF Init
  <2> QED BY <2>2 DEF TaskOK, Outgoing
<1>4. GroupOK
  BY DEF GroupOK, Init
<1>5. ClosedOK
  <2>1. Dests \subseteq Chans /\ Jobs \subseteq Chans
    BY DestFacts, ChanFacts
  <2>2. ~over
    BY DEF Init
  <2> QED BY <1>1, <2>1, <2>2 DEF ClosedOK
<1> QED BY <1>2, <1>3, <1>4, <1>5 DEF Inv

\* The caller's steps leave the tasks, the job channels and the flags alone.
LEMMA Outside ==
    ASSUME Inv, Shape', StaysShut, UNCHANGED <<args, pc, item, todo, winner, outer, failed, over, cancelled>>,
           \A c \in Jobs : log'[c] = log[c] /\ taken'[c] = taken[c] /\ sendOpen'[c] = sendOpen[c],
           \A c \in Dests : sendOpen'[c] = sendOpen[c]
    PROVE  Inv'
<1>1. recipe' = recipe /\ closes' = closes
  BY DEF args
<1>2. (\A q \in Started : TaskOK(q))'
  BY <1>1, AllOK
<1>3. GroupOK'
  BY <1>1, SameRecipe DEF Inv, GroupOK
<1>4. ClosedOK'
  <2>1. \A c \in Jobs : Pending(c)' <=> Pending(c)
    BY DEF Pending
  <2> QED BY <1>1, <2>1, SameRecipe DEF Inv, ClosedOK
<1> QED BY <1>2, <1>3, <1>4 DEF Inv

LEMMA ProduceInv == ASSUME Inv, NEW s \in Sources, Produce(s) PROVE Inv'
<1>1. s \in Ids /\ Src(s) \in Chans /\ Src(s) \in Inputs /\ Src(s) \notin Jobs /\ Src(s) # Ready /\ sendOpen[Src(s)]
  BY StartedFacts, ChanFacts DEF Produce
<1>2. log' = [log EXCEPT ![Src(s)] = Append(@, <<s, Len(@) + 1>>)] /\ UNCHANGED <<taken, sendOpen>>
  BY DEF Produce
<1>3. /\ log' = [c \in Chans |-> log'[c]]
      /\ log'[Src(s)] = Append(log[Src(s)], <<s, Len(log[Src(s)]) + 1>>)
      /\ \A c \in Chans \ {Src(s)} : log'[c] = log[c]
  BY <1>1, <1>2 DEF Inv, Shape
<1>4. Shape'
  <2>1. log[Src(s)] \in Seq(Items) /\ Len(log[Src(s)]) \in Nat
    BY <1>1 DEF Inv, Shape, Kind
  <2>2. <<s, Len(log[Src(s)]) + 1>> \in Items
    BY <1>1, <2>1 DEF Items
  <2>3. log'[Src(s)] \in Seq(Items)
    BY <1>3, <2>1, <2>2
  <2>4. ASSUME NEW c \in Chans PROVE log'[c] \in Seq(Kind(c))
    <3>1. CASE c = Src(s)
      BY <1>1, <2>3, <3>1 DEF Kind
    <3>2. CASE c # Src(s)
      BY <1>3, <3>2 DEF Inv, Shape
    <3> QED BY <3>1, <3>2
  <2>5. (\A c \in Chans : log[c] \in Seq(Kind(c)))'
    BY <2>4 DEF Kind
  <2> QED BY <1>3, <2>5 DEF Inv, Shape, Produce
<1>5. StaysShut
  BY <1>1, <1>2, <1>3, ChanFacts DEF StaysShut, Shut, Pending
<1>6. \A c \in Jobs : log'[c] = log[c]
  BY <1>1, <1>3, ChanFacts
<1> QED BY <1>4, <1>5, <1>6, Outside DEF Produce

LEMMA CloseSourceInv == ASSUME Inv, NEW s \in Sources, CloseSource(s) PROVE Inv'
<1>1. s \in Ids /\ Src(s) \in Chans /\ Src(s) \notin Jobs
  BY StartedFacts, ChanFacts
<1>2. sendOpen' = [sendOpen EXCEPT ![Src(s)] = FALSE] /\ UNCHANGED <<log, taken>> /\ sendOpen \in [Chans -> BOOLEAN]
  BY DEF CloseSource, Inv, Shape
<1>3. sendOpen' \in [Chans -> BOOLEAN] /\ ~sendOpen'[Src(s)] /\ \A c \in Chans \ {Src(s)} : sendOpen'[c] = sendOpen[c]
  BY <1>1, <1>2
<1>4. Shape'
  BY <1>3 DEF Inv, Shape, Kind, CloseSource
<1>5. StaysShut
  BY <1>2, <1>3, ChanFacts DEF StaysShut, Shut, Pending
<1>6. Src(s) \notin Dests
  BY <1>1, DestFacts, ChanFacts
<1>7. \A c \in Jobs \cup Dests : sendOpen'[c] = sendOpen[c]
  BY <1>1, <1>3, <1>6, ChanFacts, DestFacts
<1> QED BY <1>4, <1>5, <1>7, Outside DEF CloseSource

LEMMA ConsumeInv == ASSUME Inv, NEW c \in Dests, Consume(c) PROVE Inv'
<1>1. c \in Chans /\ c \notin Inputs /\ c \notin Jobs
  BY DestFacts, ChanFacts DEF Inputs
<1>2. taken' = [taken EXCEPT ![c] = @ + 1] /\ UNCHANGED <<log, sendOpen>> /\ taken \in [Chans -> Nat]
  BY DEF Consume, Inv, Shape
<1>3. taken' \in [Chans -> Nat] /\ \A d \in Chans \ {c} : taken'[d] = taken[d]
  BY <1>1, <1>2
<1>4. Shape'
  BY <1>3 DEF Inv, Shape, Kind, Consume
<1>5. StaysShut
  BY <1>1, <1>2, <1>3, ChanFacts DEF StaysShut, Shut, Pending
<1>6. \A d \in Jobs : taken'[d] = taken[d]
  BY <1>1, <1>3, ChanFacts
<1> QED BY <1>2, <1>4, <1>5, <1>6, Outside DEF Consume

LEMMA CloseDestInv == ASSUME Inv, NEW c \in Dests, CloseDest(c) PROVE Inv'
<1>1. Shape'
  BY DEF Inv, Shape, Kind, CloseDest
<1>2. StaysShut
  BY DEF StaysShut, Shut, Pending, CloseDest
<1> QED BY <1>1, <1>2, Outside DEF CloseDest

LEMMA CancelOutsideInv == ASSUME Inv, CancelOutside PROVE Inv'
<1>1. recipe' = recipe /\ closes' = closes
  BY DEF CancelOutside, args
<1>2. Shape'
  BY DEF Inv, Shape, Kind, CancelOutside
<1>3. StaysShut
  BY DEF StaysShut, Shut, Pending, CancelOutside
<1>4. (\A q \in Started : TaskOK(q))'
  BY <1>1, <1>3, AllOK DEF CancelOutside
<1>5. GroupOK'
  BY DEF Inv, GroupOK, CancelOutside
<1>6. ClosedOK'
  BY <1>1, SameRecipe DEF Inv, ClosedOK, CancelOutside, Pending
<1> QED BY <1>2, <1>4, <1>5, <1>6 DEF Inv

\* The finally block closes destinations only.
LEMMA FinallyInv == ASSUME Inv, Finally PROVE Inv'
<1>1. recipe' = recipe /\ closes' = closes
  BY DEF Finally, args
<1>2. sendOpen \in [Chans -> BOOLEAN] /\ sendOpen' = [c \in Chans |-> sendOpen[c] /\ ~(c \in Dests /\ ClosesDests)] /\ over' = TRUE
  BY DEF Finally, Inv, Shape
<1>3. sendOpen' \in [Chans -> BOOLEAN] /\ \A c \in Chans : sendOpen'[c] = (sendOpen[c] /\ ~(c \in Dests /\ ClosesDests))
  BY <1>2
<1>4. Shape'
  BY <1>2, <1>3 DEF Inv, Shape, Kind, Finally
<1>5. StaysShut
  BY <1>3, ChanFacts DEF StaysShut, Shut, Pending, Finally
<1>6. (\A q \in Started : TaskOK(q))'
  BY <1>1, <1>5, AllOK DEF Finally
<1>7. GroupOK'
  BY <1>1, SameRecipe DEF Inv, GroupOK, Finally
<1>8. ClosedOK'
  <2>1. ASSUME NEW c \in Dests PROVE ~sendOpen'[c] <=> closes /\ ~(IsPool /\ outer)
    <3>1. c \in Chans /\ sendOpen[c]
      BY DestFacts, ChanFacts DEF Finally, Inv, ClosedOK
    <3> QED BY <1>3, <3>1 DEF ClosesDests
  <2>2. IsPool => pc'[0] = "done"
    BY StartedFacts DEF Finally
  <2>3. UNCHANGED <<log, taken, outer>>
    BY DEF Finally
  <2> QED BY <1>1, <1>2, <2>1, <2>2, <2>3, SameRecipe DEF Inv, ClosedOK, Pending
<1> QED BY <1>4, <1>6, <1>7, <1>8 DEF Inv

-----------------------------------------------------------------------------
\* The tasks that end.

LEMMA RaisesInv ==
    ASSUME Inv, NEW p \in Started, pc[p] # "done", NEW what, what \notin {"none", "ChannelInUse"}, Raises(p, what)
    PROVE  Inv'
<1>1. Shape' /\ (\A q \in Started : TaskOK(q))' /\ ClosedOK' /\ (over => \A q \in Started : pc[q] = "done")'
  <2>1. taken' \in [Chans -> Nat] /\ \A c \in Chans : taken'[c] \in {taken[c], taken[c] + 1}
    BY DEF Raises, Inv, Shape
  <2>2. item' \in [Tasks -> Items \cup {None}] /\ \A q \in Tasks \ {p} : item'[q] = item[q]
    BY DEF Raises, Inv, Shape
  <2>3. {cancelled', outer'} \subseteq BOOLEAN /\ outer' = outer /\ cancelled'
    BY DEF Raises, Inv, Shape
  <2> QED BY <2>1, <2>2, <2>3, Ending DEF Raises
<1>2. GroupOK'
  BY <1>1 DEF Raises, GroupOK
<1> QED BY <1>1, <1>2 DEF Inv

LEMMA DrainedInv == ASSUME Inv, NEW p \in Started, Drained(p) PROVE Inv'
<1>1. pc[p] \in {"receive", "parked"} /\ pc[p] # "done" /\ item[p] = None /\ ~Pending(In(p)) /\ ~sendOpen[In(p)]
  BY DEF Drained, Inv, TaskOK
<1>2. Shape' /\ (\A q \in Started : TaskOK(q))' /\ ClosedOK' /\ (over => \A q \in Started : pc[q] = "done")'
  <2>1. taken' \in [Chans -> Nat] /\ \A c \in Chans : taken'[c] \in {taken[c], taken[c] + 1}
    BY DEF Drained, Inv, Shape
  <2>2. item' \in [Tasks -> Items \cup {None}] /\ item' = item
    BY DEF Drained, Inv, Shape
  <2>3. {cancelled', outer'} \subseteq BOOLEAN /\ outer' = outer /\ cancelled' = cancelled
    BY DEF Drained, Inv, Shape
  <2>4. ~Pending(In(p))'
    BY <1>1, SameRecipe DEF Drained, args, Pending
  <2> QED BY <1>1, <2>1, <2>2, <2>3, <2>4, Ending DEF Drained
<1>3. GroupOK'
  BY <1>2 DEF Drained, GroupOK, Inv
<1> QED BY <1>2, <1>3 DEF Inv

LEMMA CancelledInv == ASSUME Inv, NEW p \in Started, Cancelled(p) PROVE Inv'
<1>1. Shape' /\ (\A q \in Started : TaskOK(q))' /\ ClosedOK' /\ (over => \A q \in Started : pc[q] = "done")'
  <2>1. taken' \in [Chans -> Nat] /\ \A c \in Chans : taken'[c] \in {taken[c], taken[c] + 1}
    BY DEF Cancelled, Inv, Shape
  <2>2. item' \in [Tasks -> Items \cup {None}] /\ item' = item
    BY DEF Cancelled, Inv, Shape
  <2>3. {cancelled', outer'} \subseteq BOOLEAN /\ outer' = outer /\ cancelled' /\ pc[p] # "done"
    BY DEF Cancelled, Inv, Shape
  <2> QED BY <2>1, <2>2, <2>3, Ending DEF Cancelled
<1>2. GroupOK'
  BY <1>1 DEF Cancelled, GroupOK, Inv
<1> QED BY <1>1, <1>2 DEF Inv

-----------------------------------------------------------------------------
\* The tasks that go on.

LEMMA ParksInv == ASSUME Inv, NEW p \in Started, Parks(p) PROVE Inv'
<1>1. p \in Tasks /\ pc[p] = "receive" /\ item[p] = None /\ pc \in [Tasks -> Places]
  BY StartedFacts DEF Parks, Inv, TaskOK, Shape
<1>2. pc' \in [Tasks -> Places] /\ pc'[p] = "parked" /\ \A q \in Tasks \ {p} : pc'[q] = pc[q]
  BY <1>1 DEF Parks, Places
<1>3. Shape'
  BY <1>2 DEF Inv, Shape, Kind, Parks
<1>4. TaskOK(p)'
  BY <1>1, <1>2 DEF TaskOK, Parks
<1>5. StaysShut /\ (~IsPool => \A c \in Jobs : ~Pending(c)')
  BY DEF StaysShut, Shut, Pending, Parks, Inv, ClosedOK
<1> QED BY <1>1, <1>2, <1>3, <1>4, <1>5, Moving DEF Parks

LEMMA HandlesInv == ASSUME Inv, NEW p \in Started, Handles(p) PROVE Inv'
<1>1. p \in Tasks /\ pc[p] = "handle" /\ item[p] # None /\ Works(p) /\ pc \in [Tasks -> Places]
  BY StartedFacts DEF Handles, Inv, TaskOK, Shape
<1>2. pc' \in [Tasks -> Places] /\ pc'[p] = "lock" /\ \A q \in Tasks \ {p} : pc'[q] = pc[q]
  BY <1>1 DEF Handles, Places
<1>3. todo' = [q \in Tasks |-> todo'[q]] /\ todo'[p] = {Dst(1)} /\ \A q \in Tasks \ {p} : todo'[q] = todo[q]
  BY <1>1 DEF Handles, Inv, Shape
<1>4. Shape'
  BY <1>2, <1>3 DEF Inv, Shape, Kind, Handles
<1>5. recipe' = recipe /\ item' = item
  BY DEF Handles, args
<1>6. TaskOK(p)'
  <2>1. Outgoing(p)'
    BY <1>1, <1>3, <1>5, SameRecipe DEF Outgoing
  <2> QED BY <1>2, <2>1 DEF TaskOK
<1>7. StaysShut /\ (~IsPool => \A c \in Jobs : ~Pending(c)')
  BY DEF StaysShut, Shut, Pending, Handles, Inv, ClosedOK
<1> QED BY <1>1, <1>2, <1>3, <1>4, <1>6, <1>7, Moving DEF Handles

\* The gate is what keeps ChannelInUse away.
LEMMA LocksInv == ASSUME Inv, NEW p \in Started, Locks(p) PROVE Inv'
<1>1. p \in Tasks /\ pc[p] = "lock" /\ Outgoing(p) /\ pc \in [Tasks -> Places]
  BY StartedFacts DEF Locks, Inv, TaskOK, Shape
<1>2. ~(\E c \in todo[p] : Sending(c))
  BY DEF Locks, GateOpen
<1>3. /\ pc' = [pc EXCEPT ![p] = "send"]
      /\ UNCHANGED <<args, log, taken, sendOpen, recvOpen, item, todo, idx, winner, cancelled, outer, failed, over>>
  BY <1>2 DEF Locks
<1>4. pc' \in [Tasks -> Places] /\ pc'[p] = "send" /\ \A q \in Tasks \ {p} : pc'[q] = pc[q]
  BY <1>1, <1>3 DEF Places
<1>5. Shape'
  BY <1>3, <1>4 DEF Inv, Shape, Kind
<1>6. TaskOK(p)'
  <2>1. Outgoing(p)'
    BY <1>1, <1>3, SameRecipe DEF Outgoing, args
  <2> QED BY <1>4, <2>1 DEF TaskOK
<1>7. StaysShut /\ (~IsPool => \A c \in Jobs : ~Pending(c)')
  BY <1>3 DEF StaysShut, Shut, Pending, Inv, ClosedOK
<1> QED BY <1>1, <1>3, <1>4, <1>5, <1>6, <1>7, Moving

\* What is taken from a channel is one of its items.
LEMMA OldestType == ASSUME Shape, NEW c \in Chans, Pending(c) PROVE Oldest(c) \in Kind(c)
<1>1. taken[c] \in Nat /\ log[c] \in Seq(Kind(c)) /\ taken[c] < Len(log[c])
  BY DEF Shape, Pending
<1>2. ASSUME NEW S, NEW s \in Seq(S), NEW n \in Nat, n < Len(s) PROVE s[n + 1] \in S
  BY <1>2
<1> QED BY <1>1, <1>2 DEF Oldest

LEMMA PicksInv == ASSUME Inv, NEW p \in Started, Picks(p) PROVE Inv'
<1>1. p \in Tasks /\ pc[p] = "pick" /\ item[p] # None /\ Dispatches(p) /\ pc \in [Tasks -> Places] /\ taken \in [Chans -> Nat]
  BY StartedFacts DEF Picks, Inv, TaskOK, Shape
<1>2. pc' \in [Tasks -> Places] /\ pc'[p] = "send" /\ \A q \in Tasks \ {p} : pc'[q] = pc[q]
  BY <1>1 DEF Picks, Places
<1>3. Oldest(Ready) \in Ids
  BY OldestType, ChanFacts DEF Picks, Inv, Kind
<1>4. todo' = [q \in Tasks |-> todo'[q]] /\ todo'[p] = {Job(Oldest(Ready))} /\ \A q \in Tasks \ {p} : todo'[q] = todo[q]
  BY <1>1 DEF Picks, Inv, Shape
<1>5. taken' \in [Chans -> Nat] /\ \A c \in Chans \ {Ready} : taken'[c] = taken[c]
  BY <1>1, ChanFacts DEF Picks
<1>6. Shape'
  BY <1>2, <1>4, <1>5 DEF Inv, Shape, Kind, Picks
<1>7. recipe' = recipe /\ item' = item
  BY DEF Picks, args
<1>8. TaskOK(p)'
  <2>1. Outgoing(p)'
    BY <1>1, <1>3, <1>4, <1>7, SameRecipe DEF Outgoing
  <2> QED BY <1>2, <2>1 DEF TaskOK
<1>9. \A c \in Inputs : taken'[c] = taken[c]
  BY <1>5, ChanFacts
<1>10. StaysShut
  BY <1>9 DEF StaysShut, Shut, Pending, Picks
<1>11. IsPool
  BY <1>1 DEF Dispatches
<1> QED BY <1>1, <1>2, <1>4, <1>6, <1>7, <1>8, <1>10, <1>11, Moving DEF Picks

\* Where an item that was received goes.
LEMMA AfterFacts ==
    ASSUME NEW p \in Started
    PROVE  /\ Dispatches(p) => After(p) = "pick"
           /\ Works(p) => After(p) = "handle"
           /\ ~IsPool => After(p) \in {"lock", "send"}
           /\ IsPool => Dispatches(p) \/ Works(p)
<1>1. CASE Dispatches(p)
  <2>1. IsPool /\ ~Works(p)
    BY <1>1 DEF Dispatches, Works
  <2>2. CASE recipe = "merge"
    BY <1>1, <2>1, <2>2 DEF After, IsPool
  <2>3. CASE recipe # "merge"
    <3>1. After(p) = "pick"
      BY <1>1, <2>1, <2>3 DEF After
    <3> QED BY <2>1, <3>1, <1>1
  <2> QED BY <2>2, <2>3
<1>2. CASE Works(p)
  <2>1. IsPool /\ ~Dispatches(p)
    BY <1>2 DEF Dispatches, Works
  <2>2. CASE recipe = "merge"
    BY <1>2, <2>1, <2>2 DEF After, IsPool
  <2>3. CASE recipe # "merge"
    <3>1. After(p) = "handle"
      BY <1>2, <2>1, <2>3 DEF After
    <3> QED BY <2>1, <3>1, <1>2
  <2> QED BY <2>2, <2>3
<1>3. CASE ~IsPool
  <2>1. ~Works(p) /\ ~Dispatches(p)
    BY <1>3 DEF Dispatches, Works
  <2>2. CASE recipe = "merge"
    BY <2>1, <2>2, <1>3 DEF After
  <2>3. CASE recipe # "merge"
    BY <2>1, <2>3, <1>3 DEF After
  <2> QED BY <2>2, <2>3
<1>4. IsPool => Dispatches(p) \/ Works(p)
  BY DEF Dispatches, Works
<1> QED BY <1>1, <1>2, <1>3, <1>4

LEMMA TakesInv == ASSUME Inv, NEW p \in Started, Takes(p) PROVE Inv'
<1>1. /\ p \in Tasks /\ pc \in [Tasks -> Places] /\ taken \in [Chans -> Nat] /\ item \in [Tasks -> Items \cup {None}]
      /\ pc[p] \in {"parked", "receive"}
  BY StartedFacts DEF Takes, Inv, Shape
<1>2. In(p) \in Inputs /\ In(p) \in Chans /\ In(p) # Ready
  BY StartedFacts, ChanFacts
<1>3. Oldest(In(p)) \in Items /\ Oldest(In(p)) # None
  <2>1. Oldest(In(p)) \in Items
    BY <1>2, OldestType DEF Takes, Inv, Kind
  <2>2. \A x \in Items : x # None
    BY ItemNotNone
  <2> QED BY <2>1, <2>2
<1>4. /\ taken' \in [Chans -> Nat] /\ taken'[In(p)] = taken[In(p)] + 1 /\ \A c \in Chans \ {In(p)} : taken'[c] = taken[c]
      /\ \A c \in Chans : taken'[c] \in {taken[c], taken[c] + 1}
  BY <1>1, <1>2 DEF Takes
<1>5. /\ item' \in [Tasks -> Items \cup {None}] /\ item'[p] = Oldest(In(p)) /\ \A q \in Tasks \ {p} : item'[q] = item[q]
  BY <1>1, <1>3 DEF Takes
<1>6. CASE recipe = "select"
  <2>1. /\ winner' = IF winner = None THEN item'[p] ELSE winner
        /\ cancelled' = TRUE
        /\ Ends(p) /\ UNCHANGED <<args, log, todo, recvOpen, idx, outer, failed, over>>
    BY <1>6 DEF Takes
  <2>2. winner' # None
    BY <1>3, <1>5, <2>1
  <2>3. {cancelled', outer'} \subseteq BOOLEAN /\ cancelled' /\ outer' = outer
    BY <2>1 DEF Inv, Shape
  <2>4. Shape' /\ (\A q \in Started : TaskOK(q))' /\ ClosedOK' /\ (over => \A q \in Started : pc[q] = "done")'
    BY <1>1, <1>4, <1>5, <2>1, <2>3, Ending
  <2>5. GroupOK'
    BY <2>1, <2>2, <2>4 DEF Inv, GroupOK
  <2> QED BY <2>4, <2>5 DEF Inv
<1>7. CASE recipe # "select"
  <2>1. /\ pc' = [pc EXCEPT ![p] = After(p)] /\ todo' = [todo EXCEPT ![p] = Targets]
        /\ UNCHANGED <<args, log, recvOpen, idx, outer, failed, over, winner, cancelled, sendOpen>>
    BY <1>7 DEF Takes
  <2>2. After(p) \in {"pick", "handle", "lock", "send"}
    BY AfterFacts
  <2>3. pc' \in [Tasks -> Places] /\ pc'[p] = After(p) /\ \A q \in Tasks \ {p} : pc'[q] = pc[q]
    BY <1>1, <2>1, <2>2 DEF Places
  <2>4. todo' = [q \in Tasks |-> todo'[q]] /\ todo'[p] = Targets /\ \A q \in Tasks \ {p} : todo'[q] = todo[q]
    BY <1>1, <2>1 DEF Inv, Shape
  <2>5. Shape'
    BY <1>4, <1>5, <2>1, <2>3, <2>4 DEF Inv, Shape, Kind
  <2>6. TaskOK(p)'
    <3>1. recipe' = recipe /\ idx \in Ids
      BY <2>1 DEF args, Inv, Shape
    <3>2. item'[p] # None
      BY <1>3, <1>5
    <3>3. CASE IsPool
      <4>1. (pc'[p] = "pick" /\ Dispatches(p)) \/ (pc'[p] = "handle" /\ Works(p))
        BY <2>3, <3>3, AfterFacts
      <4> QED BY <3>1, <3>2, <4>1, SameRecipe DEF TaskOK
    <3>4. CASE ~IsPool
      <4>1. Targets \subseteq Dests /\ pc'[p] \in {"lock", "send"}
        BY <1>7, <2>3, <3>1, <3>4, DestFacts, AfterFacts
      <4>2. Outgoing(p)'
        BY <2>4, <3>1, <3>2, <3>4, <4>1, SameRecipe DEF Outgoing
      <4> QED BY <4>1, <4>2 DEF TaskOK
    <3> QED BY <3>3, <3>4
  <2>7. StaysShut
    BY <1>4, <2>1, TakingShuts, ChanFacts DEF Inv
  <2>8. ~IsPool => \A c \in Jobs : ~Pending(c)'
    <3>1. ~IsPool => \A c \in Jobs : taken'[c] = taken[c]
      BY <1>4, StartedFacts, ChanFacts
    <3> QED BY <2>1, <3>1 DEF Inv, ClosedOK, Pending
  <2>9. pc[p] # "done" /\ pc'[p] # "done"
    BY <1>1, <2>2, <2>3
  <2> QED BY <1>5, <2>1, <2>3, <2>4, <2>5, <2>6, <2>7, <2>8, <2>9, Moving
<1> QED BY <1>6, <1>7

\* A send of the dispatcher finds its job channel open, since only it closes them;
\* other sends go to channels no task of the group reads but the dispatcher's ready.
LEMMA SendsInv == ASSUME Inv, NEW p \in Started, NEW c \in Chans, Sends(p, c) PROVE Inv'
<1> DEFINE left == todo[p] \ {c}
           announce == Works(p) /\ c # Ready
<1>1. p \in Tasks /\ pc[p] = "send" /\ c \in todo[p] /\ Outgoing(p) /\ pc \in [Tasks -> Places] /\ item \in [Tasks -> Items \cup {None}]
  BY StartedFacts DEF Sends, Inv, TaskOK, Shape
<1>2. /\ log' = [log EXCEPT ![c] = Append(@, IF c = Ready THEN p ELSE item[p])]
      /\ todo' = [todo EXCEPT ![p] = IF announce THEN {Ready} ELSE left]
      /\ pc' = [pc EXCEPT ![p] = IF announce THEN "lock" ELSE IF left = {} THEN "receive" ELSE "send"]
      /\ item' = [item EXCEPT ![p] = IF left = {} THEN None ELSE @]
      /\ idx' = NextIdx
      /\ UNCHANGED <<args, taken, sendOpen, recvOpen, winner, cancelled, outer, failed, over>>
  BY DEF Sends
<1>3. recipe' = recipe
  BY <1>2 DEF args
<1>4. \/ Works(p) /\ c = Ready /\ left = {}
      \/ Works(p) /\ c = Dst(1) /\ item[p] # None /\ left = {} /\ c # Ready
      \/ Dispatches(p) /\ c \in Jobs /\ item[p] # None /\ left = {} /\ c # Ready
      \/ ~IsPool /\ c \in Dests /\ left \subseteq Dests /\ item[p] # None /\ c # Ready
  BY <1>1, OneId, ChanFacts, DestFacts DEF Outgoing
<1>5. /\ log' = [d \in Chans |-> log'[d]] /\ \A d \in Chans \ {c} : log'[d] = log[d]
      /\ log'[c] = Append(log[c], IF c = Ready THEN p ELSE item[p])
  BY <1>2 DEF Inv, Shape
<1>6. log'[c] \in Seq(Kind(c))
  <2>1. CASE c = Ready
    <3>1. p \in Ids
      BY <1>4, <2>1, StartedFacts, ChanFacts DEF Dispatches, Works
    <3>2. log[c] \in Seq(Ids)
      BY <2>1 DEF Inv, Shape, Kind
    <3> QED BY <1>5, <2>1, <3>1, <3>2 DEF Kind
  <2>2. CASE c # Ready
    <3>1. item[p] \in Items
      BY <1>1, <1>4, <2>2
    <3>2. log[c] \in Seq(Items)
      BY <2>2 DEF Inv, Shape, Kind
    <3> QED BY <1>5, <2>2, <3>1, <3>2 DEF Kind
  <2> QED BY <2>1, <2>2
<1>7. NextIdx \in Ids
  BY OneId DEF Inv, Shape, NextIdx, Ids
<1>8. /\ pc' \in [Tasks -> Places] /\ pc'[p] = (IF announce THEN "lock" ELSE IF left = {} THEN "receive" ELSE "send")
      /\ \A q \in Tasks \ {p} : pc'[q] = pc[q]
  BY <1>1, <1>2 DEF Places
<1>9. /\ item' \in [Tasks -> Items \cup {None}] /\ item'[p] = (IF left = {} THEN None ELSE item[p])
      /\ \A q \in Tasks \ {p} : item'[q] = item[q]
  BY <1>1, <1>2
<1>10. /\ todo' = [q \in Tasks |-> todo'[q]] /\ todo'[p] = (IF announce THEN {Ready} ELSE left)
       /\ \A q \in Tasks \ {p} : todo'[q] = todo[q]
  BY <1>1, <1>2 DEF Inv, Shape
<1>11. Shape'
  <2>1. \A d \in Chans : log'[d] \in Seq(Kind(d))
    BY <1>5, <1>6 DEF Inv, Shape
  <2>2. (\A d \in Chans : log[d] \in Seq(Kind(d)))'
    BY <2>1 DEF Kind
  <2> QED BY <1>2, <1>5, <1>7, <1>8, <1>9, <1>10, <2>2 DEF Inv, Shape
<1>12. TaskOK(p)'
  <2>1. CASE announce
    <3>1. pc'[p] = "lock" /\ todo'[p] = {Ready} /\ Works(p)'
      BY <1>3, <1>8, <1>10, <2>1, SameRecipe
    <3>2. Outgoing(p)'
      BY <3>1 DEF Outgoing
    <3> QED BY <3>1, <3>2 DEF TaskOK
  <2>2. CASE ~announce /\ left = {}
    BY <1>8, <1>9, <2>2 DEF TaskOK
  <2>3. CASE ~announce /\ left # {}
    <3>1. pc'[p] = "send" /\ todo'[p] = left /\ item'[p] # None /\ ~IsPool /\ left \subseteq Dests
      BY <1>4, <1>8, <1>9, <1>10, <2>3
    <3>2. Outgoing(p)'
      BY <1>3, <3>1, SameRecipe DEF Outgoing
    <3> QED BY <3>1, <3>2 DEF TaskOK
  <2> QED BY <2>1, <2>2, <2>3
<1>13. c \notin Inputs \/ (IsPool /\ c \in Jobs /\ sendOpen[c])
  <2>1. CASE Dispatches(p)
    <3>1. p = 0 /\ IsPool /\ c \in Jobs
      BY <1>4, <2>1 DEF Dispatches, Works
    <3> QED BY <1>1, <3>1 DEF Inv, ClosedOK
  <2>2. CASE ~Dispatches(p)
    BY <1>4, <2>2, OneId, ChanFacts, DestFacts
  <2> QED BY <2>1, <2>2
<1>14. StaysShut
  BY <1>2, <1>5, <1>13, ChanFacts DEF StaysShut, Shut, Pending
<1>15. ~IsPool => \A d \in Jobs : ~Pending(d)'
  <2>1. ~IsPool => \A d \in Jobs : log'[d] = log[d]
    BY <1>5, <1>13, ChanFacts DEF Inputs
  <2> QED BY <1>2, <2>1 DEF Inv, ClosedOK, Pending
<1>16. pc[p] # "done" /\ pc'[p] # "done"
  BY <1>1, <1>8
<1> QED BY <1>2, <1>8, <1>9, <1>10, <1>11, <1>12, <1>14, <1>15, <1>16, Moving

-----------------------------------------------------------------------------
(* The theorem.                                                              *)

LEMMA InvStep == Inv /\ [Next]_vars => Inv'
<1> SUFFICES ASSUME Inv, [Next]_vars PROVE Inv'
  OBVIOUS
<1>1. ASSUME NEW s \in Sources, Produce(s) \/ CloseSource(s) PROVE Inv'
  BY <1>1, ProduceInv, CloseSourceInv
<1>2. ASSUME NEW c \in Dests, Consume(c) \/ CloseDest(c) PROVE Inv'
  BY <1>2, ConsumeInv, CloseDestInv
<1>3. CASE CancelOutside \/ Finally
  BY <1>3, CancelOutsideInv, FinallyInv
<1>4. ASSUME NEW p \in Started, Step(p) PROVE Inv'
  <2>1. CASE HandleFatal(p)
    BY <2>1, RaisesInv DEF HandleFatal
  <2>2. CASE Refused(p)
    BY <2>2, RaisesInv DEF Refused
  <2>3. CASE Parks(p) \/ Drained(p) \/ Takes(p) \/ Picks(p)
    BY <2>3, ParksInv, DrainedInv, TakesInv, PicksInv
  <2>4. CASE Handles(p) \/ Locks(p) \/ Cancelled(p)
    BY <2>4, HandlesInv, LocksInv, CancelledInv
  <2>5. CASE \E c \in Chans : Sends(p, c)
    BY <2>5, SendsInv
  <2> QED BY <1>4, <2>1, <2>2, <2>3, <2>4, <2>5 DEF Step
<1>5. CASE UNCHANGED vars
  <2>1. Shape' /\ StaysShut
    BY <1>5 DEF Inv, Shape, Kind, StaysShut, Shut, Pending, vars
  <2> QED BY <1>5, <2>1, Outside DEF vars, args
<1> QED BY <1>1, <1>2, <1>3, <1>4, <1>5 DEF Next

\* A recipe that returned and was not cancelled has drained its inputs: every
\* source is read by a task that has seen its end, and so is every job channel.
LEMMA InvEnd == Inv => EndMeansAll
<1> SUFFICES ASSUME Inv PROVE EndMeansAll
  OBVIOUS
<1>1. ASSUME over, ~outer, failed = "none", winner = None
      PROVE  /\ \A s \in Sources : ~sendOpen[Src(s)] /\ ~Pending(Src(s))
             /\ \A p \in Started : item[p] = None
             /\ \A c \in Jobs : ~Pending(c)
  <2>1. ~cancelled /\ \A p \in Started : pc[p] = "done"
    BY <1>1 DEF Inv, GroupOK
  <2>2. \A p \in Started : ~Pending(In(p)) /\ ~sendOpen[In(p)] /\ item[p] = None
    BY <2>1 DEF Inv, TaskOK
  <2>3. ASSUME NEW s \in Sources PROVE \E p \in Started : In(p) = Src(s)
    <3>1. CASE IsPool
      <4>1. s = 1 /\ 0 \in Started /\ In(0) = Src(1)
        BY <3>1, StartedFacts DEF Sources, IsPool, In, Works, Dispatches
      <4> QED BY <4>1
    <3>2. CASE ~IsPool
      BY <3>2 DEF Started, In, Works, Dispatches
    <3> QED BY <3>1, <3>2
  <2>4. ASSUME NEW c \in Jobs PROVE ~Pending(c)
    <3>1. CASE IsPool
      <4>1. PICK i \in Ids : c = Job(i)
        BY DEF Jobs
      <4>2. i \in Started /\ i # 0 /\ In(i) = c
        BY <3>1, <4>1, StartedFacts DEF In, Works, Ids
      <4> QED BY <2>2, <4>2
    <3>2. CASE ~IsPool
      BY <3>2 DEF Inv, ClosedOK
    <3> QED BY <3>1, <3>2
  <2> QED BY <2>2, <2>3, <2>4
<1> QED BY <1>1 DEF Inv, ClosedOK, GroupOK, EndMeansAll

\* For any number of sources, destinations and workers, whatever is closed,
\* cancelled or raised: destinations see the end of the stream exactly if the
\* recipe is over and was asked to close them, except that a worker_pool that is
\* cancelled from outside leaves results open (worker_pool.py:87-89); a recipe
\* that returns normally has moved every item of sources that were closed, so no
\* item is in a task or in a worker's queue; and SendGate keeps ChannelInUse away.
\* (_flow.py, merge.py, load_balance.py, fanout.py, worker_pool.py, select.py)
THEOREM RecipesDeliverBeforeTheEnd == Spec => []EndMeansAll
<1>1. Spec => []Inv
  BY InitInv, InvStep, PTL DEF Spec
<1> QED BY <1>1, InvEnd, PTL

-----------------------------------------------------------------------------
(* Where every item is.                                                      *)

\* A slot is a position in a worker's queue that was not received yet, or one in
\* the output.  An item that was received is with one task or in one slot, and
\* no other item is anywhere; tee, which copies items, is a case of its own.
Outs == Jobs \cup Dests
Live(c) == {i \in DOMAIN log[c] : c \in Jobs => taken[c] < i}
At(c, i, x) == i \in Live(c) /\ log[c][i] = x
Slots(x) == {k \in Outs \X Nat : At(k[1], k[2], x)}
Nowhere(x) == Holders(x) = {} /\ Slots(x) = {}
OneSpot(x) ==
    \/ (\E p \in Started : Holders(x) = {p}) /\ Slots(x) = {}
    \/ Holders(x) = {} /\ \E k : Slots(x) = {k}
SpotsOK == recipe # "tee" => \A x \in Items : IF x \in Received THEN OneSpot(x) ELSE Nowhere(x)

\* The items of a source are numbered as they are sent, and bounded.
SourceOK ==
    /\ MaxItems[recipe] \in Nat
    /\ \A c \in Inputs : taken[c] <= Len(log[c])
    /\ \A s \in Ids : /\ Len(log[Src(s)]) <= MaxItems[recipe]
                      /\ \A i \in DOMAIN log[Src(s)] : log[Src(s)][i] = <<s, i>>

\* What the tasks send to next: a worker that announces itself has sent its result.
TodoOf(p) == pc[p] \in {"lock", "send"} =>
    /\ Works(p) /\ todo[p] = {Ready} => item[p] = None
    /\ ~IsPool => todo[p] \subseteq Targets
TodoOK == \A p \in Started : TodoOf(p)

\* A task that reads its own source holds the last item it received, ...
OwnOK == ~IsPool => \A p \in Started : item[p] # None => item[p] = <<p, taken[Src(p)]>>

\* ... tee has sent the items so far to all destinations but those it still owes, ...
Owed(c) == item[1] # None /\ c \in todo[1]
Owes(c) == IF Owed(c) THEN 1 ELSE 0
TeeOK == recipe = "tee" => \A c \in Dests :
    /\ taken[Src(1)] = Len(log[c]) + Owes(c)
    /\ \A i \in DOMAIN log[c] : log[c][i] = <<1, i>>

\* ... the others send the items of one source in order, ...
Sorted(c) == \A j \in DOMAIN log[c] : \A i \in 1..j - 1 : log[c][i][1] = log[c][j][1] => log[c][i][2] < log[c][j][2]
Earlier(c) == \A j \in DOMAIN log[c] : \A s \in Started : log[c][j][1] = s =>
    log[c][j][2] <= taken[Src(s)] /\ (item[s] # None => log[c][j][2] < taken[Src(s)])
OrderOK == ~IsPool /\ recipe # "tee" => \A c \in Dests : Sorted(c) /\ Earlier(c)

\* ... and load_balance has dealt r rounds, and those before idx have one more.
DealtOK == recipe = "load_balance" =>
    \E r \in Nat :
       /\ taken[Src(1)] = r * N + idx - 1 + (IF item[1] # None THEN 1 ELSE 0)
       /\ \A i \in Ids : /\ Len(log[Dst(i)]) = IF i < idx THEN r + 1 ELSE r
                         /\ \A j \in DOMAIN log[Dst(i)] : log[Dst(i)][j] = <<1, (j - 1) * N + i>>

RInv == Inv /\ SpotsOK /\ SourceOK /\ TodoOK /\ OwnOK /\ TeeOK /\ OrderOK /\ DealtOK

-----------------------------------------------------------------------------
(* Items, sequences and slots.                                               *)

LEMMA ItemFacts ==
    /\ \A x \in Items : x # None /\ x = <<x[1], x[2]>> /\ x[1] \in Ids /\ x[2] \in Nat
    /\ \A s \in Ids, n \in Nat : <<s, n>> \in Items
    /\ \A x \in Received : x \in Items
<1>1. \A x \in Items : x # None
  BY ItemNotNone
<1>2. Sources \subseteq Ids /\ \A n \in 1..MaxItems[recipe] : n \in Nat
  BY StartedFacts
<1>3. \A x \in Received : x \in Items
  BY <1>2 DEF Received, Items
<1> QED BY <1>1, <1>3 DEF Items

LEMMA ReceivedFacts ==
    ASSUME NEW s, NEW n
    PROVE  <<s, n>> \in Received <=> s \in Sources /\ n \in 1..MaxItems[recipe] /\ n <= taken[Src(s)]
  BY DEF Received

LEMMA AppendFacts ==
    ASSUME NEW S, NEW q \in Seq(S), NEW x \in S
    PROVE  /\ Append(q, x) \in Seq(S) /\ DOMAIN q = 1..Len(q) /\ Len(q) \in Nat
           /\ Len(Append(q, x)) = Len(q) + 1 /\ DOMAIN Append(q, x) = 1..Len(q) + 1
           /\ \A i \in 1..Len(q) : Append(q, x)[i] = q[i]
           /\ Append(q, x)[Len(q) + 1] = x
  BY SMTT(60)

LEMMA OutFacts ==
    /\ Outs \subseteq Chans /\ Jobs \subseteq Outs /\ Dests \subseteq Outs /\ Ready \notin Outs
    /\ \A c \in Dests : c \notin Jobs /\ c \notin Inputs /\ c \in Chans
    /\ \A i \in Ids : Src(i) \notin Outs
  BY DestFacts, ChanFacts DEF Outs, Inputs

LEMMA LogFacts ==
    ASSUME Shape
    PROVE  /\ \A c \in Outs : log[c] \in Seq(Items) /\ DOMAIN log[c] = 1..Len(log[c]) /\ Len(log[c]) \in Nat /\ taken[c] \in Nat
           /\ \A s \in Ids : /\ log[Src(s)] \in Seq(Items) /\ DOMAIN log[Src(s)] = 1..Len(log[Src(s)])
                             /\ Len(log[Src(s)]) \in Nat /\ taken[Src(s)] \in Nat
<1>1. ASSUME NEW c \in Chans, c # Ready
      PROVE  log[c] \in Seq(Items) /\ DOMAIN log[c] = 1..Len(log[c]) /\ Len(log[c]) \in Nat /\ taken[c] \in Nat
  BY <1>1 DEF Shape, Kind
<1> QED BY <1>1, OutFacts, ChanFacts

LEMMA SlotFacts ==
    ASSUME Shape, NEW x
    PROVE  /\ \A c \in Outs : \A i : <<c, i>> \in Slots(x) <=> At(c, i, x)
           /\ \A k \in Slots(x) : \E c \in Outs : \E i \in Nat : k = <<c, i>> /\ At(c, i, x)
<1>1. ASSUME NEW c \in Outs, NEW i, At(c, i, x) PROVE i \in Nat
  BY <1>1, LogFacts DEF At, Live
<1>2. ASSUME NEW c \in Outs, NEW i PROVE <<c, i>> \in Slots(x) <=> At(c, i, x)
  BY <1>1 DEF Slots
<1>3. ASSUME NEW k \in Slots(x) PROVE \E c \in Outs : \E i \in Nat : k = <<c, i>> /\ At(c, i, x)
  BY DEF Slots
<1> QED BY <1>2, <1>3

\* Slots change when what is at them does.
LEMMA SameSlots ==
    ASSUME Shape, Shape', recipe' = recipe, NEW x, \A c \in Outs : \A i \in Nat : At(c, i, x)' <=> At(c, i, x)
    PROVE  Slots(x)' = Slots(x)
<1>1. Outs' = Outs
  BY SameRecipe DEF Outs
<1> QED BY <1>1 DEF Slots

LEMMA RInvInit == Init => RInv
<1> SUFFICES ASSUME Init PROVE RInv
  OBVIOUS
<1>1. Inv
  BY InitInv
<1>2. \A c \in Chans : log[c] = <<>> /\ taken[c] = 0 /\ DOMAIN log[c] = {} /\ Len(log[c]) = 0
  <2>1. DOMAIN <<>> = {} /\ Len(<<>>) = 0
    OBVIOUS
  <2> QED BY <2>1 DEF Init
<1>3. \A p \in Started : item[p] = None
  BY StartedFacts DEF Init
<1>4. Outs \subseteq Chans /\ Dests \subseteq Chans /\ (\A s \in Ids : Src(s) \in Chans /\ Dst(s) \in Chans) /\ Inputs \subseteq Chans
  BY OutFacts, ChanFacts
<1>5. SpotsOK
  <2> SUFFICES ASSUME NEW x \in Items PROVE x \notin Received /\ Nowhere(x)
    BY DEF SpotsOK
  <2>1. x \notin Received
    <3> SUFFICES ASSUME x \in Received PROVE FALSE
      OBVIOUS
    <3>1. x[2] \in 1..MaxItems[recipe] /\ x[2] <= taken[Src(x[1])] /\ x[1] \in Ids
      BY StartedFacts DEF Received
    <3> QED BY <1>2, <1>4, <3>1
  <2>2. Holders(x) = {}
    BY <1>3, ItemFacts DEF Holders
  <2>3. Slots(x) = {}
    BY <1>2, <1>4 DEF Slots, At, Live
  <2> QED BY <2>1, <2>2, <2>3 DEF Nowhere
<1>6. SourceOK
  <2>1. MaxItems[recipe] \in Nat
    BY RoutingAssumption DEF Init
  <2>2. \A n \in Nat : 0 <= n
    OBVIOUS
  <2> QED BY <1>2, <1>4, <2>1, <2>2 DEF SourceOK
<1>7. TodoOK /\ OwnOK
  <2>1. ASSUME NEW p \in Started PROVE TodoOf(p)
    <3>1. p \in Tasks /\ (pc[p] = "lock" => Works(p)) /\ pc[p] \in {"lock", "receive"}
      BY StartedFacts DEF Init
    <3>2. Works(p) => IsPool
      BY DEF Works
    <3> QED BY <1>3, <3>1, <3>2 DEF TodoOf
  <2> QED BY <1>3, <2>1 DEF TodoOK, OwnOK
<1>8. TeeOK
  <2>1. item[1] = None /\ taken[Src(1)] = 0
    BY <1>2, <1>4, OneId, StartedFacts DEF Init
  <2>2. ASSUME NEW c \in Dests
        PROVE  taken[Src(1)] = Len(log[c]) + Owes(c) /\ DOMAIN log[c] = {}
    <3>1. Len(log[c]) = 0 /\ DOMAIN log[c] = {} /\ Owes(c) = 0
      BY <1>2, <1>4, <2>1 DEF Owed, Owes
    <3> QED BY <2>1, <3>1
  <2> QED BY <2>2 DEF TeeOK
<1>9. OrderOK
  BY <1>2, <1>4 DEF OrderOK, Sorted, Earlier
<1>10. DealtOK
  <2>1. taken[Src(1)] = 0 /\ item[1] = None /\ idx = 1
    BY <1>2, <1>4, OneId, StartedFacts DEF Init
  <2>2. 0 * N = 0
    BY OneId
  <2>3. taken[Src(1)] = 0 * N + idx - 1 + (IF item[1] # None THEN 1 ELSE 0)
    BY <2>1, <2>2
  <2>4. \A i \in Ids : ~(i < idx)
    BY <2>1 DEF Ids
  <2> QED BY <1>2, <1>4, <2>3, <2>4 DEF DealtOK
<1> QED BY <1>1, <1>5, <1>6, <1>7, <1>8, <1>9, <1>10 DEF RInv

\* What the invariant says of one place, RoutedOnce says by counting.
LEMMA CountOne ==
    ASSUME Shape, NEW x, NEW c \in Outs, NEW i, \A j : At(c, j, x) <=> j = i
    PROVE  (c \in Dests => Count(x, c) = 1) /\ (c \in Jobs => Queued(x, c))
<1>1. log[c] \in Seq(Items) /\ DOMAIN log[c] = 1..Len(log[c]) /\ Len(log[c]) \in Nat /\ taken[c] \in Nat
  BY LogFacts
<1>2. ASSUME c \in Dests PROVE Count(x, c) = 1
  <2>1. c \notin Jobs
    BY <1>2, OutFacts
  <2>2. {j \in DOMAIN log[c] : log[c][j] = x} = {i}
    BY <2>1 DEF At, Live
  <2> QED BY <2>2, FS_Singleton DEF Count
<1>3. ASSUME c \in Jobs PROVE Queued(x, c)
  <2>1. At(c, i, x)
    OBVIOUS
  <2>2. i \in 1..Len(log[c]) /\ taken[c] < i /\ log[c][i] = x
    BY <1>1, <1>3, <2>1 DEF At, Live
  <2>3. i \in taken[c] + 1..Len(log[c])
    BY <1>1, <2>2
  <2> QED BY <2>2, <2>3 DEF Queued
<1> QED BY <1>2, <1>3

LEMMA CountNone ==
    ASSUME Shape, NEW x, NEW c \in Outs, \A j : ~At(c, j, x)
    PROVE  (c \in Dests => Count(x, c) = 0) /\ (c \in Jobs => ~Queued(x, c))
<1>1. log[c] \in Seq(Items) /\ DOMAIN log[c] = 1..Len(log[c]) /\ Len(log[c]) \in Nat /\ taken[c] \in Nat
  BY LogFacts
<1>2. ASSUME c \in Dests PROVE Count(x, c) = 0
  <2>1. c \notin Jobs
    BY <1>2, OutFacts
  <2>2. {j \in DOMAIN log[c] : log[c][j] = x} = {}
    BY <2>1 DEF At, Live
  <2> QED BY <2>2, FS_EmptySet DEF Count
<1>3. ASSUME c \in Jobs PROVE ~Queued(x, c)
  <2>1. ASSUME NEW j \in taken[c] + 1..Len(log[c]) PROVE j \in DOMAIN log[c] /\ taken[c] < j
    BY <1>1, <2>1
  <2> QED BY <2>1 DEF Queued, At, Live
<1> QED BY <1>2, <1>3

LEMMA CountedOnce ==
    ASSUME Shape, NEW x, OneSpot(x)
    PROVE  Cardinality(Holders(x) \cup {c \in Jobs : Queued(x, c)} \cup {c \in Dests : Count(x, c) = 1}) = 1
<1> DEFINE queues == {c \in Jobs : Queued(x, c)}
           outputs == {c \in Dests : Count(x, c) = 1}
<1>1. ASSUME NEW c \in Outs, \A j : ~At(c, j, x) PROVE c \notin queues /\ c \notin outputs
  BY <1>1, CountNone
<1>2. queues \cup outputs \subseteq Outs
  BY OutFacts
<1>3. CASE \E p \in Started : Holders(x) = {p} /\ Slots(x) = {}
  <2>1. queues = {} /\ outputs = {}
    BY <1>1, <1>2, <1>3, SlotFacts
  <2>2. PICK p \in Started : Holders(x) = {p}
    BY <1>3
  <2>3. Holders(x) \cup queues \cup outputs = {p}
    BY <2>1, <2>2
  <2> QED BY <2>3, FS_Singleton
<1>4. CASE Holders(x) = {} /\ \E k : Slots(x) = {k}
  <2>1. PICK k : Slots(x) = {k}
    BY <1>4
  <2>2. PICK c \in Outs, i \in Nat : k = <<c, i>>
    BY <2>1, SlotFacts
  <2>3. \A j : At(c, j, x) <=> j = i
    <3> SUFFICES ASSUME NEW j PROVE At(c, j, x) <=> j = i
      OBVIOUS
    <3>1. At(c, j, x) <=> <<c, j>> \in Slots(x)
      BY SlotFacts
    <3>2. <<c, j>> = <<c, i>> <=> j = i
      OBVIOUS
    <3> QED BY <2>1, <2>2, <3>1, <3>2
  <2>4. \A d \in Outs \ {c} : \A j : ~At(d, j, x)
    BY <2>1, <2>2, SlotFacts
  <2>5. (c \in Dests => Count(x, c) = 1) /\ (c \in Jobs => Queued(x, c))
    BY <2>3, CountOne
  <2>6. c \in queues \cup outputs
    BY <2>5 DEF Outs
  <2>7. \A d \in Outs \ {c} : d \notin queues \cup outputs
    BY <1>1, <2>4
  <2>8. Holders(x) \cup queues \cup outputs = {c}
    BY <1>2, <1>4, <2>6, <2>7
  <2> QED BY <2>8, FS_Singleton
<1> QED BY <1>3, <1>4 DEF OneSpot

\* tee: an item is missing from the destinations it is owed to, and from no other.
LEMMA TeeCounts ==
    ASSUME RInv, recipe = "tee", NEW x \in Received, NEW c \in Dests
    PROVE  Count(x, c) = IF item[1] = x /\ c \in todo[1] THEN 0 ELSE 1
<1>1. Started = {1} /\ ~IsPool /\ Sources = {1} /\ c \in Outs /\ 1 \in Ids
  BY OneId, OutFacts DEF Started, Sources, IsPool
<1>2. PICK n \in Nat : x = <<1, n>> /\ 1 <= n /\ n <= taken[Src(1)]
  <2>1. x[1] = 1 /\ x = <<x[1], x[2]>> /\ x[2] \in 1..MaxItems[recipe] /\ x[2] <= taken[Src(x[1])]
    BY <1>1 DEF Received
  <2> QED BY <2>1
<1>3. /\ taken[Src(1)] \in Nat /\ DOMAIN log[c] = 1..Len(log[c]) /\ Len(log[c]) \in Nat
      /\ taken[Src(1)] = Len(log[c]) + (IF Owed(c) THEN 1 ELSE 0)
      /\ \A i \in DOMAIN log[c] : log[c][i] = <<1, i>>
  BY <1>1, LogFacts DEF RInv, Inv, TeeOK, Owes
<1>4. item[1] # None => item[1] = <<1, taken[Src(1)]>>
  BY <1>1 DEF RInv, OwnOK
<1>5. x # None
  BY ItemFacts
<1>6. CASE item[1] = x /\ c \in todo[1]
  <2>1. n = Len(log[c]) + 1
    BY <1>2, <1>3, <1>4, <1>5, <1>6 DEF Owed
  <2>2. {i \in DOMAIN log[c] : log[c][i] = x} = {}
    BY <1>2, <1>3, <2>1
  <2> QED BY <1>6, <2>2, FS_EmptySet DEF Count
<1>7. CASE ~(item[1] = x /\ c \in todo[1])
  <2>1. n \in DOMAIN log[c]
    <3>1. CASE Owed(c)
      <4>1. item[1] = <<1, taken[Src(1)]>> /\ item[1] # x
        BY <1>4, <1>7, <3>1 DEF Owed
      <4>2. n # taken[Src(1)]
        BY <1>2, <4>1
      <4> QED BY <1>2, <1>3, <3>1, <4>2
    <3>2. CASE ~Owed(c)
      BY <1>2, <1>3, <3>2
    <3> QED BY <3>1, <3>2
  <2>2. {i \in DOMAIN log[c] : log[c][i] = x} = {n}
    <3>1. \A i : <<1, i>> = <<1, n>> <=> i = n
      OBVIOUS
    <3> QED BY <1>2, <1>3, <2>1, <3>1
  <2>3. Cardinality({n}) = 1
    BY FS_Singleton
  <2> QED BY <1>7, <2>2, <2>3 DEF Count
<1> QED BY <1>6, <1>7

\* What select() returns, if any of its racers received an item.
WinnerOK == recipe = "select" => IF Received = {} THEN winner = None ELSE winner \in Received

LEMMA RInvRouted == RInv /\ WinnerOK => RoutedOnce
<1> SUFFICES ASSUME RInv, WinnerOK PROVE RoutedOnce
  OBVIOUS
<1> USE DEF RInv, Inv
<1>1. ASSUME NEW x \in Received, recipe # "tee"
      PROVE  Cardinality(Holders(x) \cup {c \in Jobs : Queued(x, c)} \cup {c \in Dests : Count(x, c) = 1}) = 1
  BY <1>1, ItemFacts, CountedOnce DEF SpotsOK
<1>2. ASSUME NEW c \in Dests, NEW j \in DOMAIN log[c] PROVE log[c][j] \in Received
  <2>1. c \in Outs /\ c \notin Jobs /\ log[c] \in Seq(Items) /\ j \in 1..Len(log[c]) /\ Len(log[c]) \in Nat
    BY LogFacts, OutFacts
  <2>2. CASE recipe # "tee"
    <3>1. log[c][j] \in Items
      BY <2>1
    <3>2. At(c, j, log[c][j])
      BY <2>1 DEF At, Live
    <3>3. Slots(log[c][j]) # {}
      BY <2>1, <3>2, SlotFacts
    <3> QED BY <2>2, <3>1, <3>3 DEF SpotsOK, Nowhere
  <2>3. CASE recipe = "tee"
    <3>1. log[c][j] = <<1, j>> /\ (taken[Src(1)] = Len(log[c]) + 1 \/ taken[Src(1)] = Len(log[c]) + 0)
      BY <2>3 DEF TeeOK, Owes
    <3>2. taken[Src(1)] \in Nat /\ taken[Src(1)] <= Len(log[Src(1)]) /\ Len(log[Src(1)]) <= MaxItems[recipe] /\ Len(log[Src(1)]) \in Nat
      BY OneId, LogFacts, ChanFacts DEF SourceOK
    <3>3. MaxItems[recipe] \in Int /\ j \in Nat
      BY <2>1 DEF SourceOK
    <3>4. 1 <= j /\ j <= taken[Src(1)] /\ j <= MaxItems[recipe]
      <4>1. Len(log[c]) <= taken[Src(1)] /\ 1 <= j /\ j <= Len(log[c])
        BY <2>1, <3>1, <3>2
      <4> QED BY <2>1, <3>2, <3>3, <4>1
    <3>5. 1 \in Sources
      BY <2>3 DEF Sources
    <3>6. j \in 1..MaxItems[recipe]
      BY <3>3, <3>4
    <3> QED BY <3>1, <3>4, <3>5, <3>6, ReceivedFacts
  <2> QED BY <2>2, <2>3
<1>3. ASSUME NEW c \in Dests, NEW j \in DOMAIN log[c], ~IsPool, NEW i \in 1..j - 1, log[c][i][1] = log[c][j][1]
      PROVE  log[c][i][2] < log[c][j][2]
  <2>1. CASE recipe # "tee"
    BY <1>3, <2>1 DEF OrderOK, Sorted
  <2>2. CASE recipe = "tee"
    <3>1. DOMAIN log[c] = 1..Len(log[c]) /\ Len(log[c]) \in Nat
      BY OutFacts, LogFacts
    <3>2. i \in DOMAIN log[c] /\ i < j
      BY <3>1
    <3>3. log[c][i] = <<1, i>> /\ log[c][j] = <<1, j>>
      BY <2>2, <3>2 DEF TeeOK
    <3> QED BY <3>2, <3>3
  <2> QED BY <2>1, <2>2
<1>4. ASSUME NEW c \in Dests, NEW j \in DOMAIN log[c], recipe = "load_balance" PROVE log[c][j][2] = (j - 1) * N + c[2]
  <2>1. PICK i \in Ids : c = Dst(i)
    BY DestFacts
  <2>2. log[c][j] = <<1, (j - 1) * N + i>>
    BY <1>4, <2>1 DEF DealtOK
  <2>3. c[2] = i
    BY <2>1 DEF Dst
  <2> QED BY <2>2, <2>3
<1>5. \A x \in Received : recipe = "tee" => \A c \in Dests : Count(x, c) = IF item[1] = x /\ c \in todo[1] THEN 0 ELSE 1
  BY TeeCounts
<1>6. recipe = "select" /\ Received # {} => winner \in Received
  BY DEF WinnerOK
<1> QED BY <1>1, <1>2, <1>3, <1>4, <1>5, <1>6 DEF RoutedOnce

-----------------------------------------------------------------------------
(* Steps that move no item.                                                  *)

Quiet ==
    /\ recipe' = recipe /\ idx' = idx /\ item' = item
    /\ \A c \in Outs : log'[c] = log[c]
    /\ \A c \in Jobs : taken'[c] = taken[c]
    /\ \A s \in Ids : taken'[Src(s)] = taken[Src(s)]
    /\ ~IsPool => todo' = todo

LEMMA SameReceived ==
    ASSUME recipe' = recipe, \A s \in Ids : taken'[Src(s)] = taken[Src(s)]
    PROVE  Received' = Received
<1>1. Sources' = Sources /\ Sources \subseteq Ids
  BY SameRecipe, StartedFacts
<1>2. \A x \in Sources \X (1..MaxItems[recipe]) : taken'[Src(x[1])] = taken[Src(x[1])]
  BY <1>1
<1> QED BY <1>1, <1>2 DEF Received

LEMMA QuietKeeps == ASSUME RInv, Inv', Quiet PROVE SpotsOK' /\ OwnOK' /\ TeeOK' /\ OrderOK' /\ DealtOK'
<1> USE DEF Quiet
<1>1. /\ Started' = Started /\ Dests' = Dests /\ (IsPool' <=> IsPool) /\ Outs' = Outs /\ Received' = Received
      /\ Started \subseteq Tasks
  BY SameRecipe, SameReceived, StartedFacts DEF Outs
<1>2. /\ Dests \subseteq Outs /\ \A c \in Dests : log'[c] = log[c]
      /\ ~IsPool => \A p \in Started : p \in Ids /\ taken'[Src(p)] = taken[Src(p)]
  BY OutFacts, StartedFacts
<1>3. SpotsOK'
  <2>1. ASSUME NEW x \in Items PROVE Holders(x)' = Holders(x) /\ Slots(x)' = Slots(x)
    <3>1. \A c \in Outs : \A i \in Nat : At(c, i, x)' <=> At(c, i, x)
      BY DEF At, Live
    <3> QED BY <1>1, <3>1, SameSlots DEF Holders, RInv, Inv
  <2> QED BY <1>1, <2>1 DEF RInv, SpotsOK, OneSpot, Nowhere
<1>4. OwnOK'
  BY <1>1, <1>2 DEF RInv, OwnOK
<1>5. TeeOK'
  <2>1. ASSUME recipe = "tee" PROVE TeeOK'
    <3>1. ~IsPool
      BY <2>1 DEF IsPool
    <3>2. taken'[Src(1)] = taken[Src(1)] /\ todo' = todo
      BY <3>1, OneId
    <3> SUFFICES ASSUME NEW c \in Dests
                 PROVE  taken'[Src(1)] = Len(log'[c]) + Owes(c)' /\ \A i \in DOMAIN log'[c] : log'[c][i] = <<1, i>>
      BY <1>1 DEF TeeOK
    <3>3. Owes(c)' = Owes(c)
      BY <3>2 DEF Owes, Owed
    <3> QED BY <1>2, <2>1, <3>2, <3>3 DEF RInv, TeeOK
  <2> QED BY <2>1 DEF TeeOK
<1>6. OrderOK'
  <2>1. ASSUME ~IsPool, NEW c \in Dests, Sorted(c), Earlier(c) PROVE Sorted(c)' /\ Earlier(c)'
    BY <1>1, <1>2, <2>1 DEF Sorted, Earlier
  <2> QED BY <1>1, <2>1 DEF RInv, OrderOK
<1>7. DealtOK'
  <2>1. ASSUME recipe = "load_balance" PROVE DealtOK'
    <3>1. taken'[Src(1)] = taken[Src(1)] /\ \A i \in Ids : Dst(i) \in Dests
      BY <2>1, OneId DEF Dests
    <3>2. \A i \in Ids : log'[Dst(i)] = log[Dst(i)]
      BY <1>2, <3>1
    <3> QED BY <2>1, <3>1, <3>2 DEF RInv, DealtOK
  <2> QED BY <2>1 DEF DealtOK
<1> QED BY <1>3, <1>4, <1>5, <1>6, <1>7

\* A task keeps its targets until it sends.
LEMMA TodoKept ==
    ASSUME RInv, recipe' = recipe, idx' = idx, NEW p \in Started, TodoOf(p)',
           \A q \in Tasks \ {p} : pc'[q] = pc[q] /\ item'[q] = item[q] /\ todo'[q] = todo[q]
    PROVE  TodoOK'
<1>1. Started' = Started /\ Started \subseteq Tasks /\ (IsPool' <=> IsPool) /\ \A q : Works(q)' <=> Works(q)
  BY SameRecipe, StartedFacts
<1>2. Targets' = Targets
  BY SameRecipe DEF Targets
<1>3. ASSUME NEW q \in Started, q # p PROVE TodoOf(q)'
  BY <1>1, <1>2, <1>3 DEF RInv, TodoOK, TodoOf
<1> QED BY <1>1, <1>3 DEF TodoOK

LEMMA SameSource ==
    ASSUME RInv, recipe' = recipe, \A c \in Inputs : taken'[c] = taken[c] /\ log'[c] = log[c]
    PROVE  SourceOK'
<1>1. \A s \in Ids : log'[Src(s)] = log[Src(s)]
  BY ChanFacts
<1> QED BY <1>1 DEF RInv, SourceOK

LEMMA QuietTask ==
    ASSUME RInv, Inv', NEW p \in Started, UNCHANGED <<args, log, item, idx>>,
           \A c \in Chans \ {Ready} : taken'[c] = taken[c],
           \A q \in Tasks \ {p} : pc'[q] = pc[q] /\ todo'[q] = todo[q], ~IsPool => todo' = todo, TodoOf(p)'
    PROVE  RInv'
<1>1. recipe' = recipe
  BY DEF args
<1>2. \A c \in Inputs : taken'[c] = taken[c]
  BY ChanFacts
<1>3. (\A c \in Jobs : taken'[c] = taken[c]) /\ \A s \in Ids : taken'[Src(s)] = taken[Src(s)]
  BY <1>2, ChanFacts DEF Inputs
<1>4. Quiet
  BY <1>1, <1>3 DEF Quiet
<1>5. SpotsOK' /\ OwnOK' /\ TeeOK' /\ OrderOK' /\ DealtOK'
  BY <1>4, QuietKeeps
<1>6. TodoOK'
  BY <1>1, TodoKept
<1>7. SourceOK'
  BY <1>1, <1>2, SameSource
<1> QED BY <1>5, <1>6, <1>7 DEF RInv

LEMMA QuietOutside ==
    ASSUME RInv, Inv', UNCHANGED <<args, pc, item, todo, idx>>, SourceOK',
           \A c \in Outs : log'[c] = log[c], \A c \in Inputs : taken'[c] = taken[c]
    PROVE  RInv'
<1>1. recipe' = recipe
  BY DEF args
<1>2. Quiet
  <2>1. (\A c \in Jobs : taken'[c] = taken[c]) /\ \A s \in Ids : taken'[Src(s)] = taken[Src(s)]
    BY ChanFacts DEF Inputs
  <2> QED BY <1>1, <2>1 DEF Quiet
<1>3. TodoOK'
  <2>1. Started' = Started /\ (IsPool' <=> IsPool) /\ \A q : Works(q)' <=> Works(q)
    BY <1>1, SameRecipe
  <2>2. Targets' = Targets
    BY <1>1, SameRecipe DEF Targets
  <2> QED BY <2>1, <2>2 DEF RInv, TodoOK, TodoOf
<1> QED BY <1>2, <1>3, QuietKeeps DEF RInv

\* Producers count what they have sent, so no source gets more than the bound.
LEMMA ProduceBound == ASSUME RInv, NEW s \in Ids, Sent < MaxItems[recipe] PROVE Len(log[Src(s)]) + 1 <= MaxItems[recipe]
<1> DEFINE m == MaxItems[recipe]
           all == {x \in Ids \X (1..m) : x[2] <= Len(log[Src(x[1])])}
<1>1. m \in Nat /\ Len(log[Src(s)]) \in Nat /\ Len(log[Src(s)]) <= m
  BY LogFacts DEF RInv, Inv, SourceOK
<1>2. ASSUME ~(Len(log[Src(s)]) + 1 <= m) PROVE FALSE
  <2>1. Len(log[Src(s)]) = m
    BY <1>1, <1>2
  <2>2. {s} \X (1..m) \subseteq all
    BY <1>1, <2>1
  <2>3. IsFiniteSet(Ids) /\ IsFiniteSet(1..m) /\ Cardinality(1..m) = m
    <3>1. 1 \in Int /\ m \in Int /\ N \in Int
      BY <1>1, OneId
    <3>2. IsFiniteSet(1..m) /\ Cardinality(1..m) = IF 1 > m THEN 0 ELSE m - 1 + 1
      BY <3>1, FS_Interval
    <3>3. IsFiniteSet(1..N)
      BY <3>1, FS_Interval
    <3> HIDE DEF m
    <3>4. (IF 1 > m THEN 0 ELSE m - 1 + 1) = m
      BY <1>1
    <3> QED BY <3>2, <3>3, <3>4 DEF Ids
  <2>4. IsFiniteSet(Ids \X (1..m))
    BY <2>3, FS_Product
  <2>5. IsFiniteSet(all)
    BY <2>4, FS_Subset
  <2>6. IsFiniteSet({s}) /\ Cardinality({s}) = 1
    BY FS_Singleton
  <2>7. Cardinality({s} \X (1..m)) = 1 * m
    BY <2>3, <2>6, FS_Product
  <2>8. Cardinality({s} \X (1..m)) <= Cardinality(all) /\ Cardinality(all) \in Nat
    BY <2>2, <2>5, FS_Subset, FS_CardinalityType
  <2>9. Sent = Cardinality(all) /\ Sent < m
    BY DEF Sent
  <2> HIDE DEF m, all
  <2> QED BY <1>1, <2>7, <2>8, <2>9
<1> QED BY <1>2

LEMMA ProduceQuiet == ASSUME RInv, Inv', NEW s \in Sources, Produce(s) PROVE RInv'
<1>1. s \in Ids /\ Src(s) \in Chans /\ Src(s) \notin Outs
  BY StartedFacts, ChanFacts, OutFacts
<1>2. /\ log' = [log EXCEPT ![Src(s)] = Append(@, <<s, Len(@) + 1>>)] /\ Sent < MaxItems[recipe]
      /\ UNCHANGED <<args, taken, pc, item, todo, idx>>
  BY DEF Produce
<1>3. /\ log'[Src(s)] = Append(log[Src(s)], <<s, Len(log[Src(s)]) + 1>>)
      /\ \A c \in Chans \ {Src(s)} : log'[c] = log[c]
  BY <1>1, <1>2 DEF RInv, Inv, Shape
<1>4. log[Src(s)] \in Seq(Items) /\ <<s, Len(log[Src(s)]) + 1>> \in Items
  <2>1. log[Src(s)] \in Seq(Items) /\ Len(log[Src(s)]) \in Nat
    BY <1>1, LogFacts DEF RInv, Inv
  <2>2. Len(log[Src(s)]) + 1 \in Nat
    BY <2>1
  <2> QED BY <1>1, <2>1, <2>2, ItemFacts
<1>5. /\ Len(log'[Src(s)]) = Len(log[Src(s)]) + 1 /\ DOMAIN log'[Src(s)] = 1..Len(log[Src(s)]) + 1 /\ Len(log[Src(s)]) \in Nat
      /\ DOMAIN log[Src(s)] = 1..Len(log[Src(s)])
      /\ \A i \in 1..Len(log[Src(s)]) : log'[Src(s)][i] = log[Src(s)][i]
      /\ log'[Src(s)][Len(log[Src(s)]) + 1] = <<s, Len(log[Src(s)]) + 1>>
  BY <1>3, <1>4, AppendFacts
<1>6. \A c \in Inputs : taken'[c] = taken[c] /\ taken[c] \in Nat /\ taken[c] <= Len(log[c])
  BY <1>2, ChanFacts DEF RInv, Inv, Shape, SourceOK
<1>7. SourceOK'
  <2>1. recipe' = recipe
    BY <1>2 DEF args
  <2>2. ASSUME NEW c \in Inputs PROVE taken'[c] <= Len(log'[c])
    <3>1. CASE c = Src(s)
      BY <1>5, <1>6, <3>1
    <3>2. CASE c # Src(s)
      BY <1>3, <1>6, <3>2, ChanFacts
    <3> QED BY <3>1, <3>2
  <2>3. ASSUME NEW t \in Ids
        PROVE  Len(log'[Src(t)]) <= MaxItems[recipe] /\ \A i \in DOMAIN log'[Src(t)] : log'[Src(t)][i] = <<t, i>>
    <3>1. CASE t = s
      <4>1. Len(log[Src(s)]) + 1 <= MaxItems[recipe]
        BY <1>1, <1>2, ProduceBound
      <4>2. ASSUME NEW i \in 1..Len(log[Src(s)]) + 1 PROVE log'[Src(s)][i] = <<s, i>>
        <5>1. i = Len(log[Src(s)]) + 1 \/ i \in 1..Len(log[Src(s)])
          BY <1>5
        <5>2. i \in 1..Len(log[Src(s)]) => log[Src(s)][i] = <<s, i>>
          BY <1>1, <1>5 DEF RInv, SourceOK
        <5> QED BY <1>5, <5>1, <5>2
      <4> QED BY <1>5, <3>1, <4>1, <4>2
    <3>2. CASE t # s
      <4>1. Src(t) # Src(s) /\ Src(t) \in Chans
        BY <3>2, ChanFacts DEF Src
      <4>2. log'[Src(t)] = log[Src(t)]
        BY <1>3, <4>1
      <4> QED BY <4>2 DEF RInv, SourceOK
    <3> QED BY <3>1, <3>2
  <2> QED BY <2>1, <2>2, <2>3 DEF RInv, SourceOK
<1>8. \A c \in Outs : log'[c] = log[c]
  BY <1>1, <1>3, OutFacts
<1> QED BY <1>2, <1>6, <1>7, <1>8, QuietOutside

LEMMA OutsideQuiet ==
    ASSUME RInv, Inv', UNCHANGED <<args, log, pc, item, todo, idx>>, \A c \in Inputs : taken'[c] = taken[c]
    PROVE  RInv'
<1>1. recipe' = recipe
  BY DEF args
<1>2. SourceOK'
  BY <1>1, SameSource
<1> QED BY <1>2, QuietOutside

LEMMA ConsumeQuiet == ASSUME RInv, Inv', NEW c \in Dests, Consume(c) PROVE RInv'
<1>1. c \notin Inputs
  BY OutFacts
<1>2. \A d \in Inputs : taken'[d] = taken[d]
  BY <1>1, ChanFacts DEF Consume, RInv, Inv, Shape
<1> QED BY <1>2, OutsideQuiet DEF Consume

\* Steps of a task that neither takes nor sends.
LEMMA EndsQuiet ==
    ASSUME RInv, Inv', NEW p \in Started, Ends(p), UNCHANGED <<args, log, taken, item, todo, idx>>
    PROVE  RInv'
<1>1. p \in Tasks /\ pc \in [Tasks -> Places]
  BY StartedFacts DEF RInv, Inv, Shape
<1>2. pc'[p] = "done" /\ \A q \in Tasks \ {p} : pc'[q] = pc[q]
  BY <1>1 DEF Ends
<1>3. TodoOf(p)'
  BY <1>2 DEF TodoOf
<1> QED BY <1>2, <1>3, QuietTask

LEMMA StepQuiet ==
    ASSUME RInv, Inv', NEW p \in Started,
           Parks(p) \/ Drained(p) \/ Picks(p) \/ Handles(p) \/ HandleFatal(p) \/ Locks(p) \/ Refused(p) \/ Cancelled(p)
    PROVE  RInv'
<1>1. p \in Tasks /\ pc \in [Tasks -> Places] /\ todo = [q \in Tasks |-> todo[q]] /\ TodoOf(p) /\ TaskOK(p)
  BY StartedFacts DEF RInv, Inv, Shape, TodoOK
<1>2. CASE Parks(p)
  <2>1. pc'[p] = "parked" /\ \A q \in Tasks \ {p} : pc'[q] = pc[q]
    BY <1>1, <1>2 DEF Parks
  <2>2. TodoOf(p)'
    BY <2>1 DEF TodoOf
  <2> QED BY <1>2, <2>1, <2>2, QuietTask DEF Parks
<1>3. CASE Drained(p) \/ HandleFatal(p) \/ Refused(p) \/ Cancelled(p)
  <2>1. Ends(p) /\ UNCHANGED <<args, log, taken, item, todo, idx>>
    BY <1>3 DEF Drained, HandleFatal, Refused, Cancelled, Raises
  <2> QED BY <2>1, EndsQuiet
<1>4. CASE Picks(p)
  <2>1. IsPool /\ ~Works(p)
    BY <1>1, <1>4 DEF Picks, TaskOK, Dispatches, Works
  <2>2. \A q \in Tasks \ {p} : pc'[q] = pc[q] /\ todo'[q] = todo[q]
    BY <1>1, <1>4 DEF Picks
  <2>3. \A c \in Chans \ {Ready} : taken'[c] = taken[c]
    BY <1>4, ChanFacts DEF Picks, RInv, Inv, Shape
  <2>4. TodoOf(p)'
    <3>1. IsPool' /\ ~Works(p)'
      BY <1>4, <2>1, SameRecipe DEF Picks, args
    <3> QED BY <3>1 DEF TodoOf
  <2> QED BY <1>4, <2>1, <2>2, <2>3, <2>4, QuietTask DEF Picks
<1>5. CASE Handles(p)
  <2>1. IsPool /\ Works(p)
    BY <1>1, <1>5 DEF Handles, TaskOK, Works
  <2>2. (\A q \in Tasks \ {p} : pc'[q] = pc[q] /\ todo'[q] = todo[q]) /\ todo'[p] = {Dst(1)}
    BY <1>1, <1>5 DEF Handles
  <2>3. TodoOf(p)'
    <3>1. IsPool' /\ {Dst(1)} # {Ready}
      BY <1>5, <2>1, SameRecipe, OneId, ChanFacts DEF Handles, args
    <3> QED BY <2>2, <3>1 DEF TodoOf
  <2> QED BY <1>5, <2>1, <2>2, <2>3, QuietTask DEF Handles
<1>6. CASE Locks(p)
  <2>1. CASE \E c \in todo[p] : Sending(c)
    <3>1. Ends(p) /\ UNCHANGED <<args, log, taken, item, todo, idx>>
      BY <1>6, <2>1 DEF Locks, Raises
    <3> QED BY <3>1, EndsQuiet
  <2>2. CASE ~\E c \in todo[p] : Sending(c)
    <3>1. pc[p] = "lock" /\ pc' = [pc EXCEPT ![p] = "send"] /\ UNCHANGED <<args, log, taken, item, todo, idx>>
      BY <1>6, <2>2 DEF Locks
    <3>2. \A q \in Tasks \ {p} : pc'[q] = pc[q]
      BY <1>1, <3>1
    <3>3. TodoOf(p)'
      <4>1. Targets' = Targets /\ (IsPool' <=> IsPool) /\ (Works(p)' <=> Works(p))
        BY <3>1, SameRecipe DEF Targets, args
      <4> QED BY <1>1, <3>1, <4>1 DEF TodoOf
    <3> QED BY <3>1, <3>2, <3>3, QuietTask
  <2> QED BY <2>1, <2>2
<1> QED BY <1>2, <1>3, <1>4, <1>5, <1>6

-----------------------------------------------------------------------------
(* Sending moves an item from a task to a slot.                              *)

LEMMA OneSlot ==
    ASSUME recipe' = recipe, NEW x, NEW c \in Outs, NEW n \in Nat, \A d \in Outs : \A i \in Nat : At(d, i, x)' <=> d = c /\ i = n
    PROVE  Slots(x)' = {<<c, n>>}
<1>1. Outs' = Outs
  BY SameRecipe DEF Outs
<1>2. Slots(x)' = {k \in Outs \X Nat : k[1] = c /\ k[2] = n}
  BY <1>1 DEF Slots
<1> QED BY <1>2

LEMMA NoSlot ==
    ASSUME recipe' = recipe, NEW x, \A d \in Outs : \A i \in Nat : ~At(d, i, x)'
    PROVE  Slots(x)' = {}
<1>1. Outs' = Outs
  BY SameRecipe DEF Outs
<1> QED BY <1>1 DEF Slots

\* One item goes to another place; the others stay.
LEMMA Moved ==
    ASSUME RInv, recipe' = recipe, NEW x \in Items, OneSpot(x)', Received' = Received \cup {x},
           \A y \in Items \ {x} : Holders(y)' = Holders(y) /\ Slots(y)' = Slots(y)
    PROVE  SpotsOK'
<1>1. Started' = Started
  BY SameRecipe
<1>2. ASSUME recipe # "tee", NEW y \in Items, y # x
      PROVE  IF y \in Received' THEN OneSpot(y)' ELSE Nowhere(y)'
  <2>1. (y \in Received' <=> y \in Received) /\ Holders(y)' = Holders(y) /\ Slots(y)' = Slots(y)
    BY <1>2
  <2> QED BY <1>1, <1>2, <2>1 DEF RInv, SpotsOK, OneSpot, Nowhere
<1> QED BY <1>2 DEF SpotsOK

LEMMA SendsSpots ==
    ASSUME RInv, Shape', recipe' = recipe, recipe # "tee", UNCHANGED taken,
           NEW p \in Started, NEW c \in Outs, item[p] # None, item'[p] = None,
           \A q \in Tasks \ {p} : item'[q] = item[q],
           log'[c] = Append(log[c], item[p]), \A d \in Chans \ {c} : log'[d] = log[d]
    PROVE  SpotsOK'
<1>1. p \in Tasks /\ Started \subseteq Tasks /\ Started' = Started
  BY SameRecipe, StartedFacts
<1>2. PICK x \in Items : x = item[p]
  BY <1>1 DEF RInv, Inv, Shape
<1> Outs \subseteq Chans
  BY OutFacts
<1>3. /\ log[c] \in Seq(Items) /\ DOMAIN log[c] = 1..Len(log[c]) /\ Len(log[c]) \in Nat /\ taken[c] \in Nat
      /\ c \in Jobs => taken[c] <= Len(log[c])
  BY LogFacts DEF RInv, Inv, SourceOK, Inputs
<1>4. PICK n \in Nat : n = Len(log[c]) + 1
  BY <1>3
<1>5. n \notin 1..Len(log[c]) /\ (\A i : i \in 1..n <=> i \in 1..Len(log[c]) \/ i = n) /\ (c \in Jobs => taken[c] < n)
  BY <1>3, <1>4
<1>6. DOMAIN log'[c] = 1..n /\ log'[c][n] = x /\ \A i \in 1..Len(log[c]) : log'[c][i] = log[c][i]
  BY <1>2, <1>3, <1>4, AppendFacts
<1>7. ASSUME NEW y \in Items, NEW d \in Outs, NEW i \in Nat
      PROVE  At(d, i, y)' <=> At(d, i, y) \/ (d = c /\ i = n /\ y = x)
  <2>1. CASE d # c
    BY <1>2, <2>1 DEF At, Live
  <2>2. CASE d = c
    <3>1. CASE i = n
      BY <1>3, <1>5, <1>6, <2>2, <3>1 DEF At, Live
    <3>2. CASE i # n
      BY <1>3, <1>5, <1>6, <2>2, <3>2 DEF At, Live
    <3> QED BY <3>1, <3>2
  <2> QED BY <2>1, <2>2
<1>8. x \in Received /\ Holders(x) = {p} /\ Slots(x) = {}
  <2>1. p \in Holders(x)
    BY <1>2 DEF Holders
  <2>2. x \in Received /\ OneSpot(x)
    BY <1>2, <2>1 DEF RInv, SpotsOK, Nowhere
  <2> QED BY <2>1, <2>2 DEF OneSpot
<1>9. OneSpot(x)'
  <2>1. Slots(x)' = {<<c, n>>}
    <3>1. \A d \in Outs : \A i \in Nat : ~At(d, i, x)
      BY <1>8, SlotFacts DEF RInv, Inv
    <3>2. \A d \in Outs : \A i \in Nat : At(d, i, x)' <=> d = c /\ i = n
      BY <1>2, <1>7, <3>1
    <3> QED BY <1>5, <3>2, OneSlot
  <2>2. Holders(x)' = {}
    <3>1. \A q \in Started : item'[q] # x
      BY <1>1, <1>8 DEF Holders
    <3> QED BY <1>1, <3>1 DEF Holders
  <2> QED BY <2>1, <2>2 DEF OneSpot
<1>10. ASSUME NEW y \in Items \ {x} PROVE Holders(y)' = Holders(y) /\ Slots(y)' = Slots(y)
  <2>1. Holders(y)' = Holders(y)
    <3>1. y # None
      BY ItemFacts
    <3>2. \A q \in Started : item'[q] = y <=> item[q] = y
      BY <1>1, <1>2, <1>10, <3>1
    <3> QED BY <1>1, <3>2 DEF Holders
  <2>2. Slots(y)' = Slots(y)
    <3>1. \A d \in Outs : \A i \in Nat : At(d, i, y)' <=> At(d, i, y)
      BY <1>7
    <3> QED BY <3>1, SameSlots DEF RInv, Inv
  <2> QED BY <2>1, <2>2
<1>11. Received' = Received \cup {x}
  <2>1. Received' = Received
    BY SameReceived
  <2> QED BY <1>8, <2>1
<1> QED BY <1>2, <1>9, <1>10, <1>11, Moved

\* What a send changes, and who makes it.
LEMMA SendsEffect ==
    ASSUME Inv, NEW p \in Started, NEW c \in Chans, Sends(p, c)
    PROVE  /\ p \in Tasks /\ pc[p] = "send" /\ c \in todo[p] /\ recipe' = recipe /\ UNCHANGED taken /\ idx' = NextIdx
           /\ log'[c] = Append(log[c], IF c = Ready THEN p ELSE item[p]) /\ \A d \in Chans \ {c} : log'[d] = log[d]
           /\ item'[p] = (IF todo[p] \ {c} = {} THEN None ELSE item[p])
           /\ todo'[p] = (IF Works(p) /\ c # Ready THEN {Ready} ELSE todo[p] \ {c})
           /\ pc'[p] = (IF Works(p) /\ c # Ready THEN "lock" ELSE IF todo[p] \ {c} = {} THEN "receive" ELSE "send")
           /\ \A q \in Tasks \ {p} : pc'[q] = pc[q] /\ item'[q] = item[q] /\ todo'[q] = todo[q]
<1>1. /\ p \in Tasks /\ log = [d \in Chans |-> log[d]] /\ item \in [Tasks -> Items \cup {None}] /\ todo = [q \in Tasks |-> todo[q]]
      /\ pc \in [Tasks -> Places]
  BY StartedFacts DEF Inv, Shape
<1>2. /\ pc[p] = "send" /\ c \in todo[p] /\ UNCHANGED <<args, taken>> /\ idx' = NextIdx
      /\ log' = [log EXCEPT ![c] = Append(@, IF c = Ready THEN p ELSE item[p])]
      /\ todo' = [todo EXCEPT ![p] = IF Works(p) /\ c # Ready THEN {Ready} ELSE todo[p] \ {c}]
      /\ pc' = [pc EXCEPT ![p] = IF Works(p) /\ c # Ready THEN "lock" ELSE IF todo[p] \ {c} = {} THEN "receive" ELSE "send"]
      /\ item' = [item EXCEPT ![p] = IF todo[p] \ {c} = {} THEN None ELSE @]
  BY DEF Sends
<1>3. log'[c] = Append(log[c], IF c = Ready THEN p ELSE item[p]) /\ \A d \in Chans \ {c} : log'[d] = log[d]
  BY <1>1, <1>2
<1>4. item'[p] = (IF todo[p] \ {c} = {} THEN None ELSE item[p]) /\ \A q \in Tasks \ {p} : item'[q] = item[q]
  BY <1>1, <1>2
<1>5. todo'[p] = (IF Works(p) /\ c # Ready THEN {Ready} ELSE todo[p] \ {c}) /\ \A q \in Tasks \ {p} : todo'[q] = todo[q]
  BY <1>1, <1>2
<1>6. /\ pc'[p] = (IF Works(p) /\ c # Ready THEN "lock" ELSE IF todo[p] \ {c} = {} THEN "receive" ELSE "send")
      /\ \A q \in Tasks \ {p} : pc'[q] = pc[q]
  BY <1>1, <1>2
<1> QED BY <1>1, <1>2, <1>3, <1>4, <1>5, <1>6 DEF args

LEMMA SendsWho ==
    ASSUME RInv, NEW p \in Started, NEW c \in Chans, Sends(p, c)
    PROVE  \/ IsPool /\ Works(p) /\ c = Ready /\ todo[p] = {c} /\ item[p] = None
           \/ IsPool /\ c \in Outs /\ todo[p] = {c} /\ item[p] # None
           \/ ~IsPool /\ recipe \in {"merge", "load_balance"} /\ c \in Dests /\ todo[p] = {c} /\ item[p] # None
           \/ ~IsPool /\ recipe = "tee" /\ c \in Dests /\ todo[p] \subseteq Dests /\ item[p] # None
<1>1. pc[p] = "send" /\ c \in todo[p] /\ TaskOK(p) /\ TodoOf(p)
  BY DEF Sends, RInv, Inv, TodoOK
<1>2. Outgoing(p)
  BY <1>1 DEF TaskOK
<1>3. ASSUME Works(p), todo[p] = {Ready} PROVE IsPool /\ Works(p) /\ c = Ready /\ todo[p] = {c} /\ item[p] = None
  BY <1>1, <1>3 DEF TodoOf, Works
<1>4. ASSUME Works(p), todo[p] = {Dst(1)} PROVE IsPool /\ c \in Outs /\ todo[p] = {c}
  <2>1. IsPool /\ c = Dst(1)
    BY <1>1, <1>4 DEF Works
  <2> QED BY <1>4, <2>1, DestFacts DEF Outs
<1>5. ASSUME Dispatches(p), \E i \in Ids : todo[p] = {Job(i)} PROVE IsPool /\ c \in Outs /\ todo[p] = {c}
  BY <1>1, <1>5, ChanFacts DEF Dispatches, Outs
<1>6. ASSUME ~IsPool, todo[p] \subseteq Dests
      PROVE  \/ recipe \in {"merge", "load_balance"} /\ c \in Dests /\ todo[p] = {c}
             \/ recipe = "tee" /\ c \in Dests
  <2>1. todo[p] \subseteq Targets /\ c \in Targets /\ c \in Dests
    BY <1>1, <1>6 DEF TodoOf
  <2>2. CASE recipe = "merge"
    <3>1. Targets = {Dst(1)}
      BY <2>2 DEF Targets
    <3> QED BY <1>1, <2>1, <2>2, <3>1
  <2>3. CASE recipe = "load_balance"
    <3>1. Targets = {Dst(idx)}
      BY <2>3 DEF Targets
    <3> QED BY <1>1, <2>1, <2>3, <3>1
  <2>4. CASE recipe = "tee"
    BY <2>1, <2>4
  <2>5. CASE recipe \notin {"merge", "load_balance", "tee"}
    <3>1. Targets = {}
      BY <2>5 DEF Targets
    <3> QED BY <2>1, <3>1
  <2> QED BY <2>2, <2>3, <2>4, <2>5
<1> QED BY <1>2, <1>3, <1>4, <1>5, <1>6 DEF Outgoing

LEMMA SendsSource == ASSUME RInv, NEW p \in Started, NEW c \in Chans, Sends(p, c) PROVE SourceOK'
<1>1. recipe' = recipe /\ UNCHANGED taken /\ \A d \in Chans \ {c} : log'[d] = log[d]
  BY SendsEffect DEF RInv
<1>2. \A s \in Ids : log'[Src(s)] = log[Src(s)]
  <2>1. c = Ready \/ c \in Outs
    BY SendsWho, OutFacts
  <2> QED BY <1>1, <2>1, ChanFacts, OutFacts
<1>3. ASSUME NEW d \in Inputs PROVE taken'[d] <= Len(log'[d])
  <2>1. d \in Chans /\ taken[d] \in Nat /\ Len(log[d]) \in Nat /\ taken[d] <= Len(log[d])
    BY ChanFacts, LenType DEF RInv, Inv, SourceOK
  <2>2. CASE d = c
    <3>1. log'[d] = Append(log[d], IF c = Ready THEN p ELSE item[p])
      BY <2>2, SendsEffect DEF RInv
    <3>2. d # Ready /\ d \in Jobs
      <4>1. c = Ready \/ c \in Outs
        BY SendsWho, OutFacts
      <4> QED BY <2>2, <4>1, ChanFacts, OutFacts DEF Inputs
    <3>3. item[p] # None
      BY <2>2, <3>2, SendsWho, OutFacts
    <3>4. item[p] \in Items /\ log[d] \in Seq(Items)
      BY <3>2, <3>3, StartedFacts, LogFacts, OutFacts DEF RInv, Inv, Shape
    <3>5. Len(log'[d]) = Len(log[d]) + 1
      BY <2>2, <3>1, <3>2, <3>4, AppendFacts
    <3> QED BY <1>1, <2>1, <3>5
  <2>3. CASE d # c
    BY <1>1, <2>1, <2>3
  <2> QED BY <2>2, <2>3
<1> QED BY <1>1, <1>2, <1>3 DEF RInv, SourceOK

LEMMA SendsTodo == ASSUME RInv, NEW p \in Started, NEW c \in Chans, Sends(p, c) PROVE TodoOK'
<1>1. recipe' = recipe /\ idx' = NextIdx
  BY SendsEffect DEF RInv
<1>2. Started' = Started /\ (IsPool' <=> IsPool) /\ (Works(p)' <=> Works(p)) /\ Dests' = Dests
  BY <1>1, SameRecipe
<1>3. TodoOf(p)'
  <2>1. CASE IsPool
    <3>1. todo[p] = {c}
      BY <2>1, SendsWho
    <3>2. item'[p] = None
      BY <3>1, SendsEffect DEF RInv
    <3> QED BY <1>2, <2>1, <3>2 DEF TodoOf
  <2>2. CASE recipe \in {"merge", "load_balance"}
    <3>1. todo[p] = {c} /\ ~IsPool
      BY <2>2, SendsWho DEF IsPool
    <3>2. pc'[p] = "receive"
      BY <3>1, SendsEffect DEF RInv, Works
    <3> QED BY <3>2 DEF TodoOf
  <2>3. CASE recipe = "tee"
    <3>1. ~IsPool /\ todo[p] \subseteq Dests
      BY <2>3, SendsWho DEF IsPool
    <3>2. todo'[p] \subseteq Dests
      BY <3>1, SendsEffect DEF RInv, Works
    <3>3. Targets' = Dests
      BY <1>1, <1>2, <2>3 DEF Targets
    <3>4. ~Works(p)'
      BY <1>2, <3>1 DEF Works
    <3> QED BY <3>2, <3>3, <3>4 DEF TodoOf
  <2> QED BY <2>1, <2>2, <2>3, SendsWho
<1>4. CASE recipe = "load_balance"
  <2>1. Started = {1}
    BY <1>4 DEF Started, Sources, IsPool
  <2> QED BY <1>2, <1>3, <2>1 DEF TodoOK
<1>5. CASE recipe # "load_balance"
  <2>1. idx' = idx
    BY <1>1, <1>5 DEF NextIdx
  <2>2. \A q \in Tasks \ {p} : pc'[q] = pc[q] /\ item'[q] = item[q] /\ todo'[q] = todo[q]
    BY SendsEffect DEF RInv
  <2> QED BY <1>1, <1>3, <2>1, <2>2, TodoKept
<1> QED BY <1>4, <1>5

LEMMA SendsOwn == ASSUME RInv, NEW p \in Started, NEW c \in Chans, Sends(p, c) PROVE OwnOK'
<1> SUFFICES ASSUME ~IsPool, NEW q \in Started, item'[q] # None PROVE item'[q] = <<q, taken'[Src(q)]>>
  <2>1. Started' = Started /\ (IsPool' <=> IsPool)
    BY SendsEffect, SameRecipe DEF RInv
  <2> QED BY <2>1 DEF OwnOK
<1>1. item'[q] = item[q] /\ taken' = taken
  BY SendsEffect, StartedFacts DEF RInv
<1> QED BY <1>1 DEF RInv, OwnOK

LEMMA SendsTee == ASSUME RInv, recipe = "tee", NEW p \in Started, NEW c \in Chans, Sends(p, c) PROVE TeeOK'
<1>1. p = 1 /\ Started = {1} /\ c \in Dests /\ todo[1] \subseteq Dests /\ item[1] # None /\ ~IsPool
  <2>1. Started = {1}
    BY DEF Started, Sources, IsPool
  <2> QED BY <2>1, SendsWho DEF IsPool
<1>2. /\ c \in todo[1] /\ recipe' = recipe /\ taken' = taken /\ Dests' = Dests
      /\ log'[c] = Append(log[c], IF c = Ready THEN 1 ELSE item[1]) /\ \A d \in Chans \ {c} : log'[d] = log[d]
      /\ item'[1] = (IF todo[1] \ {c} = {} THEN None ELSE item[1]) /\ todo'[1] = todo[1] \ {c}
  BY <1>1, SendsEffect, SameRecipe DEF RInv, Works
<1>3. c \in Outs /\ c # Ready /\ Dests \subseteq Chans
  BY <1>1, OutFacts
<1>4. /\ item[1] = <<1, taken[Src(1)]>> /\ item[1] \in Items
      /\ taken[Src(1)] = Len(log[c]) + 1 /\ \A i \in DOMAIN log[c] : log[c][i] = <<1, i>>
  <2>1. item[1] = <<1, taken[Src(1)]>> /\ item[1] \in Items
    BY <1>1, StartedFacts DEF RInv, OwnOK, Inv, Shape
  <2>2. Owes(c) = 1
    BY <1>1, <1>2 DEF Owes, Owed
  <2> QED BY <1>1, <2>1, <2>2 DEF RInv, TeeOK
<1>5. Owes(c)' = 0
  BY <1>2 DEF Owes, Owed
<1>6. taken'[Src(1)] = Len(log'[c]) + Owes(c)' /\ \A i \in DOMAIN log'[c] : log'[c][i] = <<1, i>>
  <2>1. log[c] \in Seq(Items) /\ log'[c] = Append(log[c], item[1])
    BY <1>2, <1>3, LogFacts DEF RInv, Inv
  <2>2. /\ Len(log'[c]) = Len(log[c]) + 1 /\ DOMAIN log'[c] = 1..Len(log[c]) + 1 /\ Len(log[c]) \in Nat
        /\ DOMAIN log[c] = 1..Len(log[c])
        /\ (\A i \in 1..Len(log[c]) : log'[c][i] = log[c][i]) /\ log'[c][Len(log[c]) + 1] = item[1]
    BY <1>4, <2>1, AppendFacts
  <2>3. ASSUME NEW i \in DOMAIN log'[c] PROVE log'[c][i] = <<1, i>>
    <3>1. i \in DOMAIN log[c] \/ i = Len(log[c]) + 1
      BY <2>2
    <3> QED BY <1>4, <2>2, <3>1
  <2> QED BY <1>2, <1>4, <1>5, <2>2, <2>3
<1>7. ASSUME NEW d \in Dests, d # c
      PROVE  taken'[Src(1)] = Len(log'[d]) + Owes(d)' /\ \A i \in DOMAIN log'[d] : log'[d][i] = <<1, i>>
  <2>1. log'[d] = log[d] /\ taken'[Src(1)] = taken[Src(1)]
    BY <1>2, <1>3, <1>7
  <2>2. Owed(d)' <=> Owed(d)
    BY <1>1, <1>2, <1>7 DEF Owed
  <2>3. Owes(d)' = Owes(d)
    BY <2>2 DEF Owes
  <2> QED BY <2>1, <2>3 DEF RInv, TeeOK
<1> QED BY <1>2, <1>6, <1>7 DEF TeeOK

LEMMA SendsOrder == ASSUME RInv, NEW p \in Started, NEW c \in Chans, Sends(p, c) PROVE OrderOK'
<1>1. recipe' = recipe /\ taken' = taken /\ Dests' = Dests /\ Started' = Started /\ (IsPool' <=> IsPool)
  BY SendsEffect, SameRecipe DEF RInv
<1> SUFFICES ASSUME ~IsPool, recipe # "tee", NEW d \in Dests PROVE Sorted(d)' /\ Earlier(d)'
  BY <1>1 DEF OrderOK
<1>2. c \in Dests /\ todo[p] = {c} /\ item[p] # None
  BY SendsWho
<1>3. /\ item'[p] = None /\ \A q \in Tasks \ {p} : item'[q] = item[q]
      /\ \A e \in Chans \ {c} : log'[e] = log[e]
  BY <1>2, SendsEffect DEF RInv
<1>4. Sorted(d) /\ Earlier(d) /\ Started \subseteq Tasks
  BY StartedFacts DEF RInv, OrderOK
<1>5. CASE d # c
  <2>1. log'[d] = log[d]
    BY <1>3, <1>5, OutFacts
  <2>2. \A s \in Started : item'[s] # None => item[s] # None
    BY <1>3, <1>4
  <2> QED BY <1>1, <1>4, <2>1, <2>2 DEF Sorted, Earlier
<1>6. CASE d = c
  <2>1. /\ log[c] \in Seq(Items) /\ item[p] \in Items /\ item[p] = <<p, taken[Src(p)]>> /\ p \in Ids /\ taken[Src(p)] \in Nat
        /\ log'[c] = Append(log[c], item[p])
    <3>1. c \in Outs /\ c # Ready /\ p \in Ids
      BY <1>2, OutFacts, StartedFacts
    <3> QED BY <1>2, <1>4, <3>1, LogFacts, SendsEffect DEF RInv, Inv, Shape, OwnOK
  <2>2. PICK n \in Nat : n = Len(log[c]) + 1
    BY <2>1
  <2>3. /\ DOMAIN log'[c] = 1..n /\ DOMAIN log[c] = 1..n - 1
        /\ (\A i \in 1..n - 1 : log'[c][i] = log[c][i]) /\ log'[c][n] = <<p, taken[Src(p)]>>
    BY <2>1, <2>2, AppendFacts
  <2>4. \A j \in 1..n : (j = n \/ j \in 1..n - 1) /\ \A i \in 1..j - 1 : i \in 1..n - 1
    BY <2>2
  <2>5. \A i \in 1..n - 1 : log[c][i][1] = p => log[c][i][2] < taken[Src(p)]
    BY <1>2, <1>4, <1>6, <2>3 DEF Earlier
  <2>6. Sorted(c)'
    <3> SUFFICES ASSUME NEW j \in 1..n, NEW i \in 1..j - 1, log'[c][i][1] = log'[c][j][1]
                 PROVE  log'[c][i][2] < log'[c][j][2]
      BY <2>3 DEF Sorted
    <3>1. i \in 1..n - 1 /\ log'[c][i] = log[c][i]
      BY <2>3, <2>4
    <3>2. CASE j = n
      <4>1. log[c][i][1] = p /\ log'[c][j][2] = taken[Src(p)]
        BY <2>3, <3>1, <3>2
      <4> QED BY <2>5, <3>1, <4>1
    <3>3. CASE j \in 1..n - 1
      BY <1>4, <1>6, <2>3, <3>1, <3>3 DEF Sorted
    <3> QED BY <2>4, <3>2, <3>3
  <2>7. Earlier(c)'
    <3> SUFFICES ASSUME NEW j \in 1..n, NEW s \in Started, log'[c][j][1] = s
                 PROVE  log'[c][j][2] <= taken[Src(s)] /\ (item'[s] # None => log'[c][j][2] < taken[Src(s)])
      BY <1>1, <2>3 DEF Earlier
    <3>1. CASE j = n
      <4>1. s = p /\ log'[c][j][2] = taken[Src(p)] /\ item'[s] = None
        BY <1>3, <2>3, <3>1
      <4>2. taken[Src(p)] <= taken[Src(p)]
        BY <2>1
      <4> QED BY <4>1, <4>2
    <3>2. CASE j \in 1..n - 1
      <4>1. log'[c][j] = log[c][j] /\ j \in DOMAIN log[c] /\ (item'[s] # None => item[s] # None)
        BY <1>3, <1>4, <2>3, <3>2
      <4> QED BY <1>4, <1>6, <4>1 DEF Earlier
    <3> QED BY <2>4, <3>1, <3>2
  <2> QED BY <1>6, <2>6, <2>7
<1> QED BY <1>5, <1>6

LEMMA Turns ==
    ASSUME NEW n \in Nat \ {0}, NEW i \in 1..n
    PROVE  (i < n => (i % n) + 1 = i + 1) /\ (i = n => (i % n) + 1 = 1)
<1>1. i < n => i % n = i
  BY SMTT(60)
<1>2. n % n = 0
  BY SMTT(60)
<1> QED BY <1>1, <1>2

\* load_balance: the turn of destination idx; after the last one a new round begins.
LEMMA SendsDealt == ASSUME RInv, recipe = "load_balance", NEW p \in Started, NEW c \in Chans, Sends(p, c) PROVE DealtOK'
<1>1. p = 1 /\ Started = {1} /\ ~IsPool /\ idx \in Ids /\ N \in Nat \ {0}
  BY OneId DEF Started, Sources, IsPool, RInv, Inv, Shape
<1>2. c = Dst(idx) /\ todo[1] = {c} /\ item[1] # None
  <2>1. todo[1] = {c} /\ item[1] # None
    BY <1>1, SendsWho
  <2>2. todo[1] \subseteq Targets
    BY <1>1 DEF RInv, TodoOK, TodoOf, Sends
  <2>3. Targets = {Dst(idx)}
    BY DEF Targets
  <2> QED BY <2>1, <2>2, <2>3
<1>3. /\ recipe' = recipe /\ taken' = taken /\ item'[1] = None /\ idx' = (idx % N) + 1
      /\ log'[c] = Append(log[c], item[1]) /\ \A d \in Chans \ {c} : log'[d] = log[d]
  <2>1. c # Ready
    BY <1>1, <1>2, ChanFacts
  <2> QED BY <1>1, <1>2, <2>1, SendsEffect DEF RInv, NextIdx
<1>4. PICK r \in Nat :
         /\ taken[Src(1)] = r * N + idx - 1 + (IF item[1] # None THEN 1 ELSE 0)
         /\ \A i \in Ids : /\ Len(log[Dst(i)]) = IF i < idx THEN r + 1 ELSE r
                           /\ \A j \in DOMAIN log[Dst(i)] : log[Dst(i)][j] = <<1, (j - 1) * N + i>>
  BY DEF RInv, DealtOK
<1>5. PICK m \in Nat : m = r * N
  BY <1>1
<1>6. taken[Src(1)] = m + idx /\ item[1] = <<1, m + idx>> /\ item[1] \in Items /\ idx \in 1..N
  <2>1. item[1] = <<1, taken[Src(1)]>> /\ item[1] \in Items
    BY <1>1, <1>2, StartedFacts DEF RInv, OwnOK, Inv, Shape
  <2>2. taken[Src(1)] = m + idx - 1 + 1
    BY <1>2, <1>4, <1>5
  <2>3. idx \in 1..N
    BY <1>1 DEF Ids
  <2> QED BY <2>1, <2>2, <2>3
<1>7. /\ Len(log'[c]) = r + 1
      /\ \A j \in DOMAIN log'[c] : log'[c][j] = <<1, (j - 1) * N + idx>>
  <2>1. Len(log[c]) = r /\ \A j \in DOMAIN log[c] : log[c][j] = <<1, (j - 1) * N + idx>>
    BY <1>1, <1>2, <1>4, <1>6
  <2>2. log[c] \in Seq(Items)
    <3>1. c \in Outs
      BY <1>1, <1>2 DEF Outs, Dests
    <3> QED BY <3>1, LogFacts DEF RInv, Inv
  <2>3. /\ Len(log'[c]) = r + 1 /\ DOMAIN log'[c] = 1..r + 1 /\ DOMAIN log[c] = 1..r
        /\ (\A j \in 1..r : log'[c][j] = log[c][j]) /\ log'[c][r + 1] = item[1]
    BY <1>3, <1>6, <2>1, <2>2, AppendFacts
  <2>4. ASSUME NEW j \in 1..r + 1 PROVE log'[c][j] = <<1, (j - 1) * N + idx>>
    <3>1. CASE j = r + 1
      <4>1. j - 1 = r
        BY <3>1
      <4> QED BY <1>5, <1>6, <2>3, <3>1, <4>1
    <3>2. CASE j \in 1..r
      BY <2>1, <2>3, <3>2
    <3> QED BY <3>1, <3>2
  <2> QED BY <2>3, <2>4
<1>8. ASSUME NEW i \in Ids, i # idx PROVE log'[Dst(i)] = log[Dst(i)]
  BY <1>1, <1>2, <1>3, <1>8, ChanFacts DEF Dst
<1>9. ASSUME NEW i \in Ids
      PROVE  /\ Len(log'[Dst(i)]) = IF i <= idx THEN r + 1 ELSE r
             /\ \A j \in DOMAIN log'[Dst(i)] : log'[Dst(i)][j] = <<1, (j - 1) * N + i>>
  <2>1. i \in Int /\ idx \in Int
    BY <1>1 DEF Ids
  <2>2. CASE i = idx
    BY <1>2, <1>7, <2>1, <2>2
  <2>3. CASE i # idx
    <3>1. (i < idx <=> i <= idx)
      BY <2>1, <2>3
    <3> QED BY <1>4, <1>8, <2>3, <3>1
  <2> QED BY <2>2, <2>3
<1>10. CASE idx < N
  <2>1. idx' = idx + 1
    BY <1>1, <1>3, <1>6, <1>10, Turns
  <2>2. \A i \in Ids : i <= idx <=> i < idx'
    BY <1>6, <2>1 DEF Ids
  <2>3. taken'[Src(1)] = r * N + idx' - 1 + (IF item'[1] # None THEN 1 ELSE 0)
    BY <1>3, <1>5, <1>6, <2>1
  <2> QED BY <1>9, <2>2, <2>3 DEF DealtOK
<1>11. CASE idx = N
  <2>1. idx' = 1
    BY <1>1, <1>3, <1>6, <1>11, Turns
  <2>2. \A i \in Ids : i <= idx /\ ~(i < idx')
    BY <1>11, <2>1 DEF Ids
  <2>3. (r + 1) * N = r * N + N
    BY <1>1
  <2>4. taken'[Src(1)] = (r + 1) * N + idx' - 1 + (IF item'[1] # None THEN 1 ELSE 0)
    BY <1>1, <1>3, <1>5, <1>6, <1>11, <2>1, <2>3
  <2>5. r + 1 \in Nat /\ \A i \in Ids : Len(log'[Dst(i)]) = IF i < idx' THEN (r + 1) + 1 ELSE r + 1
    BY <1>9, <2>2
  <2> QED BY <1>9, <2>4, <2>5 DEF DealtOK
<1> QED BY <1>1, <1>6, <1>10, <1>11

LEMMA SendsRouted == ASSUME RInv, Inv', NEW p \in Started, NEW c \in Chans, Sends(p, c) PROVE RInv'
<1>1. SourceOK' /\ TodoOK' /\ OwnOK' /\ OrderOK'
  BY SendsSource, SendsTodo, SendsOwn, SendsOrder
<1>2. recipe' = recipe
  BY SendsEffect DEF RInv
<1>3. TeeOK'
  <2>1. CASE recipe = "tee"
    BY <2>1, SendsTee
  <2>2. CASE recipe # "tee"
    BY <1>2, <2>2 DEF TeeOK
  <2> QED BY <2>1, <2>2
<1>4. DealtOK'
  <2>1. CASE recipe = "load_balance"
    BY <2>1, SendsDealt
  <2>2. CASE recipe # "load_balance"
    BY <1>2, <2>2 DEF DealtOK
  <2> QED BY <2>1, <2>2
<1>5. SpotsOK'
  <2>1. CASE recipe = "tee"
    BY <1>2, <2>1 DEF SpotsOK
  <2>2. CASE IsPool /\ c = Ready /\ todo[p] = {c} /\ item[p] = None
    <3>1. idx' = idx /\ item'[p] = None /\ \A q \in Tasks \ {p} : item'[q] = item[q]
      BY <2>2, SendsEffect DEF RInv, IsPool, NextIdx
    <3>2. item' = item
      <4>1. item = [q \in Tasks |-> item[q]] /\ item' = [q \in Tasks |-> item'[q]]
        BY DEF RInv, Inv, Shape
      <4>2. \A q \in Tasks : item'[q] = item[q]
        BY <2>2, <3>1
      <4> QED BY <4>1, <4>2
    <3>3. Quiet
      <4>1. (\A d \in Outs : log'[d] = log[d]) /\ taken' = taken
        BY <2>2, SendsEffect, OutFacts DEF RInv
      <4> QED BY <1>2, <2>2, <3>1, <3>2, <4>1 DEF Quiet
    <3> QED BY <3>3, QuietKeeps
  <2>3. CASE recipe # "tee" /\ c \in Outs /\ todo[p] = {c} /\ item[p] # None
    <3>1. /\ item'[p] = None /\ log'[c] = Append(log[c], item[p]) /\ UNCHANGED taken
          /\ (\A d \in Chans \ {c} : log'[d] = log[d]) /\ \A q \in Tasks \ {p} : item'[q] = item[q]
      BY <2>3, SendsEffect, OutFacts DEF RInv
    <3>2. Shape'
      BY DEF Inv
    <3> QED BY <1>2, <2>3, <3>1, <3>2, SendsSpots
  <2>4. Dests \subseteq Outs
    BY DEF Outs
  <2> QED BY <2>1, <2>2, <2>3, <2>4, SendsWho
<1> QED BY <1>1, <1>3, <1>4, <1>5 DEF RInv

-----------------------------------------------------------------------------
(* Taking an item: from a source, where it is new, or from a worker's queue.  *)

LEMMA TakesEffect ==
    ASSUME RInv, NEW p \in Started, Takes(p)
    PROVE  /\ p \in Tasks /\ recipe' = recipe /\ log' = log /\ idx' = idx /\ item[p] = None
           /\ In(p) \in Inputs /\ Oldest(In(p)) \in Items /\ taken[In(p)] + 1 <= Len(log[In(p)]) /\ taken[In(p)] \in Nat
           /\ taken'[In(p)] = taken[In(p)] + 1 /\ \A c \in Chans \ {In(p)} : taken'[c] = taken[c]
           /\ item'[p] = Oldest(In(p)) /\ \A q \in Tasks \ {p} : item'[q] = item[q]
<1>1. p \in Tasks /\ In(p) \in Inputs /\ In(p) \in Chans /\ In(p) # Ready /\ TaskOK(p)
  BY StartedFacts, ChanFacts DEF RInv, Inv
<1>2. pc[p] \in {"parked", "receive"} /\ Pending(In(p))
  BY DEF Takes
<1>3. UNCHANGED <<args, log, idx>>
  BY DEF Takes
<1>4. item[p] = None
  BY <1>1, <1>2 DEF TaskOK
<1>5. taken[In(p)] \in Nat /\ Len(log[In(p)]) \in Nat /\ taken[In(p)] < Len(log[In(p)])
  BY <1>1, <1>2, LenType DEF RInv, Inv, Pending
<1>6. taken[In(p)] + 1 <= Len(log[In(p)])
  BY <1>5
<1>7. Oldest(In(p)) \in Items
  BY <1>1, <1>2, OldestType DEF RInv, Inv, Kind
<1>8. taken'[In(p)] = taken[In(p)] + 1 /\ \A c \in Chans \ {In(p)} : taken'[c] = taken[c]
  BY <1>1 DEF Takes, RInv, Inv, Shape
<1>9. item'[p] = Oldest(In(p)) /\ \A q \in Tasks \ {p} : item'[q] = item[q]
  BY <1>1 DEF Takes, RInv, Inv, Shape
<1> QED BY <1>1, <1>3, <1>4, <1>5, <1>6, <1>7, <1>8, <1>9 DEF args

LEMMA TakesFrom ==
    ASSUME NEW p \in Started
    PROVE  \/ Works(p) /\ IsPool /\ p \in Ids /\ In(p) = Job(p)
           \/ ~Works(p) /\ IsPool /\ 1 \in Sources /\ In(p) = Src(1)
           \/ ~IsPool /\ p \in Sources /\ In(p) = Src(p)
<1>1. CASE IsPool
  BY <1>1, StartedFacts DEF In, Works, Dispatches, Sources, IsPool
<1>2. CASE ~IsPool
  BY <1>2, StartedFacts
<1> QED BY <1>1, <1>2

\* What comes from a source was not received before.
LEMMA TakesNew ==
    ASSUME RInv, NEW p \in Started, Takes(p), NEW s \in Sources, In(p) = Src(s)
    PROVE  /\ item'[p] = <<s, taken'[Src(s)]>> /\ item'[p] \notin Received /\ Received' = Received \cup {item'[p]}
           /\ taken'[Src(s)] = taken[Src(s)] + 1
<1>1. s \in Ids /\ Src(s) \in Chans /\ Sources \subseteq Ids
  BY StartedFacts, ChanFacts
<1>2. PICK n \in Nat : n = taken[Src(s)] + 1
  BY TakesEffect
<1>3. n \in 1..Len(log[Src(s)]) /\ Len(log[Src(s)]) \in Nat /\ DOMAIN log[Src(s)] = 1..Len(log[Src(s)])
  BY <1>1, <1>2, TakesEffect, LogFacts DEF RInv, Inv
<1>4. item'[p] = <<s, n>> /\ taken'[Src(s)] = n
  <2>1. Oldest(Src(s)) = log[Src(s)][n]
    BY <1>2 DEF Oldest
  <2>2. log[Src(s)][n] = <<s, n>>
    BY <1>1, <1>3 DEF RInv, SourceOK
  <2> QED BY <1>2, <2>1, <2>2, TakesEffect
<1>5. MaxItems[recipe] \in Nat /\ n \in 1..MaxItems[recipe]
  BY <1>1, <1>3 DEF RInv, SourceOK
<1>6. recipe' = recipe /\ Sources' = Sources
  BY TakesEffect, SameRecipe
<1>7. ASSUME NEW t \in Sources, NEW m \in 1..MaxItems[recipe]
      PROVE  <<t, m>> \in Received' <=> <<t, m>> \in Received \/ <<t, m>> = <<s, n>>
  <2>1. <<t, m>> \in Received' <=> m <= taken'[Src(t)]
    BY <1>6 DEF Received
  <2>2. <<t, m>> \in Received <=> m <= taken[Src(t)]
    BY DEF Received
  <2>3. CASE t = s
    <3>1. m <= n <=> m <= taken[Src(s)] \/ m = n
      BY <1>2, <1>5, TakesEffect
    <3> QED BY <1>4, <2>1, <2>2, <2>3, <3>1
  <2>4. CASE t # s
    <3>1. Src(t) # Src(s) /\ Src(t) \in Chans
      BY <1>1, <2>4, ChanFacts DEF Src
    <3>2. taken'[Src(t)] = taken[Src(t)]
      BY <3>1, TakesEffect
    <3> QED BY <2>1, <2>2, <2>4, <3>2
  <2> QED BY <2>3, <2>4
<1>8. <<s, n>> \notin Received
  <2>1. ~(n <= taken[Src(s)])
    BY <1>2, TakesEffect
  <2> QED BY <2>1, ReceivedFacts
<1>9. Received' = Received \cup {<<s, n>>}
  <2>1. Received \subseteq Sources \X (1..MaxItems[recipe]) /\ Received' \subseteq Sources \X (1..MaxItems[recipe])
    BY <1>6 DEF Received
  <2>2. \A x \in Sources \X (1..MaxItems[recipe]) : x \in Received' <=> x \in Received \/ x = <<s, n>>
    BY <1>7
  <2>3. <<s, n>> \in Sources \X (1..MaxItems[recipe])
    BY <1>5
  <2> QED BY <2>1, <2>2, <2>3
<1> QED BY <1>2, <1>4, <1>8, <1>9

LEMMA TakesHolders ==
    ASSUME NEW p \in Started, p \in Tasks, recipe' = recipe, NEW x \in Items, Holders(x) = {},
           item[p] = None, item'[p] = x, \A q \in Tasks \ {p} : item'[q] = item[q]
    PROVE  Holders(x)' = {p} /\ \A y \in Items \ {x} : Holders(y)' = Holders(y)
<1>1. Started' = Started /\ Started \subseteq Tasks
  BY SameRecipe, StartedFacts
<1>2. Holders(x)' = {p}
  <2>1. \A q \in Started : item'[q] = x <=> q = p
    BY <1>1 DEF Holders
  <2> QED BY <1>1, <2>1 DEF Holders
<1>3. ASSUME NEW y \in Items, y # x PROVE Holders(y)' = Holders(y)
  <2>1. y # None
    BY ItemFacts
  <2>2. \A q \in Started : item'[q] = y <=> item[q] = y
    BY <1>1, <1>3, <2>1
  <2> QED BY <1>1, <2>2 DEF Holders
<1> QED BY <1>2, <1>3

LEMMA TakesSpots == ASSUME RInv, Inv', NEW p \in Started, Takes(p) PROVE SpotsOK'
<1>1. recipe' = recipe /\ Started' = Started
  BY TakesEffect, SameRecipe
<1> SUFFICES ASSUME recipe # "tee" PROVE SpotsOK'
  BY <1>1 DEF SpotsOK
<1>2. PICK x \in Items : x = Oldest(In(p))
  BY TakesEffect
<1>3. /\ p \in Tasks /\ log' = log /\ item[p] = None /\ item'[p] = x /\ \A q \in Tasks \ {p} : item'[q] = item[q]
      /\ \A c \in Chans \ {In(p)} : taken'[c] = taken[c]
  BY <1>2, TakesEffect
<1>4. Shape /\ Shape' /\ Outs \subseteq Chans
  BY OutFacts DEF RInv, Inv
<1>5. CASE Works(p)
  <2>1. IsPool /\ In(p) = Job(p) /\ p \in Ids
    BY <1>5, TakesFrom DEF Works
  <2>2. PICK c \in Jobs : c = In(p)
    BY <2>1, ChanFacts
  <2>3. c \in Outs /\ c \in Inputs /\ \A s \in Ids : Src(s) # c
    BY <2>2, OutFacts, ChanFacts DEF Inputs
  <2>4. PICK n \in Nat : n = taken[c] + 1
    BY <2>2, TakesEffect
  <2>5. /\ taken[c] \in Nat /\ taken'[c] = n /\ n <= Len(log[c]) /\ Len(log[c]) \in Nat
        /\ log[c][n] = x /\ DOMAIN log[c] = 1..Len(log[c])
    BY <1>2, <1>4, <2>2, <2>3, <2>4, TakesEffect, LogFacts DEF Oldest
  <2>6. At(c, n, x)
    <3>1. n \in 1..Len(log[c]) /\ taken[c] < n
      BY <2>4, <2>5
    <3> QED BY <2>5, <3>1 DEF At, Live
  <2>7. x \in Received /\ Holders(x) = {} /\ Slots(x) = {<<c, n>>}
    <3>1. <<c, n>> \in Slots(x)
      BY <1>4, <2>3, <2>6, SlotFacts
    <3>2. x \in Received /\ OneSpot(x)
      BY <3>1 DEF RInv, SpotsOK, Nowhere
    <3> QED BY <3>1, <3>2 DEF OneSpot
  <2>8. ASSUME NEW y \in Items, NEW d \in Outs, NEW i \in Nat
        PROVE  At(d, i, y)' <=> At(d, i, y) /\ ~(d = c /\ i = n)
    <3>1. CASE d # c
      <4>1. taken'[d] = taken[d]
        BY <1>3, <1>4, <2>2, <3>1
      <4> QED BY <1>3, <3>1, <4>1 DEF At, Live
    <3>2. CASE d = c
      <4>1. n < i <=> taken[c] < i /\ i # n
        BY <2>4, <2>5
      <4> QED BY <1>3, <2>5, <3>2, <4>1 DEF At, Live
    <3> QED BY <3>1, <3>2
  <2>9. Slots(x)' = {}
    <3>1. ASSUME NEW d \in Outs, NEW i \in Nat PROVE ~At(d, i, x)'
      <4>1. At(d, i, x) => <<d, i>> = <<c, n>>
        BY <1>4, <2>7, SlotFacts
      <4>2. <<d, i>> = <<c, n>> => d = c /\ i = n
        OBVIOUS
      <4> QED BY <2>8, <4>1, <4>2
    <3> QED BY <1>1, <3>1, NoSlot
  <2>10. ASSUME NEW y \in Items \ {x} PROVE Slots(y)' = Slots(y)
    <3>1. ~At(c, n, y)
      BY <2>5, <2>10 DEF At
    <3>2. \A d \in Outs : \A i \in Nat : At(d, i, y)' <=> At(d, i, y)
      BY <2>8, <3>1
    <3> QED BY <1>1, <1>4, <3>2, SameSlots
  <2>11. Holders(x)' = {p} /\ \A y \in Items \ {x} : Holders(y)' = Holders(y)
    BY <1>1, <1>3, <2>7, TakesHolders
  <2>12. OneSpot(x)'
    BY <1>1, <2>9, <2>11 DEF OneSpot
  <2>13. Received' = Received \cup {x}
    <3>1. \A s \in Ids : taken'[Src(s)] = taken[Src(s)]
      BY <1>3, <2>2, <2>3, ChanFacts
    <3> QED BY <1>1, <2>7, <3>1, SameReceived
  <2> QED BY <1>1, <2>10, <2>11, <2>12, <2>13, Moved
<1>6. CASE ~Works(p)
  <2>1. PICK s \in Sources : In(p) = Src(s)
    BY <1>6, TakesFrom
  <2>2. x \notin Received /\ Received' = Received \cup {x}
    BY <1>3, <2>1, TakesNew
  <2>3. Holders(x) = {} /\ Slots(x) = {}
    BY <2>2 DEF RInv, SpotsOK, Nowhere
  <2>4. Holders(x)' = {p} /\ \A y \in Items \ {x} : Holders(y)' = Holders(y)
    BY <1>1, <1>3, <2>3, TakesHolders
  <2>5. ASSUME NEW y \in Items PROVE Slots(y)' = Slots(y)
    <3>1. ASSUME NEW d \in Outs PROVE taken'[d] = taken[d]
      BY <1>3, <1>4, <2>1, OutFacts, StartedFacts
    <3>2. \A d \in Outs : \A i \in Nat : At(d, i, y)' <=> At(d, i, y)
      BY <1>3, <3>1 DEF At, Live
    <3> QED BY <1>1, <1>4, <3>2, SameSlots
  <2>6. OneSpot(x)'
    BY <1>1, <2>3, <2>4, <2>5 DEF OneSpot
  <2> QED BY <1>1, <2>2, <2>4, <2>5, <2>6, Moved
<1> QED BY <1>5, <1>6

LEMMA TakesSource == ASSUME RInv, NEW p \in Started, Takes(p) PROVE SourceOK'
<1>1. recipe' = recipe /\ log' = log
  BY TakesEffect
<1>2. ASSUME NEW c \in Inputs PROVE taken'[c] <= Len(log'[c])
  <2>1. CASE c = In(p)
    BY <1>1, <2>1, TakesEffect
  <2>2. CASE c # In(p)
    BY <1>1, <2>2, TakesEffect, ChanFacts DEF RInv, SourceOK
  <2> QED BY <2>1, <2>2
<1> QED BY <1>1, <1>2 DEF RInv, SourceOK

LEMMA TakesTodo == ASSUME RInv, NEW p \in Started, Takes(p) PROVE TodoOK'
<1>1. p \in Tasks /\ recipe' = recipe /\ idx' = idx /\ \A q \in Tasks \ {p} : item'[q] = item[q]
  BY TakesEffect
<1>2. pc \in [Tasks -> Places] /\ todo = [q \in Tasks |-> todo[q]]
  BY DEF RInv, Inv, Shape
<1>3. (\A q \in Tasks \ {p} : pc'[q] = pc[q] /\ todo'[q] = todo[q]) /\ TodoOf(p)'
  <2>1. CASE recipe = "select"
    <3>1. Ends(p) /\ UNCHANGED todo
      BY <2>1 DEF Takes
    <3>2. pc'[p] = "done" /\ \A q \in Tasks \ {p} : pc'[q] = pc[q]
      BY <1>1, <1>2, <3>1 DEF Ends
    <3> QED BY <3>1, <3>2 DEF TodoOf
  <2>2. CASE recipe # "select"
    <3>1. pc' = [pc EXCEPT ![p] = After(p)] /\ todo' = [todo EXCEPT ![p] = Targets]
      BY <2>2 DEF Takes
    <3>2. pc'[p] = After(p) /\ todo'[p] = Targets /\ \A q \in Tasks \ {p} : pc'[q] = pc[q] /\ todo'[q] = todo[q]
      BY <1>1, <1>2, <3>1
    <3>3. TodoOf(p)'
      <4>1. CASE IsPool
        <5>1. pc'[p] \in {"pick", "handle"}
          BY <3>2, <4>1, AfterFacts
        <5> QED BY <5>1 DEF TodoOf
      <4>2. CASE ~IsPool
        <5>1. ~Works(p)' /\ Targets' = Targets
          BY <1>1, <4>2, SameRecipe DEF Works, Targets
        <5> QED BY <3>2, <5>1 DEF TodoOf
      <4> QED BY <4>1, <4>2
    <3> QED BY <3>2, <3>3
  <2> QED BY <2>1, <2>2
<1> QED BY <1>1, <1>3, TodoKept

\* The tasks that read their own source.
LEMMA TakesOwn ==
    ASSUME RInv, NEW p \in Started, Takes(p), ~IsPool
    PROVE  /\ item[p] = None /\ item'[p] = <<p, taken'[Src(p)]>> /\ item'[p] # None
           /\ taken'[Src(p)] = taken[Src(p)] + 1 /\ taken[Src(p)] \in Nat
           /\ \A q \in Started \ {p} : item'[q] = item[q] /\ taken'[Src(q)] = taken[Src(q)]
<1>1. p \in Sources /\ In(p) = Src(p)
  BY TakesFrom
<1>2. item'[p] # None
  BY TakesEffect, ItemFacts
<1>3. ASSUME NEW q \in Started \ {p} PROVE item'[q] = item[q] /\ taken'[Src(q)] = taken[Src(q)]
  <2>1. q \in Tasks /\ q \in Ids /\ Src(q) \in Chans /\ Src(q) # Src(p)
    BY StartedFacts, ChanFacts DEF Src
  <2> QED BY <1>1, <2>1, TakesEffect
<1> QED BY <1>1, <1>2, <1>3, TakesNew, TakesEffect

LEMMA TakesTee == ASSUME RInv, NEW p \in Started, Takes(p), recipe = "tee" PROVE TeeOK'
<1>1. p = 1 /\ Started = {1} /\ ~IsPool /\ recipe' = recipe /\ Dests' = Dests /\ log' = log /\ p \in Tasks
  BY TakesEffect, SameRecipe DEF Started, Sources, IsPool
<1>2. item[1] = None /\ item'[1] # None /\ taken'[Src(1)] = taken[Src(1)] + 1 /\ taken[Src(1)] \in Nat
  BY <1>1, TakesOwn
<1>3. todo'[1] = Dests
  <2>1. todo' = [todo EXCEPT ![p] = Targets] /\ Targets = Dests
    BY DEF Takes, Targets
  <2> QED BY <1>1, <2>1 DEF RInv, Inv, Shape
<1> SUFFICES ASSUME NEW c \in Dests
             PROVE  taken'[Src(1)] = Len(log[c]) + Owes(c)' /\ \A i \in DOMAIN log[c] : log[c][i] = <<1, i>>
  BY <1>1 DEF TeeOK
<1>4. Owes(c) = 0 /\ Owes(c)' = 1
  BY <1>2, <1>3 DEF Owes, Owed
<1>5. taken[Src(1)] = Len(log[c]) + Owes(c) /\ (\A i \in DOMAIN log[c] : log[c][i] = <<1, i>>) /\ Len(log[c]) \in Nat
  BY OutFacts, LogFacts DEF RInv, Inv, TeeOK
<1> QED BY <1>2, <1>4, <1>5

LEMMA TakesOrder == ASSUME RInv, NEW p \in Started, Takes(p) PROVE OrderOK'
<1>1. recipe' = recipe /\ log' = log /\ Dests' = Dests /\ Started' = Started /\ (IsPool' <=> IsPool)
  BY TakesEffect, SameRecipe
<1> SUFFICES ASSUME ~IsPool, recipe # "tee", NEW c \in Dests PROVE Sorted(c)' /\ Earlier(c)'
  BY <1>1 DEF OrderOK
<1>2. Sorted(c) /\ Earlier(c)
  BY DEF RInv, OrderOK
<1>3. ASSUME NEW j \in DOMAIN log[c], NEW s \in Started, log[c][j][1] = s
      PROVE  log[c][j][2] <= taken'[Src(s)] /\ (item'[s] # None => log[c][j][2] < taken'[Src(s)])
  <2>1. log[c][j][2] <= taken[Src(s)] /\ (item[s] # None => log[c][j][2] < taken[Src(s)])
    BY <1>2, <1>3 DEF Earlier
  <2>2. log[c][j][2] \in Nat
    <3>1. log[c] \in Seq(Items)
      BY OutFacts, LogFacts DEF RInv, Inv
    <3>2. log[c][j] \in Items
      BY <3>1
    <3> QED BY <3>2, ItemFacts
  <2>3. CASE s = p
    <3>1. taken'[Src(s)] = taken[Src(s)] + 1 /\ taken[Src(s)] \in Nat
      BY <2>3, TakesOwn
    <3> QED BY <2>1, <2>2, <3>1
  <2>4. CASE s # p
    BY <2>1, <2>4, TakesOwn
  <2> QED BY <2>3, <2>4
<1>4. Earlier(c)'
  BY <1>1, <1>3 DEF Earlier
<1>5. Sorted(c)'
  BY <1>1, <1>2 DEF Sorted
<1> QED BY <1>4, <1>5

LEMMA TakesDealt == ASSUME RInv, NEW p \in Started, Takes(p), recipe = "load_balance" PROVE DealtOK'
<1>1. p = 1 /\ ~IsPool /\ recipe' = recipe /\ log' = log /\ idx' = idx /\ idx \in Ids /\ N \in Nat \ {0}
  BY TakesEffect, OneId DEF Started, Sources, IsPool, RInv, Inv, Shape
<1>2. item[1] = None /\ item'[1] # None /\ taken'[Src(1)] = taken[Src(1)] + 1
  BY <1>1, TakesOwn
<1>3. PICK r \in Nat :
         /\ taken[Src(1)] = r * N + idx - 1 + (IF item[1] # None THEN 1 ELSE 0)
         /\ \A i \in Ids : /\ Len(log[Dst(i)]) = IF i < idx THEN r + 1 ELSE r
                           /\ \A j \in DOMAIN log[Dst(i)] : log[Dst(i)][j] = <<1, (j - 1) * N + i>>
  BY DEF RInv, DealtOK
<1>4. taken'[Src(1)] = r * N + idx - 1 + (IF item'[1] # None THEN 1 ELSE 0)
  <2>1. r * N \in Nat /\ idx \in Int
    BY <1>1 DEF Ids
  <2>2. taken[Src(1)] = r * N + idx - 1 + 0
    BY <1>2, <1>3
  <2> QED BY <1>2, <2>1, <2>2
<1> QED BY <1>1, <1>3, <1>4 DEF DealtOK

LEMMA TakesRouted == ASSUME RInv, Inv', NEW p \in Started, Takes(p) PROVE RInv'
<1>1. SpotsOK' /\ SourceOK' /\ TodoOK' /\ OrderOK'
  BY TakesSpots, TakesSource, TakesTodo, TakesOrder
<1>2. recipe' = recipe /\ Started' = Started /\ (IsPool' <=> IsPool)
  BY TakesEffect, SameRecipe
<1>3. OwnOK'
  <2> SUFFICES ASSUME ~IsPool, NEW q \in Started, item'[q] # None PROVE item'[q] = <<q, taken'[Src(q)]>>
    BY <1>2 DEF OwnOK
  <2>1. CASE q = p
    BY <2>1, TakesOwn
  <2>2. CASE q # p
    BY <2>2, TakesOwn DEF RInv, OwnOK
  <2> QED BY <2>1, <2>2
<1>4. TeeOK'
  <2>1. CASE recipe = "tee"
    BY <2>1, TakesTee
  <2>2. CASE recipe # "tee"
    BY <1>2, <2>2 DEF TeeOK
  <2> QED BY <2>1, <2>2
<1>5. DealtOK'
  <2>1. CASE recipe = "load_balance"
    BY <2>1, TakesDealt
  <2>2. CASE recipe # "load_balance"
    BY <1>2, <2>2 DEF DealtOK
  <2> QED BY <2>1, <2>2
<1> QED BY <1>1, <1>3, <1>4, <1>5 DEF RInv

-----------------------------------------------------------------------------
(* The second theorem.                                                       *)

LEMMA RInvStep == RInv /\ [Next]_vars => RInv'
<1> SUFFICES ASSUME RInv, [Next]_vars PROVE RInv'
  OBVIOUS
<1>1. Inv'
  BY InvStep DEF RInv
<1>2. ASSUME NEW s \in Sources, Produce(s) \/ CloseSource(s) PROVE RInv'
  BY <1>1, <1>2, ProduceQuiet, OutsideQuiet DEF CloseSource
<1>3. ASSUME NEW c \in Dests, Consume(c) \/ CloseDest(c) PROVE RInv'
  BY <1>1, <1>3, ConsumeQuiet, OutsideQuiet DEF CloseDest
<1>4. CASE CancelOutside \/ Finally \/ UNCHANGED vars
  <2>1. UNCHANGED <<args, log, taken, pc, item, todo, idx>>
    BY <1>4 DEF CancelOutside, Finally, vars, args
  <2> QED BY <1>1, <2>1, OutsideQuiet
<1>5. ASSUME NEW p \in Started, Step(p) PROVE RInv'
  <2>1. CASE Takes(p)
    BY <1>1, <2>1, TakesRouted
  <2>2. CASE \E c \in Chans : Sends(p, c)
    BY <1>1, <2>2, SendsRouted
  <2>3. CASE Parks(p) \/ Drained(p) \/ Picks(p) \/ Handles(p) \/ HandleFatal(p) \/ Locks(p) \/ Refused(p) \/ Cancelled(p)
    BY <1>1, <2>3, StepQuiet
  <2> QED BY <1>5, <2>1, <2>2, <2>3 DEF Step
<1> QED BY <1>2, <1>3, <1>4, <1>5 DEF Next

\* select() keeps the first item that one of its racers receives (_race).
LEMMA WinnerInit == Init => WinnerOK
<1> SUFFICES ASSUME Init PROVE Received = {} /\ winner = None
  BY DEF WinnerOK
<1>1. ASSUME NEW x \in Received PROVE FALSE
  <2>1. x[1] \in Ids /\ x[2] \in 1..MaxItems[recipe] /\ x[2] <= taken[Src(x[1])]
    BY StartedFacts DEF Received
  <2>2. taken[Src(x[1])] = 0
    BY <2>1, ChanFacts DEF Init
  <2> QED BY <2>1, <2>2
<1> QED BY <1>1 DEF Init

LEMMA WinnerStep == RInv /\ WinnerOK /\ [Next]_vars => WinnerOK'
<1> SUFFICES ASSUME RInv, WinnerOK, [Next]_vars PROVE WinnerOK'
  OBVIOUS
<1>1. ASSUME NEW p \in Started, Takes(p) PROVE WinnerOK'
  <2> SUFFICES ASSUME recipe = "select" PROVE Received' # {} /\ winner' \in Received'
    BY <1>1 DEF WinnerOK, Takes, args
  <2>1. p \in Sources /\ In(p) = Src(p)
    BY StartedFacts DEF IsPool
  <2>2. item'[p] \in Received' /\ Received' = Received \cup {item'[p]}
    BY <1>1, <2>1, TakesNew
  <2>3. winner' = IF winner = None THEN item'[p] ELSE winner
    BY <1>1 DEF Takes
  <2>4. winner # None => winner \in Received
    BY DEF WinnerOK
  <2> QED BY <2>2, <2>3, <2>4
<1>2. ASSUME recipe' = recipe, winner' = winner, \A s \in Ids : taken'[Src(s)] = taken[Src(s)] PROVE WinnerOK'
  BY <1>2, SameReceived DEF WinnerOK
<1>3. ASSUME NEW c \in Chans, taken' = [taken EXCEPT ![c] = taken[c] + 1], \A s \in Ids : c # Src(s)
      PROVE  \A s \in Ids : taken'[Src(s)] = taken[Src(s)]
  BY <1>3, ChanFacts DEF RInv, Inv, Shape
<1>4. ASSUME NEW c \in Dests, Consume(c) PROVE WinnerOK'
  <2>1. c \in Chans /\ \A s \in Ids : c # Src(s)
    BY DestFacts, ChanFacts
  <2> QED BY <1>2, <1>3, <1>4, <2>1 DEF Consume, args
<1>5. ASSUME NEW p \in Started, Picks(p) PROVE WinnerOK'
  <2>1. Ready \in Chans /\ \A s \in Ids : Ready # Src(s)
    BY ChanFacts
  <2> QED BY <1>2, <1>3, <1>5, <2>1 DEF Picks, args
<1>6. CASE UNCHANGED <<recipe, taken, winner>>
  BY <1>2, <1>6
<1>7. ASSUME NEW p \in Started, Step(p) PROVE WinnerOK'
  <2>1. CASE Parks(p) \/ Drained(p) \/ Handles(p) \/ Cancelled(p) \/ (\E c \in Chans : Sends(p, c))
    BY <1>6, <2>1 DEF Parks, Drained, Handles, Cancelled, Sends, args
  <2>2. CASE HandleFatal(p) \/ Locks(p) \/ Refused(p)
    BY <1>6, <2>2 DEF HandleFatal, Locks, Refused, Raises, args
  <2> QED BY <1>1, <1>5, <1>7, <2>1, <2>2 DEF Step
<1>8. CASE UNCHANGED vars \/ CancelOutside \/ Finally \/ (\E s \in Sources : Produce(s) \/ CloseSource(s))
           \/ (\E c \in Dests : CloseDest(c))
  BY <1>6, <1>8 DEF vars, args, CancelOutside, Finally, Produce, CloseSource, CloseDest
<1> QED BY <1>4, <1>7, <1>8 DEF Next

\* For any number of sources, destinations, workers and items, in whatever order
\* tasks, producers and consumers run, and whatever is closed, cancelled or
\* raised: an item that a recipe received is in one task, one worker's queue or
\* the output, once, and never lost or doubled between them; tee has put it into
\* every destination but those it still owes; items of one source keep their
\* order, load_balance deals them out in turn, and select() keeps the first one
\* it receives.  (_flow.py: _forward; worker_pool.py: _dispatch, _worker;
\* fanout.py: tee; merge.py, load_balance.py; select.py: _race)
THEOREM ItemsAreRoutedOnce == Spec => []RoutedOnce
<1>1. Spec => []RInv
  BY RInvInit, RInvStep, PTL DEF Spec
<1>2. Spec => []WinnerOK
  BY <1>1, WinnerInit, WinnerStep, PTL DEF Spec
<1> QED BY <1>1, <1>2, RInvRouted, PTL

=============================================================================
