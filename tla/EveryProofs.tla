---------------------------- MODULE EveryProofs ----------------------------
(***************************************************************************)
(* Periodic ticks are fresh for any period, tolerance and loop body.        *)
(***************************************************************************)
EXTENDS Every, WellFoundedInduction, TLAPS

Shape ==
    /\ now \in Nat /\ now <= Horizon /\ t0 \in Nat /\ tick \in Nat /\ asked \in Nat /\ last \in Nat \cup {-1}
    /\ period \in Periods /\ clock \in {"sim", "wall"}
    /\ pc \in {"begin", "check", "wait", "body", "ended"}

\* The next tick is of the schedule, ...
Scheduled == \E k \in Nat : tick = t0 + k * period

\* ... it is the first of them, or the first one after the moment it was asked for,
Since == IF clock = "sim" /\ last > asked THEN last ELSE asked
NextOne ==
    /\ last = -1 => tick = IF first = "now" THEN t0 ELSE t0 + period
    /\ last # -1 => tick > Since /\ tick - period <= Since /\ (last <= asked => tick > last)

\* ... and the body runs when it has come.
Inv ==
    /\ Shape
    /\ pc = "begin" => last = -1
    /\ pc # "begin" => Scheduled /\ NextOne
    /\ pc = "body" => tick <= now + Early

-----------------------------------------------------------------------------
\* The least-number principle, from the well-foundedness of < on Nat.
LEMMA LeastNat == ASSUME NEW T, T \subseteq Nat, T # {} PROVE \E x \in T : \A y \in T : x <= y
<1>1. PICK x \in T : \A y \in T : ~(<<y, x>> \in OpToRel(<, Nat))
  BY NatLessThanWellFounded, WFMin
<1>2. ASSUME NEW y \in T PROVE x <= y
  <2>1. ~(y < x)
    BY <1>1 DEF OpToRel
  <2> QED BY <2>1
<1> QED BY <1>2

LEMMA PeriodType == ASSUME Shape PROVE period \in Nat /\ period > Early /\ Early \in Nat /\ Horizon \in Nat
  BY EveryAssumption DEF Shape

LEMMA Multiple == ASSUME NEW p \in Nat \ {0}, NEW k \in Nat PROVE (k * p) % p = 0
  OBVIOUS

\* Enough steps from anywhere pass the present.
LEMMA FarEnough ==
    ASSUME NEW h \in Nat, NEW n \in Nat, n <= h, NEW f \in Nat, NEW p \in Nat \ {0}
    PROVE  f + (h + 1) * p > n
<1>1. (h + 1) * p >= h + 1
  OBVIOUS
<1>2. (h + 1) * p \in Nat
  OBVIOUS
<1> QED BY <1>1, <1>2

\* One period at a time, until the tick is later than now.
From == IF clock = "sim" THEN tick + period ELSE tick
LEMMA NextTickIs ==
    ASSUME Shape
    PROVE  \E k \in Nat : /\ NextTick = From + k * period /\ NextTick > now
                          /\ k = 0 \/ NextTick - period <= now
<1>1. period \in Nat \ {0} /\ Horizon \in Nat /\ now \in Nat /\ From \in Nat /\ now <= Horizon
  BY PeriodType DEF Shape, From
<1> DEFINE steps == {k \in 0..Horizon + 1 : From + k * period > now}
<1>2. Horizon + 1 \in steps
  <2>1. Horizon + 1 \in 0..Horizon + 1 /\ From + (Horizon + 1) * period > now
    BY <1>1, FarEnough
  <2> HIDE DEF From
  <2> QED BY <2>1, Zenon
<1>3. steps \subseteq Nat /\ steps # {}
  <2>1. 0..Horizon + 1 \subseteq Nat
    BY <1>1
  <2>2. steps \subseteq 0..Horizon + 1 /\ steps # {}
    BY <1>2, Zenon
  <2> HIDE DEF steps
  <2> QED BY <2>1, <2>2
<1>4. \E k \in steps : \A j \in steps : k <= j
  BY <1>3, LeastNat
<1>5. PICK k \in steps : NextTick = From + period * k /\ \A j \in steps : k <= j
  <2> DEFINE k == CHOOSE k \in steps : \A j \in steps : k <= j
  <2>1. NextTick = From + period * k
    BY DEF NextTick, From
  <2> HIDE DEF steps
  <2>2. k \in steps /\ \A j \in steps : k <= j
    BY <1>4
  <2> QED BY <2>1, <2>2
<1>6. k \in Nat /\ NextTick = From + k * period /\ From + k * period > now /\ k <= Horizon + 1
  BY <1>1, <1>5
<1>7. CASE k # 0
  <2>1. k - 1 \in 0..Horizon + 1 /\ k - 1 \notin steps
    <3>1. k - 1 \in Int /\ ~(k <= k - 1)
      BY <1>6
    <3> QED BY <1>1, <1>5, <1>6, <1>7, <3>1
  <2>2. From + (k - 1) * period <= now
    <3>1. (k - 1) * period \in Int
      BY <1>1, <1>6
    <3> QED BY <1>1, <2>1, <3>1
  <2>3. (k - 1) * period = k * period - period
    BY <1>1, <1>6
  <2>4. k * period \in Nat
    BY <1>1, <1>6
  <2> QED BY <1>1, <1>6, <2>2, <2>3, <2>4
<1> QED BY <1>6, <1>7

-----------------------------------------------------------------------------
LEMMA InitInv == Init => Inv
  BY EveryAssumption DEF Init, Inv, Shape

LEMMA BodyEndsStep == ASSUME Inv, BodyEnds PROVE Inv'
<1> USE DEF BodyEnds, args
<1>1. PICK k \in Nat : tick' = From + k * period /\ tick' > now /\ (k = 0 \/ tick' - period <= now)
  BY NextTickIs DEF Inv
<1>2. period \in Nat /\ period > Early /\ Early \in Nat /\ now \in Nat /\ tick \in Nat /\ tick <= now + Early /\ k * period \in Nat
  <2>1. period \in Nat /\ period > Early /\ Early \in Nat
    BY PeriodType DEF Inv
  <2> QED BY <2>1 DEF Inv, Shape
<1>3. tick' \in Nat /\ last' = tick /\ asked' = now
  BY <1>1, <1>2 DEF From
<1>4. Shape'
  BY <1>3 DEF Inv, Shape
<1>5. Scheduled'
  <2>1. PICK n \in Nat : tick = t0 + n * period
    BY DEF Inv, Scheduled
  <2>2. t0 \in Nat /\ n * period \in Nat /\ (n + k) * period = n * period + k * period /\ (n + k + 1) * period = n * period + k * period + period
    BY <1>2 DEF Inv, Shape
  <2>3. tick' = t0 + (n + k) * period \/ tick' = t0 + (n + k + 1) * period
    BY <1>1, <1>2, <2>1, <2>2 DEF From
  <2>4. n + k \in Nat /\ n + k + 1 \in Nat
    OBVIOUS
  <2> QED BY <2>3, <2>4 DEF Scheduled
<1>6. NextOne'
  <2>1. tick' > Since' /\ tick' - period <= Since' /\ (last' <= asked' => tick' > last')
    <3>1. CASE clock = "sim"
      <4>1. From = tick + period /\ Since' = IF tick > now THEN tick ELSE now
        BY <1>3, <3>1 DEF From, Since
      <4> QED BY <1>1, <1>2, <1>3, <4>1
    <3>2. CASE clock # "sim"
      <4>1. From = tick /\ Since' = now
        BY <1>3, <3>2 DEF From, Since
      <4> QED BY <1>1, <1>2, <1>3, <4>1
    <3> QED BY <3>1, <3>2
  <2>2. last' # -1
    BY <1>2, <1>3
  <2> QED BY <2>1, <2>2 DEF NextOne
<1> QED BY <1>4, <1>5, <1>6 DEF Inv

LEMMA BeginStep == ASSUME Inv, Begin PROVE Inv'
<1> USE DEF Begin, args
<1>1. period \in Nat /\ now \in Nat /\ last = -1
  BY PeriodType DEF Inv, Shape
<1>2. Shape'
  BY <1>1 DEF Inv, Shape
<1>3. Scheduled'
  <2>1. tick' = t0' + 0 * period \/ tick' = t0' + 1 * period
    BY <1>1
  <2> QED BY <2>1 DEF Scheduled
<1>4. NextOne'
  BY <1>1 DEF NextOne
<1> QED BY <1>2, <1>3, <1>4 DEF Inv

\* The tick has come when the body is entered.
LEMMA TickHasCome ==
    ASSUME Shape, (Check /\ tick <= now) \/ Wake
    PROVE  tick <= now + Early
<1>1. now \in Nat /\ tick \in Nat /\ Early \in Nat
  BY PeriodType DEF Shape
<1> QED BY <1>1 DEF Wake

LEMMA StillDue == ASSUME NEW t \in Nat, NEW n \in Nat, NEW m \in Nat, NEW e \in Nat, n <= m, t <= n + e PROVE t <= m + e
  OBVIOUS

\* Time passes, a stop is signalled, or a tick is waited for or yielded.
LEMMA StillStep ==
    ASSUME Inv, UNCHANGED <<args, t0, tick, asked, last>>, now' \in {now, now + 1}, now' <= Horizon,
           \/ pc' = pc
           \/ pc \in {"check", "wait"} /\ pc' \in {"wait", "body", "ended"} /\ (pc' = "body" => tick <= now' + Early)
    PROVE  Inv'
<1> USE DEF args
<1>1. now \in Nat /\ tick \in Nat /\ Early \in Nat
  BY PeriodType DEF Inv, Shape
<1>2. Shape'
  <2>1. now' \in Nat
    BY <1>1
  <2> QED BY <2>1 DEF Inv, Shape
<1>3. pc' = "body" => tick' <= now' + Early
  <2>1. now <= now' /\ now' \in Nat /\ tick' = tick
    BY <1>1
  <2>2. pc' = "body" => tick <= now + Early \/ tick <= now' + Early
    BY DEF Inv
  <2>3. tick <= now + Early => tick <= now' + Early
    BY <1>1, <2>1, StillDue
  <2> QED BY <2>1, <2>2, <2>3
<1>4. (Scheduled => Scheduled') /\ (NextOne => NextOne')
  BY DEF Scheduled, NextOne, Since
<1> QED BY <1>2, <1>3, <1>4 DEF Inv

LEMMA InvStep == Inv /\ [Next]_vars => Inv'
<1> SUFFICES ASSUME Inv, [Next]_vars PROVE Inv'
  OBVIOUS
<1>0. now \in Nat /\ now <= Horizon /\ Horizon \in Nat
  BY PeriodType DEF Inv, Shape
<1>1. CASE UNCHANGED vars \/ StopSignalled
  BY <1>0, <1>1, StillStep DEF vars, StopSignalled
<1>2. CASE TimePasses
  <2>1. now + 1 <= Horizon
    BY <1>0, <1>2 DEF TimePasses
  <2> QED BY <1>2, <2>1, StillStep DEF TimePasses
<1>3. CASE Check
  <2>1. pc' = "body" => tick <= now + Early
    BY <1>3, TickHasCome DEF Check, Inv
  <2> QED BY <1>0, <1>3, <2>1, StillStep DEF Check, Yield
<1>4. CASE Wake
  <2>1. tick <= now + Early
    BY <1>4, TickHasCome DEF Inv
  <2> QED BY <1>0, <1>4, <2>1, StillStep DEF Wake, Yield
<1> QED BY <1>1, <1>2, <1>3, <1>4, BeginStep, BodyEndsStep DEF Next

LEMMA InvAlways == Spec => []Inv
  BY InitInv, InvStep, PTL DEF Spec

-----------------------------------------------------------------------------
\* The body sees the first tick of the schedule after the moment it asked for one,
\* whatever it missed, never before its time, and none once the stop is signalled
\* (every, cooperative_every).
THEOREM TicksAreFresh == Spec => FreshTicks
<1>1. ASSUME Inv, [Next]_vars PROVE [(pc # "body" /\ pc' = "body") => IsFresh /\ ~stopping]_vars
  <2> SUFFICES ASSUME pc # "body", pc' = "body" PROVE IsFresh /\ ~stopping
    OBVIOUS
  <2>1. (Check /\ tick <= now) \/ Wake
    BY <1>1 DEF Next, TimePasses, StopSignalled, Begin, Check, BodyEnds, vars
  <2>2. ~stopping /\ pc # "begin"
    BY <2>1 DEF Check, Wake, Yield
  <2>3. tick <= now + Early
    BY <1>1, <2>1, TickHasCome DEF Inv
  <2>4. tick >= t0 /\ (tick - t0) % period = 0
    <3>1. PICK k \in Nat : tick = t0 + k * period
      BY <1>1, <2>2 DEF Inv, Scheduled
    <3>2. period \in Nat \ {0} /\ t0 \in Nat
      BY <1>1, PeriodType DEF Inv, Shape
    <3>3. k * period \in Nat /\ (k * period) % period = 0
      BY <3>2, Multiple
    <3>4. tick - t0 = k * period
      BY <3>1, <3>2, <3>3
    <3> QED BY <3>1, <3>2, <3>3, <3>4
  <2> QED BY <1>1, <2>2, <2>3, <2>4 DEF Inv, NextOne, Since, IsFresh
<1> QED BY <1>1, InvAlways, PTL DEF Spec, FreshTicks
=============================================================================
