---------------------------- MODULE TimersProofs ----------------------------
(* Proofs about Timers.tla, for every width of the timer and every delay.  *)
EXTENDS Timers, TLAPS

(* The conversion back to INT32 is exact for a value that is one, also     *)
(* when the UINT32 taken from it was the difference of a wrap-around.      *)
LEMMA SignedIsExact ==
  ASSUME NEW x \in Int, -H <= x, x < H
  PROVE  Signed(x) = x /\ Signed(x - M) = x
<1>1. H \in Nat /\ M \in Nat /\ M = 2 * H /\ 0 < H
  BY TimerAssumption DEF M
<1>2. CASE 0 <= x
  <2>1. x % M = x /\ (x - M) % M = x
    BY <1>1, <1>2
  <2> QED
    BY <1>1, <1>2, <2>1 DEF Signed, Unsigned
<1>3. CASE x < 0
  <2>1. x % M = x + M /\ (x - M) % M = x + M
    BY <1>1, <1>3
  <2> QED
    BY <1>1, <1>3, <2>1 DEF Signed, Unsigned
<1> QED
  BY <1>1, <1>2, <1>3

(* The timer moves up by one and falls from W - 1 to 0.                    *)
LEMMA TickIsWrap ==
  ASSUME NEW i \in 0 .. W - 1
  PROVE  (i + 1) % W = IF i + 1 = W THEN 0 ELSE i + 1
<1>1. W \in Nat /\ 1 < W /\ i \in Nat
  BY TimerAssumption
<1> QED
  BY <1>1

(* What is kept: the readings are less than a turn apart; in a delay of    *)
(* WaitMs the time left is exact but for the ticks lost; and a counter has *)
(* at least the time left that it should have.                             *)
Types ==
  /\ t \in 0 .. W - 1 /\ t0 \in 0 .. W - 1
  /\ pc \in {"idle", "wait", "counter"}
  /\ ms \in Int
  /\ asked \in Nat /\ elapsed \in Nat /\ gap \in Nat /\ wraps \in Nat

Apart ==
  /\ gap <= MaxGap /\ gap <= elapsed /\ elapsed <= MaxTicks
  /\ pc # "idle" => asked \in Delays /\ (t = t0 + gap \/ t = t0 + gap - W)

WaitLeft ==
  pc = "wait" => /\ ms = asked - (elapsed - gap) + wraps
                 /\ ms <= asked /\ -W < ms

CounterLeft ==
  pc = "counter" => /\ asked - (elapsed - gap) <= ms
                    /\ ms + t0 < asked + W + wraps /\ -W < ms
                    /\ wraps <= elapsed - gap

TInv == Types /\ Apart /\ WaitLeft /\ CounterLeft

(* The readings: without a wrap-around since the last one t is t0 + gap,   *)
(* with one it is a turn less.                                             *)
LEMMA Readings ==
  ASSUME TInv, pc # "idle"
  PROVE  /\ t >= t0 => t - t0 = gap
         /\ t < t0 => t + W - t0 = gap
         /\ gap \in Nat /\ t \in Nat /\ t0 \in Nat /\ gap < W /\ t < W /\ t0 < W
  BY TimerAssumption DEF TInv, Types, Apart

(* The numbers of a delay are far from the ends of INT32.                  *)
LEMMA Numbers ==
  ASSUME TInv, pc # "idle"
  PROVE  /\ W \in Nat /\ 1 < W /\ H \in Nat /\ M = 2 * H /\ MaxTicks \in Nat
         /\ ms \in Int /\ asked \in Nat /\ elapsed \in Nat /\ wraps \in Nat
         /\ elapsed <= MaxTicks /\ gap <= elapsed
         /\ asked + MaxTicks + W < H
  BY TimerAssumption DEF TInv, Types, Apart, M

(* It holds before the first delay.                                        *)
LEMMA TInvInit == Init => TInv
  BY TimerAssumption DEF Init, TInv, Types, Apart, WaitLeft, CounterLeft

(* A turn of the loop of WaitMs.                                           *)
LEMMA WaitPollKeeps == TInv /\ WaitPoll => TInv'
<1> SUFFICES ASSUME TInv, WaitPoll PROVE TInv'
  OBVIOUS
<1>1. pc = "wait" /\ pc' = "wait" /\ ms > 0 /\ t0' = t /\ gap' = 0
      /\ UNCHANGED <<t, asked, elapsed>>
      /\ wraps' = (IF t < t0 THEN wraps + 1 ELSE wraps)
      /\ ms' = Signed(ms - Passed(t))
  BY DEF WaitPoll, Reading
<1>2. ms = asked - (elapsed - gap) + wraps /\ ms <= asked
  BY <1>1 DEF TInv, WaitLeft
<1> DEFINE left == ms - Passed(t)
<1>3. left \in Int /\ -W < left /\ left <= ms /\ left < H /\ -H <= left
      /\ left = asked - elapsed + wraps'
  BY <1>1, <1>2, Readings, Numbers DEF Passed
<1>4. ms' = left
  <2> HIDE DEF left
  <2>1. Signed(left) = left
    BY <1>3, SignedIsExact
  <2> QED
    BY <1>1, <2>1 DEF left
<1> HIDE DEF left
<1>5. Types' /\ Apart'
  BY <1>1, <1>3, <1>4, TimerAssumption DEF TInv, Types, Apart
<1>6. WaitLeft' /\ CounterLeft'
  BY <1>1, <1>2, <1>3, <1>4, Numbers DEF WaitLeft, CounterLeft
<1> QED
  BY <1>5, <1>6 DEF TInv

(* A call of CounterArrived.                                               *)
LEMMA CounterArrivedKeeps == TInv /\ CounterArrived => TInv'
<1> SUFFICES ASSUME TInv, CounterArrived PROVE TInv'
  OBVIOUS
<1>1. pc = "counter" /\ pc' = "counter" /\ ms > 0 /\ t0' = t /\ gap' = 0
      /\ UNCHANGED <<t, asked, elapsed>>
      /\ wraps' = (IF t < t0 THEN wraps + 1 ELSE wraps)
      /\ ms' = Signed(ms - CounterPassed(t))
  BY DEF CounterArrived, Reading
<1>2. asked - (elapsed - gap) <= ms /\ ms + t0 < asked + W + wraps
      /\ wraps <= elapsed - gap
  BY <1>1 DEF TInv, CounterLeft
<1> DEFINE left == IF t < t0 THEN ms + 1 + t0 - t ELSE ms - (t - t0)
<1>3. left \in Int /\ -W < left /\ left < H /\ -H <= left
      /\ left + t < asked + W + wraps' /\ asked - elapsed <= left
      /\ wraps' <= elapsed
  BY <1>1, <1>2, Readings, Numbers
<1>4. ms' = left
  <2>1. Signed(left) = left /\ Signed(left - M) = left
    <3> HIDE DEF left
    <3> QED
      BY <1>3, SignedIsExact
  <2>2. CASE t < t0
    <3> DEFINE d == t + (M - 1) - t0
    <3>1. d \in Int /\ 0 <= d /\ d < M /\ M \in Nat
      BY <1>1, <2>2, Readings, Numbers
    <3>2. d % M = d
      <4> HIDE DEF d
      <4> QED
        BY <3>1
    <3>3. ms - CounterPassed(t) = left - M
      BY <1>1, <2>2, <3>2, Readings, Numbers DEF CounterPassed, Unsigned
    <3> QED
      BY <1>1, <2>1, <3>3
  <2>3. CASE ~ (t < t0)
    <3>1. ms - CounterPassed(t) = left
      BY <2>3 DEF CounterPassed
    <3> QED
      BY <1>1, <2>1, <3>1
  <2> QED
    BY <2>2, <2>3
<1> HIDE DEF left
<1>5. Types' /\ Apart'
  BY <1>1, <1>3, <1>4, TimerAssumption DEF TInv, Types, Apart
<1>6. WaitLeft' /\ CounterLeft'
  BY <1>1, <1>2, <1>3, <1>4, Numbers DEF WaitLeft, CounterLeft
<1> QED
  BY <1>5, <1>6 DEF TInv

(* The timer counts.                                                       *)
LEMMA TickKeeps == TInv /\ Tick => TInv'
<1> SUFFICES ASSUME TInv, Tick PROVE TInv'
  OBVIOUS
<1>1. t' = (IF t + 1 = W THEN 0 ELSE t + 1)
  BY TickIsWrap DEF Tick, TInv, Types
<1>2. pc # "idle" /\ gap < MaxGap /\ elapsed < MaxTicks
      /\ elapsed' = elapsed + 1 /\ gap' = gap + 1
      /\ UNCHANGED <<pc, ms, t0, asked, wraps>>
  BY DEF Tick
<1>3. Types' /\ Apart'
  BY <1>1, <1>2, TimerAssumption DEF TInv, Types, Apart
<1>4. elapsed' - gap' = elapsed - gap
  BY <1>2 DEF TInv, Types
<1> QED
  BY <1>2, <1>3, <1>4 DEF TInv, WaitLeft, CounterLeft

(* Every step keeps it.                                                    *)
LEMMA TInvStep == TInv /\ [Next]_vars => TInv'
<1> SUFFICES ASSUME TInv, [Next]_vars PROVE TInv'
  OBVIOUS
<1>1. ASSUME NEW delay \in Delays, NEW how \in {"wait", "counter"}, Start(delay, how)
      PROVE  TInv'
  <2>1. delay \in Nat /\ t \in Nat /\ t < W /\ W \in Nat
    BY TimerAssumption DEF TInv, Types
  <2> QED
    BY <1>1, <2>1, TimerAssumption DEF Start, TInv, Types, Apart, WaitLeft, CounterLeft
<1>2. ASSUME WaitReturn \/ CounterDropped PROVE TInv'
  BY <1>2 DEF WaitReturn, CounterDropped, TInv, Types, Apart, WaitLeft, CounterLeft
<1>3. CASE Next
  BY <1>1, <1>2, <1>3, TickKeeps, WaitPollKeeps, CounterArrivedKeeps
     DEF Next, WaitMs, StartCounter
<1>4. CASE UNCHANGED vars
  BY <1>4 DEF vars, TInv, Types, Apart, WaitLeft, CounterLeft
<1> QED
  BY <1>3, <1>4

(* WaitMs and WaitUs never return early, and they are late only by the     *)
(* ticks that wrap-arounds lose, for every timer and every delay.          *)
THEOREM DelaysAreRight == Spec => []WaitTime
<1>1. TInv => WaitTime
  <2> SUFFICES ASSUME TInv, pc = "wait" PROVE WaitNotShort /\ WaitNotLong
    BY DEF WaitTime, WaitNotShort, WaitNotLong
  <2>1. ms = asked - (elapsed - gap) + wraps
    BY DEF TInv, WaitLeft
  <2>2. gap \in Nat
    BY DEF TInv, Types
  <2> QED
    BY <2>1, <2>2, Numbers DEF WaitNotShort, WaitNotLong
<1> QED
  BY TInvInit, TInvStep, <1>1, PTL DEF Spec

(* CounterArrived never returns TRUE before the time asked for.            *)
THEOREM CountersAreNotEarly == Spec => []CounterNotEarly
<1>1. TInv => CounterNotEarly
  <2> SUFFICES ASSUME TInv, pc = "counter" PROVE CounterNotEarly
    BY DEF CounterNotEarly
  <2>1. asked - (elapsed - gap) <= ms /\ gap \in Nat
    BY DEF TInv, CounterLeft, Types
  <2> QED
    BY <2>1, Numbers DEF CounterNotEarly
<1> QED
  BY TInvInit, TInvStep, <1>1, PTL DEF Spec
=============================================================================
