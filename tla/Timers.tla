------------------------------- MODULE Timers -------------------------------
(***************************************************************************)
(* The delays of Src/Src/bsp.c: WaitUs and WaitMs, which spin until the    *)
(* time has passed, and StartCounter / CounterArrived, which tmcSendDat    *)
(* polls to give up on the host.  All read a free-running counter of 16    *)
(* bits and add up the differences of what they read.                      *)
(*                                                                         *)
(* External: TIM2 and TIM3, which count on whatever the program does, and  *)
(* the loop that polls the counter.                                        *)
(***************************************************************************)
EXTENDS Integers

CONSTANTS W,        \* 2^16: the period of the timer
          H,        \* 2^31: INT32 is -H .. H - 1, UINT32 0 .. 2 * H - 1
          Delays,   \* the delays asked for
          MaxGap,   \* most ticks between two readings of the timer
          MaxTicks  \* bound on the ticks of one delay; WaitEnds shows WaitMs never meets it

ASSUME TimerAssumption ==
  /\ W \in Nat /\ 1 < W /\ H \in Nat
  /\ MaxGap \in Nat /\ 0 < MaxGap /\ MaxGap < W
  /\ MaxTicks \in Nat
  /\ Delays \subseteq Nat /\ \A delay \in Delays : delay + MaxTicks + W < H

VARIABLES t,       \* TIM3->CNT
          pc,      \* "idle", "wait" (in WaitMs), "counter" (started)
          ms, t0,  \* the time left, and the last reading
          asked,   \* the delay asked for
          elapsed, \* ticks since then
          gap,     \* ticks since the last reading
          wraps    \* times a reading was less than the one before

vars == <<t, pc, ms, t0, asked, elapsed, gap, wraps>>

M == 2 * H

Unsigned(x) == x % M

(* An INT32 from which a UINT32 is taken is converted back.                *)
Signed(x) == IF Unsigned(x) < H THEN Unsigned(x) ELSE Unsigned(x) - M

Init ==
  /\ t \in 0 .. W - 1
  /\ pc = "idle"
  /\ ms = 0 /\ t0 = 0 /\ asked = 0 /\ elapsed = 0 /\ gap = 0 /\ wraps = 0

(* The timer counts.  The readings are not too far apart: interrupts are   *)
(* short.                                                                  *)
Tick ==
  /\ pc # "idle"
  /\ gap < MaxGap
  /\ elapsed < MaxTicks
  /\ t' = (t + 1) % W
  /\ elapsed' = elapsed + 1
  /\ gap' = gap + 1
  /\ UNCHANGED <<pc, ms, t0, asked, wraps>>

Start(delay, how) ==
  /\ pc = "idle"
  /\ pc' = how
  /\ ms' = delay /\ asked' = delay
  /\ t0' = t
  /\ elapsed' = 0 /\ gap' = 0 /\ wraps' = 0
  /\ UNCHANGED t

(* WaitMs and WaitUs up to their loop, and the start of a counter.         *)
WaitMs(delay) == Start(delay, "wait")
StartCounter(delay) == Start(delay, "counter")

(* Bug form: the wrap-around is that of a timer of 32 bits.                *)
PassedWide(t1) == IF t1 < t0 THEN Unsigned(t1 + (M - 1) - t0) ELSE t1 - t0

(* Bug form: the tick of the wrap-around is counted twice.                 *)
PassedOneMore(t1) == IF t1 < t0 THEN t1 + W + 1 - t0 ELSE t1 - t0

(* The time between two readings, in WaitMs: MAXUINT16 is W - 1.           *)
Passed(t1) == IF t1 < t0 THEN t1 + (W - 1) - t0 ELSE t1 - t0

(* Bug form: the counter is taken to be of 16 bits, and one tick is added. *)
CounterPassedOneMore(t1) == PassedOneMore(t1)

(* ... and in CounterArrived: MAXUINT32 is M - 1.                          *)
CounterPassed(t1) == IF t1 < t0 THEN Unsigned(t1 + (M - 1) - t0) ELSE t1 - t0

Reading(passed) ==
  /\ ms' = Signed(ms - passed)
  /\ t0' = t
  /\ gap' = 0
  /\ wraps' = IF t < t0 THEN wraps + 1 ELSE wraps
  /\ UNCHANGED <<t, asked, elapsed>>

(* One turn of while ( ms > 0 ) ...                                        *)
WaitPoll ==
  /\ pc = "wait" /\ ms > 0
  /\ Reading(Passed(t))
  /\ UNCHANGED pc

(* ... and its end.                                                        *)
WaitReturn ==
  /\ pc = "wait" /\ ms <= 0
  /\ pc' = "idle"
  /\ UNCHANGED <<t, ms, t0, asked, elapsed, gap, wraps>>

(* CounterArrived while there is time left: it returns ms <= 0.            *)
CounterArrived ==
  /\ pc = "counter" /\ ms > 0
  /\ Reading(CounterPassed(t))
  /\ UNCHANGED pc

(* Its caller stops: the counter has arrived, or it is no longer needed.   *)
CounterDropped ==
  /\ pc = "counter"
  /\ pc' = "idle"
  /\ UNCHANGED <<t, ms, t0, asked, elapsed, gap, wraps>>

Next ==
  \/ Tick
  \/ \E delay \in Delays : WaitMs(delay)
  \/ WaitPoll
  \/ WaitReturn
  \/ \E delay \in Delays : StartCounter(delay)
  \/ CounterArrived
  \/ CounterDropped

(* Hardware counts, and a loop that has been entered goes on.              *)
Spec ==
  /\ Init /\ [][Next]_vars
  /\ WF_vars(Tick) /\ WF_vars(WaitPoll) /\ WF_vars(WaitReturn) /\ WF_vars(CounterArrived)

-----------------------------------------------------------------------------
(* A delay of WaitMs or WaitUs is never shorter than asked for, also when  *)
(* the timer wraps around in it: it ends only after that many ticks.       *)
WaitNotShort == pc = "wait" /\ ms <= 0 => elapsed >= asked

(* ... and it is longer only by the one tick that each wrap-around loses.  *)
(* It goes on after a reading only if, but for those, time is left.        *)
WaitNotLong == pc = "wait" /\ ms > 0 => elapsed - gap < asked + wraps

(* A delay lasts as long as it should.                                     *)
WaitTime == WaitNotShort /\ WaitNotLong

(* Every delay ends.                                                       *)
WaitEnds == (pc = "wait") ~> (pc = "idle")

(* A counter never arrives early.                                          *)
CounterNotEarly == pc = "counter" /\ ms <= 0 => elapsed >= asked

(* A counter for a number of ms arrives after them (StartCounter(&counter, *)
(* 50) is "50ms"): it is not late by a whole turn of the timer.            *)
CounterInTime == pc = "counter" /\ gap = 0 /\ elapsed >= asked + W => ms <= 0
=============================================================================
