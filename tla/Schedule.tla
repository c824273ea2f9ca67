------------------------------ MODULE Schedule ------------------------------
(***************************************************************************)
(* The table of a hub's ticks (hub_tasks) and when scheduler.c fires them. *)
(* Times are in units of Unit = 10 ms, the period of the fastest row.      *)
(*                                                                         *)
(* A row that is due runs and remembers the clock register of its pass,    *)
(* not the instant at which it ran nor the one at which it fell due.  The  *)
(* clock is micros(), whose u32 wraps; the difference wraps with it.       *)
(***************************************************************************)
EXTENDS Integers

CONSTANTS
  UsWrap,        \* 2^32 us, the period of micros()
  RangePeriod,   \* period of the range_front row, 50 ms
  PosePeriod,    \* period of the pose row, 10 ms
  EchoTimeout,   \* RANGE_ECHO_TIMEOUT_US, 30 ms
  WakeDelay,     \* the delay(10) of the IMU's bring-up
  Slack          \* all else that a pass spends: pumping, bus reads, sends

(* A longest pass and a longest period fit in half a turn of the clock.     *)
(* The periods leave room: a range read is over before the next one is due, *)
(* and so is a pose period, and no pass spends more than an echo can take.  *)
ASSUME ScheduleAssumption ==
  /\ RangePeriod \in Nat \ {0} /\ PosePeriod \in Nat \ {0}
  /\ EchoTimeout \in Nat /\ WakeDelay \in Nat /\ Slack \in Nat
  /\ UsWrap \in Nat
  /\ UsWrap > 2 * (RangePeriod + PosePeriod + EchoTimeout + WakeDelay + Slack)
  /\ EchoTimeout + Slack < RangePeriod
  /\ PosePeriod + Slack <= RangePeriod
  /\ Slack <= EchoTimeout

Micros == 0 .. UsWrap - 1

NextMicro(t) == IF t + 1 < UsWrap THEN t + 1 ELSE 0

(* (uint32_t)(t - since) of two readings of the clock. *)
Since(t, since) == IF t >= since THEN t - since ELSE t - since + UsWrap

(* Mutant: the due time is computed and compared, and does not wrap. *)
DueNoWrap(now, last, period) == now >= last + period

(* (uint32_t)(now_us - last_us) >= period_us. *)
Due(now, last, period) == Since(now, last) >= period

Period(row) == IF row = "range" THEN RangePeriod ELSE PosePeriod
=============================================================================
