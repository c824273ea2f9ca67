------------------------------- MODULE Floor -------------------------------
(***************************************************************************)
(* The floor of firmware/src/floor.c: the dead-man that gates one actuator *)
(* port.  It is a pure component (a struct and three functions), so it is  *)
(* a module of operators on a record; the modules that own a floor hold    *)
(* the record in a variable of theirs.                                     *)
(*                                                                         *)
(* A packed value is opaque to the floor and is an element of Value.  The  *)
(* width n is left out, and with it the fail-closed branches for n > 64:   *)
(* they serve a value-type wider than FLOOR_MAX_VALUE, which checks.ex     *)
(* admits but no robot of the repository has (README, section 7).          *)
(***************************************************************************)
EXTENDS Integers

CONSTANTS
  SeqMod,     \* number of command seqs: 2^16 in the C code
  ClockMod,   \* modulus of the u32 subtraction of floor_tick: 2^32
  Window,     \* window_ms = FLOOR_MISSES * CMD_PERIOD_MS
  Value,      \* the packed values of the port's value-type
  Safe        \* the safe action, one of them

ASSUME FloorAssumption ==
  /\ SeqMod \in Nat \ {0}
  /\ ClockMod \in Nat \ {0}
  /\ Window \in Nat \ {0}
  /\ Safe \in Value

Seqs == 0 .. SeqMod - 1
Millis == 0 .. ClockMod - 1

FloorState ==
  [cmdSeq : Seqs, lastSeq : Seqs, lastAdvance : Millis, target : Value,
   armed : BOOLEAN, haveBaseline : BOOLEAN, seenAdvance : BOOLEAN]

FloorInit ==
  [cmdSeq |-> 0, lastSeq |-> 0, lastAdvance |-> 0, target |-> Safe,
   armed |-> FALSE, haveBaseline |-> FALSE, seenAdvance |-> FALSE]

(* Record the command: its seq is watched, its value is the target. *)
OnCommand(f, seq, value) == [f EXCEPT !.cmdSeq = seq, !.target = value]

(* (uint32_t)(a - b) for a and b below 2^32. *)
ElapsedMillis(a, b) == IF a >= b THEN a - b ELSE a - b + ClockMod

(* The tick sees an advance: a seq other than the one it last recorded. *)
Advanced(f) == f.haveBaseline /\ f.cmdSeq # f.lastSeq

(* Mutant: no have_baseline, the first seq is compared with last_seq = 0. *)
ObserveNoBaseline(f, now) ==
  IF f.cmdSeq # f.lastSeq
  THEN [f EXCEPT !.haveBaseline = TRUE, !.lastSeq = f.cmdSeq,
                 !.seenAdvance = TRUE, !.lastAdvance = now]
  ELSE [f EXCEPT !.haveBaseline = TRUE]

(* First half of floor_tick: take the baseline, or witness an advance. *)
Observe(f, now) ==
  IF ~f.haveBaseline
  THEN [f EXCEPT !.haveBaseline = TRUE, !.lastSeq = f.cmdSeq]
  ELSE IF Advanced(f)
  THEN [f EXCEPT !.lastSeq = f.cmdSeq, !.seenAdvance = TRUE,
                 !.lastAdvance = now]
  ELSE f

(* Mutant: the window is not looked at, one advance arms for good. *)
FreshNoWindow(f, now) == f.seenAdvance

(* Mutant: the subtraction has its operands swapped. *)
FreshSwapped(f, now) ==
  f.seenAdvance /\ ElapsedMillis(f.lastAdvance, now) < Window

(* The witnessed advance is inside the window, on the hub's own clock. *)
Fresh(f, now) ==
  f.seenAdvance /\ ElapsedMillis(now, f.lastAdvance) < Window

FloorTick(f, now) ==
  LET g == Observe(f, now) IN [g EXCEPT !.armed = Fresh(g, now)]

(* What floor_tick hands back to be driven, read off the ticked record. *)
DriveOut(f) == IF f.armed THEN f.target ELSE Safe
=============================================================================
