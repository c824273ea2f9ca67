---------------------------- MODULE DeadManSwitch ----------------------------
(***************************************************************************)
(* What an actuator hub promises, with nothing of how it does: no seqs, no *)
(* floor record, no clock that wraps, no loop.                             *)
(*                                                                         *)
(* The switch is born open.  It may close only once somebody was heard     *)
(* after the boot, it is judged again and again, and time may not carry a  *)
(* closed switch past Limit: it has to be opened before.  How long nobody  *)
(* was noticed is known up to Forever; past that the switch promises only  *)
(* that somebody was heard once.                                           *)
(***************************************************************************)
EXTENDS Integers

CONSTANTS
  Limit,     \* the longest that it stays closed with nobody noticed
  Lag,       \* how late a judgement may come
  Forever    \* the longest idleness that is told from longer ones

VARIABLES
  driving,   \* the switch is closed
  idle,      \* how long ago somebody was last noticed
  earned     \* somebody was heard since the boot, once at least: how often
             \* it takes is left to what implements the switch

switch == <<driving, idle, earned>>

Init == ~driving /\ idle = Forever /\ ~earned

Hear == earned' = TRUE /\ UNCHANGED <<driving, idle>>

(* It is judged: with somebody noticed just now or with nobody, and it may *)
(* be opened for any reason.                                               *)
Judge ==
  /\ idle' = idle \/ (earned /\ idle' \in 0 .. Lag)
  /\ driving' \in BOOLEAN
  /\ driving' => earned /\ (idle' < Limit \/ idle' = Forever)
  /\ UNCHANGED earned

Age ==
  /\ idle' = IF idle < Forever THEN idle + 1 ELSE idle
  /\ driving => idle' < Limit \/ idle' = Forever
  /\ UNCHANGED <<driving, earned>>

Reboot == ~driving' /\ idle' = Forever /\ ~earned'

Next == Hear \/ Judge \/ Age \/ Reboot

Spec == Init /\ [][Next]_switch
=============================================================================
