--------------------------- MODULE MCCommandPath ---------------------------
(***************************************************************************)
(* The way of a command for TLC, in two parts: from the controller to the  *)
(* views (StopPath), and from the views to the hubs (CommandPath).  Each   *)
(* takes of the other whatever it may do, in any order, so interleaving    *)
(* them would only multiply their states: one of the two parts runs, and   *)
(* stays the one, and the fairness of the other is not assumed.            *)
(*                                                                         *)
(* CommandPath: a floored slot that gets three commands, beside one        *)
(* without a floor that is watched only by a call and gets one.  StopPath: *)
(* the robot of the example, with two wheels and balance off at the start. *)
(***************************************************************************)
EXTENDS CommandPath, StopPath

CONSTANTS wheel, led, left, right

MCMaxWrites == [s \in {wheel, led} |-> IF s = wheel THEN 3 ELSE 1]
LeftThenRight == <<left, right>>

VARIABLE part   \* the one that runs

partVars == <<part, vars, stopVars>>

PartInit == part \in {"commands", "stop"} /\ Init /\ StopInit

PartNext ==
  /\ UNCHANGED part
  /\ \/ part = "commands" /\ Next /\ UNCHANGED stopVars
     \/ part = "stop" /\ StopNext /\ UNCHANGED vars

PartFairness ==
  \/ part = "commands" /\ Fairness
  \/ part = "stop" /\ StopFairness

PartSpec == PartInit /\ [][PartNext]_partVars /\ PartFairness
=============================================================================
