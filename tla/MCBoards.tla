------------------------------ MODULE MCBoards ------------------------------
(***************************************************************************)
(* The two boards of the example robot for TLC.  They share nothing but    *)
(* the bytes between them, and each is modelled to take any frame at any   *)
(* time, so interleaving them would only multiply their states: of the two *)
(* boards one is powered, and stays the one.                               *)
(***************************************************************************)
EXTENDS Wheels, Schedule

CONSTANT HostCap   \* how many frames of the host's are waiting at most

ASSUME HostAssumption == HostCap \in Nat

VARIABLES
  board,   \* the one that is powered
  loop, us, now, spent, waited, last, hostRx, inited, imu, answers, sent, mute

Root == INSTANCE Blaster

(* What the commands ask for is never the safe action, so that driving and *)
(* not driving differ.                                                     *)
Sent == {c \in Command : c.value # Safe}

rootVars ==
  <<loop, us, now, spent, waited, last, hostRx, inited, imu, answers, sent, mute>>
boardsVars == <<board, wheelsVars, rootVars>>

BoardsInit ==
  /\ board \in {"wheels", "blaster"}
  /\ Init
  /\ Root!Init
  /\ board = "wheels" => imu = "asleep" /\ answers

BoardsNext ==
  /\ UNCHANGED board
  /\ \/ board = "wheels" /\ Next(Sent) /\ UNCHANGED rootVars
     \/ board = "blaster" /\ Root!Next /\ UNCHANGED wheelsVars

Spec == BoardsInit /\ [][BoardsNext]_boardsVars

(* On the powered wheels board each wheel is an actuator hub of one port    *)
(* (LeftIsAHub and RightIsAHub of Wheels), whatever the other one is sent.  *)
EachWheelIsAHub == LeftIsAHub /\ RightIsAHub

(* On the Blaster no command for the wheels waits for longer than one       *)
(* longest pass, blocking reads included, and the pump behind it.           *)
RelayedInTime == Root!RelayedInTime

(* An IMU that answers is heard within MuteBound, whatever the range read,  *)
(* the wrap of the clock and earlier failures of its bring-up do.           *)
PoseHeard == Root!PoseHeard

(* No pose goes up that was read from an IMU still in its reset state.      *)
PoseFromAwake == Root!PoseFromAwake
=============================================================================
