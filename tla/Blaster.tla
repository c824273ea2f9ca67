------------------------------- MODULE Blaster -------------------------------
(***************************************************************************)
(* The Blaster board of the example robot: the root hub, which relays the  *)
(* host's commands to the wheels, drives a status strip, and senses range  *)
(* and pose in the rows of one cooperative loop.  It is the glue of        *)
(* blaster.glue.h with the device hooks of blaster.cpp, around the         *)
(* scheduler of scheduler.c.                                               *)
(*                                                                         *)
(* Nothing on this board is preempted.  The range read waits for an echo   *)
(* for up to EchoTimeout inside its row, the first pose read waits for     *)
(* the IMU to wake, and for that time nothing is relayed and no pose is    *)
(* read.  How much that can cost is what this module is about.             *)
(*                                                                         *)
(* Of the host's frames only the target and the age are kept; what the     *)
(* router makes of the rest is in Tree.  The environment is the most       *)
(* general one: frames may be waiting at any time, an echo may come back   *)
(* at any time or not at all, the IMU may fail any transfer.               *)
(***************************************************************************)
EXTENDS Schedule, Sequences

CONSTANT HostCap   \* how many frames of the host's are waiting at most

VARIABLES
  loop,      \* "setup", "top", "pump", the row that comes next, or the call
             \* that blocks inside one: "echo", "wake"
  us,        \* micros()
  now,       \* the now_us that loop() read at the top of this pass
  spent,     \* of this pass's Slack, what is spent
  waited,    \* how long the call that blocks has been waiting
  last,      \* last_us of each row
  hostRx,    \* frames waiting in the host UART's buffer
  inited,    \* the static of blaster_pose_read
  imu,       \* the IMU's own state: "asleep" (its reset state) or "awake"
  answers,   \* whether the IMU acknowledges its address just now
  sent,      \* the pose sample sent up in this pass, if any: the IMU's state
             \* when it was read
  mute       \* history: how long the IMU has answered without a pose sample
             \* going up, as far as the loop was running

blasterTime == <<us, now, spent, waited, last, mute>>
blasterImu == <<inited, imu, answers>>
blasterVars == <<loop, blasterTime, hostRx, blasterImu, sent>>

TableRow == {"range", "pose"}
Target == {"wheels", "led"}

(* The longest that a pass can last once the loop is running. *)
LongestPass == Slack + EchoTimeout + WakeDelay

(* What a frame can have waited when it is relayed: it came just behind the *)
(* pump of one pass, and the next one has to come to it.                    *)
RelayBound == LongestPass + Slack

(* An IMU that answers is heard before this is over: the row falls due      *)
(* within its period, the pass it then has to wait for is a longest one at  *)
(* most, and so is the one that brings the IMU up and reads it.             *)
MuteBound == PosePeriod + LongestPass + Slack

Init ==
  /\ loop = "setup"
  /\ us = 0 /\ now = 0 /\ spent = 0 /\ waited = 0
  /\ last = [r \in TableRow |-> 0]
  /\ hostRx = <<>>
  /\ inited = FALSE /\ imu \in {"asleep", "awake"} /\ answers \in BOOLEAN
  /\ sent = <<>>
  /\ mute = 0

-----------------------------------------------------------------------------
HostFrame(to) ==
  /\ Len(hostRx) < HostCap
  /\ hostRx' = Append(hostRx, [to |-> to, age |-> 0])
  /\ UNCHANGED <<loop, blasterTime, blasterImu, sent>>

(* The IMU falls silent on its bus, or answers again. *)
ImuGlitch ==
  /\ answers' = ~answers /\ mute' = 0
  /\ UNCHANGED <<loop, us, now, spent, waited, last, hostRx, inited, imu, sent>>

(* hub_setup() returns; what is waiting has its age counted from here. *)
FinishSetup ==
  /\ loop = "setup"
  /\ loop' = "top" /\ spent' = 0 /\ mute' = 0
  /\ hostRx' = [i \in DOMAIN hostRx |-> [hostRx[i] EXCEPT !.age = 0]]
  /\ UNCHANGED <<us, now, waited, last, blasterImu, sent>>

StartLoop ==
  /\ loop = "top"
  /\ loop' = "pump" /\ now' = us /\ spent' = 0 /\ sent' = <<>>
  /\ UNCHANGED <<us, waited, last, mute, hostRx, blasterImu>>

(* One frame: it goes down link 1 to the wheels, or to the strip, which has *)
(* no floor and is driven at once.                                          *)
Pump ==
  /\ loop = "pump" /\ hostRx # <<>>
  /\ hostRx' = Tail(hostRx)
  /\ UNCHANGED <<loop, blasterTime, blasterImu, sent>>

(* link_pump has found its buffers empty and scheduler_run begins. *)
PumpDone ==
  /\ loop = "pump" /\ hostRx = <<>>
  /\ loop' = "range"
  /\ UNCHANGED <<blasterTime, hostRx, blasterImu, sent>>

NotDue(row, next) ==
  /\ loop = row /\ ~Due(now, last[row], Period(row))
  /\ loop' = next
  /\ UNCHANGED <<blasterTime, hostRx, blasterImu, sent>>

(* range_front_sample_tick: the trigger pulse, and pulseIn begins to wait. *)
Trigger ==
  /\ loop = "range" /\ Due(now, last["range"], RangePeriod)
  /\ last' = [last EXCEPT !["range"] = now]
  /\ loop' = "echo" /\ waited' = 0
  /\ UNCHANGED <<us, now, spent, mute, hostRx, blasterImu, sent>>

(* Mutant: a read without an echo is tried again. *)
EchoRetry ==
  /\ loop = "echo"
  /\ loop' \in {"pose", "echo"} /\ waited' = 0
  /\ UNCHANGED <<us, now, spent, last, mute, hostRx, blasterImu, sent>>

(* pulseIn returns: with an echo, and the sample goes up, or with 0 at its  *)
(* timeout, and it does not.                                                *)
EchoDone ==
  /\ loop = "echo"
  /\ loop' = "pose" /\ waited' = 0
  /\ UNCHANGED <<us, now, spent, last, mute, hostRx, blasterImu, sent>>

(* The burst read: a sample goes up unless a transfer fails. *)
Burst ==
  IF answers THEN sent' = <<imu>> /\ mute' = 0 ELSE UNCHANGED <<sent, mute>>

(* pose_sample_tick with an IMU that was brought up before. *)
PoseTick ==
  /\ loop = "pose" /\ Due(now, last["pose"], PosePeriod)
  /\ inited
  /\ last' = [last EXCEPT !["pose"] = now]
  /\ Burst
  /\ loop' = "top"
  /\ UNCHANGED <<us, now, spent, waited, hostRx, blasterImu>>

(* The same before that: WHO_AM_I is asked first.  A transfer that fails    *)
(* ends the tick with no sample, and the next tick begins over.             *)
WhoAmI ==
  /\ loop = "pose" /\ Due(now, last["pose"], PosePeriod)
  /\ ~inited
  /\ last' = [last EXCEPT !["pose"] = now]
  /\ loop' = IF answers THEN "power" ELSE "top"
  /\ UNCHANGED <<us, now, spent, waited, mute, hostRx, blasterImu, sent>>

(* Mutant: whether the IMU took the write is not looked at. *)
PowerUpUnchecked ==
  /\ loop = "power"
  /\ imu' = IF answers THEN "awake" ELSE imu
  /\ loop' = "wake" /\ waited' = 0
  /\ UNCHANGED <<us, now, spent, last, mute, hostRx, inited, answers, sent>>

(* PWR_MGMT_1 is written: the IMU wakes, and is given WakeDelay for it. *)
PowerUp ==
  /\ loop = "power"
  /\ IF answers
     THEN imu' = "awake" /\ loop' = "wake" /\ waited' = 0
     ELSE loop' = "top" /\ UNCHANGED <<imu, waited>>
  /\ UNCHANGED <<us, now, spent, last, mute, hostRx, inited, answers, sent>>

WakeDone ==
  /\ loop = "wake" /\ waited = WakeDelay
  /\ inited' = TRUE
  /\ Burst
  /\ loop' = "top" /\ waited' = 0
  /\ UNCHANGED <<us, now, spent, last, hostRx, imu, answers>>

(* One unit of time.  Setup may take long; in the loop it is one of a call  *)
(* that blocks, or of the pass's Slack.                                     *)
Elapse ==
  /\ \/ loop = "setup" /\ UNCHANGED <<spent, waited>>
     \/ /\ loop \in {"echo", "wake"}
        /\ waited < (IF loop = "echo" THEN EchoTimeout ELSE WakeDelay)
        /\ waited' = waited + 1 /\ UNCHANGED spent
     \/ /\ loop # "setup" /\ spent < Slack
        /\ spent' = spent + 1 /\ UNCHANGED waited
  /\ us' = NextMicro(us)
  /\ mute' = IF answers /\ loop # "setup" /\ mute < MuteBound
             THEN mute + 1 ELSE mute
  /\ hostRx' = IF loop = "setup" THEN hostRx
               ELSE [i \in DOMAIN hostRx |->
                       [hostRx[i] EXCEPT !.age = IF @ > RelayBound THEN @ ELSE @ + 1]]
  /\ UNCHANGED <<loop, now, last, blasterImu, sent>>

(* The chip restarts; the IMU, on a supply of its own, may or may not. *)
Reset ==
  /\ loop' = "setup"
  /\ us' = 0 /\ now' = 0 /\ spent' = 0 /\ waited' = 0 /\ mute' = 0
  /\ last' = [r \in TableRow |-> 0]
  /\ hostRx' = <<>> /\ sent' = <<>>
  /\ inited' = FALSE /\ imu' \in {imu, "asleep"}
  /\ UNCHANGED answers

Next ==
  \/ \E to \in Target : HostFrame(to)
  \/ ImuGlitch
  \/ FinishSetup \/ StartLoop
  \/ Pump \/ PumpDone
  \/ NotDue("range", "pose") \/ NotDue("pose", "top")
  \/ Trigger \/ EchoDone
  \/ PoseTick \/ WhoAmI \/ PowerUp \/ WakeDone
  \/ Elapse
  \/ Reset

(* However the rows fall, no frame of the host's waits longer than one      *)
(* longest pass and the pump that then comes to it: that is what a command  *)
(* for the wheels loses of their dead-man's window on the way.              *)
RelayedInTime == \A i \in DOMAIN hostRx : hostRx[i].age <= RelayBound

(* An IMU that answers is heard: whatever the range read does, however the  *)
(* clock wraps, and also when its bring-up failed before, a pose goes up    *)
(* within MuteBound.                                                        *)
PoseHeard == mute < MuteBound

(* No pose is sent up that was read from an IMU still in its reset state,   *)
(* whichever transfers of its bring-up failed and were tried again.         *)
PoseFromAwake == sent # <<>> => Head(sent) = "awake"

(* The types of the variables. *)
BlasterTypeOK ==
  /\ loop \in TableRow \cup {"setup", "top", "pump", "echo", "power", "wake"}
  /\ us \in Micros /\ now \in Micros /\ last \in [TableRow -> Micros]
  /\ spent \in 0 .. Slack
  /\ waited \in 0 .. EchoTimeout + WakeDelay
  /\ hostRx \in Seq([to : Target, age : 0 .. RelayBound + 1])
  /\ Len(hostRx) <= HostCap
  /\ inited \in BOOLEAN /\ imu \in {"asleep", "awake"} /\ answers \in BOOLEAN
  /\ sent \in {<<>>, <<"asleep">>, <<"awake">>}
  /\ mute \in 0 .. MuteBound

-----------------------------------------------------------------------------
(* The strengthening that makes the three inductive.                        *)

(* How long the pass has taken so far. *)
InPass == Since(us, now)

(* How long a frame can have waited by where the loop is: whatever is there *)
(* came behind the last pump, or the loop is in the pump that takes it.     *)
WaitBound ==
  [setup |-> 0, range |-> spent, echo |-> spent + waited,
   pose |-> spent + EchoTimeout, power |-> spent + EchoTimeout,
   wake |-> spent + EchoTimeout + waited,
   top |-> spent + EchoTimeout + WakeDelay,
   pump |-> LongestPass + spent][loop]

WaitInv == \A i \in DOMAIN hostRx : hostRx[i].age <= WaitBound

(* A call that blocks is left by its timeout, and the clock register is as  *)
(* old as what was spent and waited for since.                              *)
PassInv ==
  /\ loop = "echo" => waited <= EchoTimeout /\ last["range"] = now
  /\ loop = "wake" => waited <= WakeDelay
  /\ loop \notin {"echo", "wake"} => waited = 0
  /\ loop \in {"pump", "range"} => InPass = spent
  /\ loop = "echo" => InPass = spent + waited
  /\ loop \in {"pose", "power"} => InPass <= spent + EchoTimeout
  /\ loop = "pose" => InPass <= spent \/ last["range"] = now
  /\ loop = "wake" => InPass <= spent + EchoTimeout + waited
  /\ loop \in {"power", "wake"} => last["pose"] = now

(* No row has run since the boot. *)
Unrun == last["range"] = last["pose"]

(* The IMU has been mute for no longer than since the pose row last ran; or *)
(* nothing has run yet, and setup itself did not count.                     *)
MuteSinceRow ==
  \/ mute <= Since(now, last["pose"]) + InPass
  \/ /\ Unrun /\ InPass <= spent
     /\ mute <= Slack + Since(now, last["pose"]) + InPass

(* Between two passes: the pose row has just run, or the loop has not yet,  *)
(* or the row was not due in this pass, and then, if an echo was waited     *)
(* for, the range row will not be due in the next one.                      *)
RowJustRan ==
  mute <= spent /\ mute <= Since(us, last["pose"])
  /\ Since(us, last["pose"]) <= spent + EchoTimeout + WakeDelay
NothingRunYet == Unrun /\ mute <= spent
RowWasNotDue ==
  /\ mute <= Since(us, last["pose"])
  /\ Since(us, last["pose"]) < PosePeriod + spent + EchoTimeout
  /\ Since(us, last["pose"]) >= PosePeriod + spent
       => Since(us, last["range"]) <= spent + EchoTimeout
NothingWasDue ==
  /\ Unrun /\ mute <= Slack + Since(us, last["pose"])
  /\ Since(us, last["pose"]) < PosePeriod + spent

(* What an IMU can have been mute for by where the loop is. *)
MuteInv ==
  /\ ~answers \/ loop = "setup" => mute = 0
  /\ loop = "setup" => Unrun
  /\ loop = "top" =>
       RowJustRan \/ NothingRunYet \/ RowWasNotDue \/ NothingWasDue
  /\ loop \in {"pump", "range"} =>
       /\ mute < PosePeriod + Slack + EchoTimeout + spent
       /\ mute >= PosePeriod + Slack + spent
            => Since(now, last["range"]) < RangePeriod
  /\ loop = "echo" => mute < PosePeriod + Slack + spent + waited
  /\ loop \in {"pose", "power"} =>
       mute < PosePeriod + Slack + EchoTimeout + spent
  /\ loop = "wake" =>
       mute < PosePeriod + Slack + EchoTimeout + spent + waited
  /\ loop \in {"pump", "range"} => MuteSinceRow
  /\ loop = "echo" => \/ mute <= Since(now, last["pose"]) + InPass
                      \/ Since(now, last["pose"]) >= PosePeriod
  /\ loop = "pose" =>
       MuteSinceRow \/ Since(now, last["pose"]) >= PosePeriod

(* An IMU that was brought up is awake: the chip forgets that it did it     *)
(* whenever the IMU can have lost it.                                       *)
AwakeInv ==
  /\ inited \/ loop = "wake" => imu = "awake"
  /\ PoseFromAwake

BlasterInv == BlasterTypeOK /\ WaitInv /\ PassInv /\ MuteInv /\ AwakeInv
=============================================================================
