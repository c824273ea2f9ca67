------------------------------ MODULE StopPath ------------------------------
(***************************************************************************)
(* Disarm of a robot that balances: the controller of balance.ex, which    *)
(* commands its wheels on every pose, falls silent, and the floors of the  *)
(* hubs do the rest (docs/adr/0010).                                       *)
(*                                                                         *)
(* Around the controller are its mailbox; the safety state of the robot,   *)
(* which BB.Safety keeps, with its announcements on the state machine's    *)
(* topic; and, per wheel, the way of a command to its hub (CommandPath and *)
(* Tree): it keeps the order, loses commands, lets a newer one replace one *)
(* that waits, and never invents one.  A hub is what ActHub shows of it: a *)
(* wheel that is energised got a command within the bound of the dead-man. *)
(* The broadcast of disarm/1 is left out: no firmware acts on it.          *)
(* Torques and the messages that only feed their arithmetic are left out.  *)
(***************************************************************************)
EXTENDS Naturals, Sequences

CONSTANTS
  Wheel,         \* the wheels
  Wheels,        \* the order in which the controller commands them
  StartEnabled,  \* the controller's option :enabled
  Bound,         \* ActHub's dead-man bound, in ticks of a hub
  PathCap,       \* commands on their way to one hub
  BoxCap         \* bound: poses and toggles in the controller's mailbox; one
                 \* place is left to the poses

ASSUME StopAssumption ==
  /\ Wheels \in Seq(Wheel) /\ StartEnabled \in BOOLEAN
  /\ Bound \in Nat /\ PathCap \in Nat \ {0} /\ BoxCap \in Nat

VARIABLES
  safe,       \* BB.Safety.state(robot) is another than :armed
  announced,  \* the last announced state is another than :armed
  asked,      \* the last that a caller of enable/1 and disable/1 asked for
  phase,      \* the controller: "down", "starting" or "running"
  armed, enabled,   \* its flags
  box,        \* its mailbox
  todo,       \* the wheels that have still to get the command of a pose
  pose,       \* that pose
  path,       \* per wheel, the number of commands on their way to the hub
  idle        \* per wheel, ticks of the hub since it got a command

robot == <<safe, announced, asked>>
flags == <<phase, armed, enabled>>
wheels == <<path, idle>>
stopVars == <<robot, flags, box, todo, pose, wheels>>

(* A pose carries two history flags: it was published while the robot was    *)
(* stopped, and while balance was asked to be off.                          *)
Pose == [type : {"pose"}, stopped : BOOLEAN, off : BOOLEAN]
NoPose == [type |-> "pose", stopped |-> FALSE, off |-> FALSE]
Notice == [type : {"state"}, armed : BOOLEAN]
Toggle == [type : {"toggle"}, on : BOOLEAN]
Message == Pose \cup Notice \cup Toggle

(* Disarmed, and everybody has been told. *)
Stopped == safe /\ announced

StopInit ==
  /\ safe = TRUE /\ announced = TRUE /\ asked = StartEnabled
  /\ phase = "down" /\ armed = FALSE /\ enabled = FALSE
  /\ box = <<>> /\ todo = <<>> /\ pose = NoPose
  /\ path = [w \in Wheel |-> 0] /\ idle = [w \in Wheel |-> Bound]

-----------------------------------------------------------------------------
(* BB.Safety changes its state, then the state machine announces it.        *)
SafetyChange ==
  /\ announced = safe /\ Len(box) < BoxCap
  /\ safe' = ~safe
  /\ UNCHANGED <<announced, asked, flags, box, todo, pose, wheels>>

(* A running controller and one that starts have subscribed to it. *)
Announce ==
  /\ announced # safe
  /\ announced' = safe
  /\ box' = IF phase = "down" THEN box
            ELSE Append(box, [type |-> "state", armed |-> ~safe])
  /\ UNCHANGED <<safe, asked, flags, todo, pose, wheels>>

(* BB.Controller.Server subscribes to the state machine before it calls      *)
(* init/1.                                                                  *)
Subscribe ==
  /\ phase = "down"
  /\ phase' = "starting"
  /\ UNCHANGED <<robot, armed, enabled, box, todo, pose, wheels>>

(* Mutant: the robot is taken to be disarmed when the controller starts. *)
SeedDisarmed ==
  /\ phase = "starting"
  /\ phase' = "running" /\ armed' = FALSE /\ enabled' = StartEnabled
  /\ UNCHANGED <<robot, box, todo, pose, wheels>>

(* init/1 reads the safety state and subscribes to the pose. *)
Seed ==
  /\ phase = "starting"
  /\ phase' = "running" /\ armed' = ~safe /\ enabled' = StartEnabled
  /\ UNCHANGED <<robot, box, todo, pose, wheels>>

(* The sensor view publishes a reading. *)
Sense ==
  /\ phase = "running" /\ Len(box) < BoxCap
  /\ box' = Append(box, [type |-> "pose", stopped |-> Stopped, off |-> ~asked])
  /\ UNCHANGED <<robot, flags, todo, pose, wheels>>

(* enable/1 and disable/1 cast to the controller, if there is one. *)
Ask(on) ==
  /\ Len(box) + 1 < BoxCap
  /\ asked' = on
  /\ box' = IF phase = "down" THEN box ELSE Append(box, [type |-> "toggle", on |-> on])
  /\ UNCHANGED <<safe, announced, flags, todo, pose, wheels>>

(* The controller takes its next message. *)
Receive(type) ==
  /\ phase = "running" /\ todo = <<>> /\ box # <<>>
  /\ Head(box).type = type
  /\ box' = Tail(box)

(* Mutant: no clause of command/2 for a controller that is not armed. *)
HandlePoseAlways ==
  /\ Receive("pose")
  /\ pose' = Head(box)
  /\ todo' = Wheels
  /\ UNCHANGED <<robot, flags, wheels>>

(* handle_info of a pose; command/2 has a clause of its own for a           *)
(* controller that is not armed.                                            *)
HandlePose ==
  /\ Receive("pose")
  /\ pose' = Head(box)
  /\ todo' = IF armed THEN Wheels ELSE <<>>
  /\ UNCHANGED <<robot, flags, wheels>>

(* Mutant: only the :armed transition is handled. *)
HandleArmedOnly ==
  /\ Receive("state")
  /\ armed' = (armed \/ Head(box).armed)
  /\ UNCHANGED <<robot, phase, enabled, todo, pose, wheels>>

(* handle_safety_state_change, and handle_info of the :armed transition. *)
HandleState ==
  /\ Receive("state")
  /\ armed' = Head(box).armed
  /\ UNCHANGED <<robot, phase, enabled, todo, pose, wheels>>

(* Mutant: a toggle off is taken only while the controller is armed. *)
HandleToggleArmed ==
  /\ Receive("toggle")
  /\ enabled' = IF armed THEN Head(box).on ELSE enabled
  /\ UNCHANGED <<robot, phase, armed, todo, pose, wheels>>

(* set_enabled *)
HandleToggle ==
  /\ Receive("toggle")
  /\ enabled' = Head(box).on
  /\ UNCHANGED <<robot, phase, armed, todo, pose, wheels>>

(* command/2 publishes one effort per wheel. *)
Publish ==
  /\ todo # <<>>
  /\ todo' = Tail(todo)
  /\ path' = [path EXCEPT ![Head(todo)] = IF @ < PathCap THEN @ + 1 ELSE @]
  /\ UNCHANGED <<robot, flags, box, pose, idle>>

(* The supervisor starts it again. *)
Crash ==
  /\ phase # "down"
  /\ phase' = "down" /\ armed' = FALSE /\ enabled' = FALSE
  /\ box' = <<>> /\ todo' = <<>> /\ pose' = NoPose
  /\ UNCHANGED <<robot, wheels>>

(* A command on its way is lost, or replaced by a later one. *)
LoseCommand(w) ==
  /\ path[w] > 0
  /\ path' = [path EXCEPT ![w] = @ - 1]
  /\ UNCHANGED <<robot, flags, box, todo, pose, idle>>

TakeCommand(w) ==
  /\ path[w] > 0
  /\ path' = [path EXCEPT ![w] = @ - 1]
  /\ idle' = [idle EXCEPT ![w] = 0]
  /\ UNCHANGED <<robot, flags, box, todo, pose>>

HubTick(w) ==
  /\ idle[w] < Bound
  /\ idle' = [idle EXCEPT ![w] = @ + 1]
  /\ UNCHANGED <<robot, flags, box, todo, pose, path>>

Handle == HandlePose \/ HandleState \/ HandleToggle \/ Publish

StopNext ==
  \/ SafetyChange \/ Announce
  \/ Subscribe \/ Seed \/ Crash
  \/ Sense \/ (\E on \in BOOLEAN : Ask(on))
  \/ Handle
  \/ \E w \in Wheel : LoseCommand(w) \/ TakeCommand(w) \/ HubTick(w)

StopSpec == StopInit /\ [][StopNext]_stopVars

(* What BB has to announce gets announced, a running controller goes on     *)
(* with its mailbox and a crashed one is started again, poses keep coming,  *)
(* a command on its way arrives or is lost, and the hubs' clocks run.       *)
StopFairness ==
  /\ WF_stopVars(Announce) /\ WF_stopVars(Subscribe) /\ WF_stopVars(Seed)
  /\ WF_stopVars(Handle) /\ WF_stopVars(Sense)
  /\ \A w \in Wheel : WF_stopVars(LoseCommand(w) \/ TakeCommand(w)) /\ WF_stopVars(HubTick(w))
StopFairSpec == StopSpec /\ StopFairness

-----------------------------------------------------------------------------
StopTypeOK ==
  /\ safe \in BOOLEAN /\ announced \in BOOLEAN /\ asked \in BOOLEAN
  /\ phase \in {"down", "starting", "running"}
  /\ armed \in BOOLEAN /\ enabled \in BOOLEAN
  /\ box \in Seq(Message) /\ todo \in Seq(Wheel) /\ pose \in Pose
  /\ path \in [Wheel -> 0 .. PathCap] /\ idle \in [Wheel -> 0 .. Bound]

Energised(w) == idle[w] < Bound

(* "Publishes nothing while not armed" (CONTEXT.md): no pose that was        *)
(* published after the robot was stopped is ever answered with a command,   *)
(* whatever was in the mailbox ahead of it, and across crashes of the       *)
(* controller and re-arming.                                                *)
DisarmObeyed == todo # <<>> => ~pose.stopped

(* "Disabling stops the controller actively balancing" (balance.ex): a pose  *)
(* that came after disable/1 never gets balance torque, also when the call   *)
(* found the controller down or starting.                                   *)
DisableObeyed == todo # <<>> /\ enabled => ~pose.off

(* Once the robot stays disarmed its wheels come to rest, though the poses   *)
(* keep coming and the controller may crash any number of times.            *)
StopHolds == <>[]safe => \A w \in Wheel : <>[](~Energised(w))

(* It "resumes on re-arm" (docs/adr/0010): while the robot stays armed and   *)
(* the controller up it goes on to command its wheels, whatever came before. *)
ArmedResumes == <>[](~safe /\ phase = "running") => []<>(todo # <<>>)

-----------------------------------------------------------------------------
(* The strengthening.  A message at place i of the mailbox will find the     *)
(* controller unarmed: the last notice ahead of it says so, or the flag      *)
(* does and no notice is ahead.  The same for a controller that is off.      *)
UnarmedAt(i) ==
  \/ \E j \in 1 .. i - 1 :
       /\ box[j].type = "state" /\ ~box[j].armed
       /\ \A k \in j + 1 .. i - 1 : box[k].type # "state"
  \/ ~armed /\ \A k \in 1 .. i - 1 : box[k].type # "state"

OffAt(i) ==
  \/ \E j \in 1 .. i - 1 :
       /\ box[j].type = "toggle" /\ ~box[j].on
       /\ \A k \in j + 1 .. i - 1 : box[k].type # "toggle"
  \/ ~enabled /\ \A k \in 1 .. i - 1 : box[k].type # "toggle"

BoxInv ==
  /\ \A i \in DOMAIN box : box[i].type = "pose" =>
       /\ box[i].stopped => UnarmedAt(i)
       /\ box[i].off /\ ~StartEnabled => OffAt(i)
  /\ Stopped => UnarmedAt(Len(box) + 1)
  /\ ~asked /\ ~StartEnabled => OffAt(Len(box) + 1)

StartInv ==
  /\ phase # "running" =>
       /\ ~armed /\ ~enabled /\ todo = <<>>
       /\ \A i \in DOMAIN box : box[i].type # "pose"
  /\ phase = "down" => box = <<>>

StopInv ==
  /\ StopTypeOK /\ BoxInv /\ StartInv /\ DisarmObeyed
  /\ ~StartEnabled => DisableObeyed
=============================================================================
