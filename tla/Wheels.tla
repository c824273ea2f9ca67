------------------------------- MODULE Wheels -------------------------------
(***************************************************************************)
(* The wheels board of the example robot: one chip, one loop and one       *)
(* receive buffer behind which two floors drive two motors.  It is the     *)
(* glue of wheels.glue.h with the device hooks of wheels.cpp.              *)
(*                                                                         *)
(* A pass is the one of ActHub, with both floors in it: every buffered     *)
(* frame goes to the floor of its own port, control_tick ticks and drives  *)
(* the left wheel, then the right one, and takes the shaft speeds, and     *)
(* then come the rows of wheels_tasks that are due, in their order.  The   *)
(* two cmd rows do nothing and are left out.  Whether a row is due is left *)
(* open here (Blaster has the arithmetic of the scheduler).                *)
(*                                                                         *)
(* Seen through one wheel this is an actuator hub of one port: the two     *)
(* refinement mappings at the end say how, so what is proved of ActHub     *)
(* holds of each wheel, whatever the other one is sent.                    *)
(***************************************************************************)
EXTENDS Floor, Sequences

CONSTANTS
  ClockWrap,   \* period of the millisecond clock the glue derives
  Wdt,         \* WDT_TIMEOUT_MS, the longest a loop pass may last
  RxCap,       \* how many whole frames the link's receive buffer holds
  Off          \* the output of a chip that has not driven since its reset

ASSUME WheelsAssumption ==
  /\ ClockWrap \in Nat \ {0} /\ ClockWrap <= ClockMod
  /\ Wdt \in Nat \ {0} /\ Wdt < ClockWrap
  /\ RxCap \in Nat
  /\ Off \notin Value

Wheel == {"left", "right"}

VARIABLES
  pc,        \* a step of setup, "top", "pump", or the row that comes next
  answered,  \* m0_enc, m1_enc: the encoders that answered the probe
  ready,     \* m0_ready, m1_ready: the motors that aligned
  floor,     \* g_floor_motor_left, g_floor_motor_right
  applied,   \* g_applied_seq_motor_left, g_applied_seq_motor_right
  out,       \* what each wheel's drive hook last got
  speed,     \* m0_shaft_vel_rad_s, m1_shaft_vel_rad_s: in which pass they
             \* were estimated
  report,    \* the status sample each wheel sent up in this pass, if any
  rx,        \* frames in the link's receive buffer
  clock, nowReg, stall,   \* as in ActHub
  silence, live           \* history, per wheel, as in ActHub

hooks == <<answered, ready, speed>>
floors == <<floor, applied, report, out>>
time == <<clock, nowReg, stall>>
history == <<silence, live>>
wheelsVars == <<pc, hooks, floors, rx, time, history>>

(* A frame for a wheel's command port, or one that no on_command takes:     *)
(* for another port of this node, or with a payload that is too short.      *)
Command == [wheel : Wheel, seq : Seqs, value : Value]
Nobody == [wheel |-> "none", seq |-> 0, value |-> Safe]

(* The speed of a motor that never aligned is the 0.0 it was born with.     *)
Speed == {"none", "earlier", "thisPass"}
Report == [applied : Seqs, floored : BOOLEAN]

Setup == {"probe", "m0", "m1", "subscribe"}

(* The rows of wheels_tasks behind control_tick, in their order. *)
Rows == <<"vel_left", "status_left", "status_right", "vel_right">>
Row == {Rows[i] : i \in DOMAIN Rows}
NextRow(r) ==
  LET i == CHOOSE i \in DOMAIN Rows : Rows[i] = r
  IN  IF i < Len(Rows) THEN Rows[i + 1] ELSE "top"
StatusRow(w) == IF w = "left" THEN "status_left" ELSE "status_right"
SpeedRow(w) == IF w = "left" THEN "vel_left" ELSE "vel_right"

Each(x) == [w \in Wheel |-> x]

Init ==
  /\ pc = "probe"
  /\ answered = {} /\ ready = {}
  /\ floor = Each(FloorInit) /\ applied = Each(0) /\ out = Each(Off)
  /\ speed = Each("none") /\ report = Each(<<>>)
  /\ rx = <<>>
  /\ clock = 0 /\ nowReg = 0 /\ stall = 0
  /\ silence = Each(ClockWrap) /\ live = Each(FALSE)

-----------------------------------------------------------------------------
(* A whole frame reaches the receive buffer. *)
Arrive(c) ==
  /\ Len(rx) < RxCap
  /\ rx' = Append(rx, c)
  /\ live' = [w \in Wheel |->
                live[w] \/ (c.wheel = w /\ floor[w].haveBaseline
                                       /\ c.seq # floor[w].lastSeq)]
  /\ UNCHANGED <<pc, hooks, floors, time, silence>>

(* as5600_present on both buses: an encoder that is there may still fail    *)
(* to answer.                                                               *)
Probe ==
  /\ pc = "probe"
  /\ answered' \in SUBSET Wheel
  /\ pc' = "m0"
  /\ UNCHANGED <<ready, speed, floors, rx, time, history>>

(* Bring-up of one motor: only one whose encoder answered is aligned, and   *)
(* initFOC may still give it up.                                            *)
BringUp(w, step, then) ==
  /\ pc = step
  /\ ready' \in {ready} \cup (IF w \in answered THEN {ready \cup {w}} ELSE {})
  /\ answered' = answered \ {w}
  /\ pc' = then
  /\ UNCHANGED <<speed, floors, rx, time, history>>

FinishSetup ==
  /\ pc = "subscribe"
  /\ pc' = "top" /\ stall' = 0
  /\ UNCHANGED <<hooks, floors, rx, clock, nowReg, history>>

StartLoop ==
  /\ pc = "top"
  /\ pc' = "pump" /\ stall' = 0 /\ nowReg' = clock
  /\ report' = Each(<<>>)
  /\ speed' = [w \in Wheel |->
                 IF speed[w] = "thisPass" THEN "earlier" ELSE speed[w]]
  /\ UNCHANGED <<answered, ready, floor, applied, out, rx, clock, history>>

(* Mutant: on_command_motor_right hands its command to the left floor. *)
DeliverToLeft(c) ==
  IF c.wheel \in Wheel
  THEN /\ floor' = [floor EXCEPT !["left"] = OnCommand(@, c.seq, c.value)]
       /\ applied' = [applied EXCEPT ![c.wheel] = c.seq]
  ELSE UNCHANGED <<floor, applied>>

(* deliver_local and on_command_<port>: the command is handed to the floor  *)
(* of its own port, and its seq is what that port's status will name.       *)
Deliver(c) ==
  IF c.wheel \in Wheel
  THEN /\ floor' = [floor EXCEPT ![c.wheel] = OnCommand(@, c.seq, c.value)]
       /\ applied' = [applied EXCEPT ![c.wheel] = c.seq]
  ELSE UNCHANGED <<floor, applied>>

Pump ==
  /\ pc = "pump" /\ rx # <<>>
  /\ Deliver(Head(rx))
  /\ rx' = Tail(rx)
  /\ UNCHANGED <<pc, hooks, report, out, time, history>>

(* Mutant: the speeds are taken before the two motors have run. *)
SpeedsBefore == speed

(* wheels_post_control: the speeds of the motors that aligned, after both   *)
(* have run.                                                                *)
SpeedsAfter == [w \in Wheel |-> IF w \in ready THEN "thisPass" ELSE speed[w]]

(* control_tick: both floors are ticked and both drive hooks called; what a *)
(* hook of a motor that never aligned gets goes nowhere.                    *)
ControlTick ==
  /\ pc = "pump" /\ rx = <<>>
  /\ floor' = [w \in Wheel |-> FloorTick(floor[w], nowReg)]
  /\ out' = [w \in Wheel |-> DriveOut(floor'[w])]
  /\ speed' = SpeedsAfter
  /\ silence' = [w \in Wheel |->
                   IF Advanced(floor[w]) THEN stall ELSE silence[w]]
  /\ pc' = Rows[1]
  /\ UNCHANGED <<answered, ready, applied, report, rx, time, live>>

(* status_<wheel>_sample_tick: the reported truth of the paired floor. *)
StatusTick(w) ==
  /\ pc = StatusRow(w)
  /\ report' = [report EXCEPT ![w] =
                  <<[applied |-> applied[w], floored |-> ~floor[w].armed]>>]
  /\ pc' = NextRow(pc)
  /\ UNCHANGED <<hooks, floor, applied, out, rx, time, history>>

(* vel_<wheel>_sample_tick: the read always succeeds, and speed[w] goes up. *)
SpeedTick(w) ==
  /\ pc = SpeedRow(w)
  /\ pc' = NextRow(pc)
  /\ UNCHANGED <<hooks, floors, rx, time, history>>

NotDue ==
  /\ pc \in Row
  /\ pc' = NextRow(pc)
  /\ UNCHANGED <<hooks, floors, rx, time, history>>

(* now_us / 1000u: the milliseconds come round with micros(), before 2^32.  *)
NextMilli(ms) == IF ms + 1 < ClockWrap THEN ms + 1 ELSE 0

(* One millisecond.  Setup is not under the watchdog, the loop is. *)
Elapse ==
  /\ stall < Wdt \/ pc \in Setup
  /\ clock' = NextMilli(clock)
  /\ stall' = IF pc \in Setup THEN stall ELSE stall + 1
  /\ silence' = [w \in Wheel |->
                   IF silence[w] < ClockWrap THEN silence[w] + 1 ELSE silence[w]]
  /\ UNCHANGED <<pc, hooks, floors, rx, nowReg, live>>

(* The watchdog, a brown-out or the reset button. *)
Reset ==
  /\ pc' = "probe"
  /\ answered' = {} /\ ready' = {}
  /\ floor' = Each(FloorInit) /\ applied' = Each(0) /\ out' = Each(Off)
  /\ speed' = Each("none") /\ report' = Each(<<>>)
  /\ rx' = <<>>
  /\ clock' = 0 /\ nowReg' = 0 /\ stall' = 0
  /\ silence' = Each(ClockWrap) /\ live' = Each(FALSE)

Next(Sent) ==
  \/ \E c \in Sent \cup {Nobody} : Arrive(c)
  \/ Probe
  \/ BringUp("left", "m0", "m1")
  \/ BringUp("right", "m1", "subscribe")
  \/ FinishSetup
  \/ StartLoop
  \/ Pump
  \/ ControlTick
  \/ \E w \in Wheel : StatusTick(w) \/ SpeedTick(w)
  \/ NotDue
  \/ Elapse
  \/ Reset

-----------------------------------------------------------------------------
(* The board as one wheel sees it: the frames for the other wheel are for   *)
(* nobody, and its pass is over once its own status row is behind it.       *)
BufferOf(w) ==
  [i \in DOMAIN rx |-> IF rx[i].wheel = w
                       THEN [seq |-> rx[i].seq, value |-> rx[i].value]
                       ELSE [seq |-> -1, value |-> Safe]]

PcOf(w) ==
  CASE pc \in Setup -> "setup"
    [] pc \in {"top", "pump"} -> pc
    [] pc \in {"vel_left", StatusRow(w)} -> "status"
    [] pc = "status_left" /\ w = "right" -> "status"
    [] OTHER -> "top"

Left == INSTANCE ActHub WITH
  pc <- PcOf("left"), rx <- BufferOf("left"),
  floor <- floor["left"], applied <- applied["left"],
  report <- report["left"], out <- out["left"],
  silence <- silence["left"], live <- live["left"]

Right == INSTANCE ActHub WITH
  pc <- PcOf("right"), rx <- BufferOf("right"),
  floor <- floor["right"], applied <- applied["right"],
  report <- report["right"], out <- out["right"],
  silence <- silence["right"], live <- live["right"]

(* Each wheel of the board is an actuator hub of its own: a frame for the   *)
(* other wheel never changes anything it drives or reports, and everything  *)
(* ActHub promises of one port (the dead-man, the inert boot buffer, the    *)
(* truth of its status) holds of the left wheel and of the right one.       *)
LeftIsAHub == Left!Spec
RightIsAHub == Right!Spec

(* A speed sample of a motor that aligned was estimated in the very pass    *)
(* that sends it, after both motors had run; one of a motor that did not    *)
(* is the zero it was born with, and never another motor's or another       *)
(* boot's.                                                                  *)
SpeedsAreCurrent ==
  \A w \in Wheel :
    pc = SpeedRow(w) => speed[w] = (IF w \in ready THEN "thisPass" ELSE "none")

(* The types of the variables. *)
WheelsTypeOK ==
  /\ pc \in Setup \cup {"top", "pump"} \cup Row
  /\ answered \subseteq Wheel /\ ready \subseteq Wheel
  /\ floor \in [Wheel -> FloorState]
  /\ applied \in [Wheel -> Seqs]
  /\ out \in [Wheel -> Value \cup {Off}]
  /\ speed \in [Wheel -> Speed]
  /\ report \in [Wheel -> {<<>>} \cup {<<r>> : r \in Report}]
  /\ rx \in Seq(Command \cup {Nobody})
  /\ clock \in 0 .. ClockWrap - 1 /\ nowReg \in 0 .. ClockWrap - 1
  /\ stall \in 0 .. Wdt
  /\ silence \in [Wheel -> 0 .. ClockWrap]
  /\ live \in [Wheel -> BOOLEAN]

(* The strengthening of SpeedsAreCurrent: only a motor that aligned ever    *)
(* has a speed, and behind the control tick it is this pass's.              *)
SpeedInv ==
  \A w \in Wheel :
    /\ w \notin ready => speed[w] = "none"
    /\ w \in ready /\ pc \in Row => speed[w] = "thisPass"

WheelsInv == WheelsTypeOK /\ SpeedInv
=============================================================================
