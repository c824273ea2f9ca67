------------------------------- MODULE ActHub -------------------------------
(***************************************************************************)
(* An actuator hub: the main loop of hub_main.cpp, with the glue that      *)
(* WireGen emits for one floored command port and its paired status port,  *)
(* around the floor of floor.c.                                            *)
(*                                                                         *)
(* One loop pass feeds the watchdog and reads the clock (StartLoop), pumps *)
(* every frame the link has buffered (Pump), runs the drive loop           *)
(* (ControlTick), and then the status row if it is due (StatusTick or      *)
(* StatusNotDue).  Time passes between any two of these steps, but no      *)
(* pass outlives the watchdog: at Wdt only Reset is left to the clock.     *)
(*                                                                         *)
(* The device's time is micros() / 1000: micros() wraps at 2^32 us, so the *)
(* milliseconds run through 0 .. ClockWrap - 1 with ClockWrap = 4294968,   *)
(* while floor_tick subtracts them modulo ClockMod = 2^32.                 *)
(*                                                                         *)
(* The environment is the most general one: any command, and any frame     *)
(* that is none, may be in the link's buffer at any time, so lost,         *)
(* repeated, late and reordered commands and several hosts are included.   *)
(***************************************************************************)
EXTENDS Floor, Sequences

CONSTANTS
  ClockWrap,   \* period of the millisecond clock the glue derives
  Wdt,         \* WDT_TIMEOUT_MS, the longest a loop pass may last
  RxCap,       \* how many whole frames the link's receive buffer holds
  Off          \* the output of a chip that has not driven since its reset

ASSUME ActHubAssumption ==
  /\ ClockWrap \in Nat \ {0} /\ ClockWrap <= ClockMod
  /\ Wdt \in Nat \ {0} /\ Wdt < ClockWrap
  /\ RxCap \in Nat
  /\ Off \notin Value

VARIABLES
  pc,        \* where the loop is: "setup", "top", "pump" or "status"
  floor,     \* g_floor_<port>
  applied,   \* g_applied_seq_<port>
  report,    \* the status sample sent up in this pass, if any
  out,       \* what the drive hook last got
  rx,        \* frames in the link's receive buffer
  clock,     \* micros() / 1000
  nowReg,    \* the now_us that loop() read at the top of this pass
  stall,     \* time since the watchdog was fed (since nowReg was read)
  silence,   \* history: time since the start of the pass whose tick last
             \* witnessed an advance; ClockWrap stands for that and longer
  live       \* history: since the first tick of this boot a command arrived
             \* whose seq is not the one the floor last recorded

device == <<floor, applied, report, out>>
time == <<clock, nowReg, stall>>
history == <<silence, live>>
vars == <<pc, device, rx, time, history>>

Command == [seq : Seqs, value : Value]

(* A frame that no on_command takes: it is for another port or another node, *)
(* or its payload is too short.                                             *)
Nobody == [seq |-> -1, value |-> Safe]
Report == [applied : Seqs, floored : BOOLEAN]
Clock == 0 .. ClockWrap - 1

Init ==
  /\ pc = "setup"
  /\ floor = FloorInit /\ applied = 0 /\ report = <<>> /\ out = Off
  /\ rx = <<>>
  /\ clock = 0 /\ nowReg = 0 /\ stall = 0
  /\ silence = ClockWrap /\ live = FALSE

-----------------------------------------------------------------------------
(* A whole frame reaches the receive buffer.  Buffering starts in           *)
(* link_begin, which setup() calls before the long hub_setup().             *)
Arrive(c) ==
  /\ Len(rx) < RxCap
  /\ rx' = Append(rx, c)
  /\ live' = (live \/ (c # Nobody /\ floor.haveBaseline /\ c.seq # floor.lastSeq))
  /\ UNCHANGED <<pc, device, time, silence>>

(* hub_setup() returns and the loop subscribes to the watchdog. *)
FinishSetup ==
  /\ pc = "setup"
  /\ pc' = "top" /\ stall' = 0
  /\ UNCHANGED <<device, rx, clock, nowReg, history>>

StartLoop ==
  /\ pc = "top"
  /\ pc' = "pump" /\ stall' = 0 /\ nowReg' = clock /\ report' = <<>>
  /\ UNCHANGED <<floor, applied, out, rx, clock, history>>

(* Mutant: on_command_<port> forgets to record the seq it handed over. *)
PumpNoApplied ==
  /\ pc = "pump" /\ rx # <<>>
  /\ floor' = IF Head(rx) = Nobody THEN floor
              ELSE OnCommand(floor, Head(rx).seq, Head(rx).value)
  /\ rx' = Tail(rx)
  /\ UNCHANGED <<pc, applied, report, out, time, silence, live>>

(* One iteration of link_pump's loop: a frame that is for this hub and port *)
(* the router delivers to on_command_<port>.                                *)
Pump ==
  /\ pc = "pump" /\ rx # <<>>
  /\ LET c == Head(rx) IN
       IF c = Nobody THEN UNCHANGED <<floor, applied>>
       ELSE /\ floor' = OnCommand(floor, c.seq, c.value)
            /\ applied' = c.seq
  /\ rx' = Tail(rx)
  /\ UNCHANGED <<pc, report, out, time, silence, live>>

(* control_tick, the period-0 row: it runs on every pass, once link_pump    *)
(* has found its buffer empty.                                              *)
ControlTick ==
  /\ pc = "pump" /\ rx = <<>>
  /\ floor' = FloorTick(floor, nowReg)
  /\ out' = DriveOut(floor')
  /\ silence' = IF Advanced(floor) THEN stall ELSE silence
  /\ pc' = "status"
  /\ UNCHANGED <<applied, report, rx, time, live>>

(* <status>_sample_tick: the reported truth of the paired floor. *)
StatusTick ==
  /\ pc = "status"
  /\ report' = <<[applied |-> applied, floored |-> ~floor.armed]>>
  /\ pc' = "top"
  /\ UNCHANGED <<floor, applied, out, rx, time, history>>

StatusNotDue ==
  /\ pc = "status"
  /\ pc' = "top"
  /\ UNCHANGED <<device, rx, time, history>>

(* One millisecond.  hub_setup() is not under the watchdog, the loop is. *)
Elapse ==
  /\ stall < Wdt \/ pc = "setup"
  /\ clock' = IF clock + 1 < ClockWrap THEN clock + 1 ELSE 0
  /\ stall' = IF pc = "setup" THEN stall ELSE stall + 1
  /\ silence' = IF silence < ClockWrap THEN silence + 1 ELSE silence
  /\ UNCHANGED <<pc, device, rx, nowReg, live>>

(* Mutant: the floor lies in memory that a reset does not clear. *)
ResetKeepsFloor ==
  /\ pc' = "setup"
  /\ UNCHANGED floor /\ applied' = 0 /\ report' = <<>> /\ out' = Off
  /\ rx' = <<>>
  /\ clock' = 0 /\ nowReg' = 0 /\ stall' = 0
  /\ silence' = ClockWrap /\ live' = FALSE

(* The watchdog, a brown-out or the reset button: RAM and clock restart. *)
Reset ==
  /\ pc' = "setup"
  /\ floor' = FloorInit /\ applied' = 0 /\ report' = <<>> /\ out' = Off
  /\ rx' = <<>>
  /\ clock' = 0 /\ nowReg' = 0 /\ stall' = 0
  /\ silence' = ClockWrap /\ live' = FALSE

Next ==
  \/ \E c \in Command \cup {Nobody} : Arrive(c)
  \/ FinishSetup
  \/ StartLoop
  \/ Pump
  \/ ControlTick
  \/ StatusTick
  \/ StatusNotDue
  \/ Elapse
  \/ Reset

Spec == Init /\ [][Next]_vars

(* The chip keeps running its loop and its clock keeps counting: that is    *)
(* what the bare-metal main loop and the watchdog give.  Nothing is assumed *)
(* of the environment.                                                      *)
Fairness ==
  /\ WF_vars(FinishSetup) /\ WF_vars(StartLoop)
  /\ WF_vars(Pump) /\ WF_vars(ControlTick)
  /\ WF_vars(StatusTick \/ StatusNotDue)
  /\ WF_vars(Elapse)

FairSpec == Spec /\ Fairness

-----------------------------------------------------------------------------
(* The types of the variables, and the history counters in their bounds. *)
TypeOK ==
  /\ pc \in {"setup", "top", "pump", "status"}
  /\ floor \in FloorState
  /\ applied \in Seqs
  /\ report \in {<<>>} \cup {<<r>> : r \in Report}
  /\ out \in Value \cup {Off}
  /\ rx \in Seq(Command \cup {Nobody})
  /\ clock \in Clock /\ nowReg \in Clock
  /\ stall \in 0 .. Wdt
  /\ silence \in 0 .. ClockWrap
  /\ live \in BOOLEAN

(* The plant is being moved: the drive hook got something but the safe      *)
(* action.                                                                  *)
Energised == out \notin {Safe, Off}

(* The dead-man of floor.h: whatever arrives, and however long a pass       *)
(* takes, an output other than the safe action means that the command seq   *)
(* advanced within the window, give or take the two passes that the clock   *)
(* register and the next tick may lag behind.  It covers every silence that *)
(* is shorter than one period of the millisecond clock.                     *)
DeadMan ==
  Energised /\ silence < ClockWrap => silence < Window + 2 * Wdt

(* "latches disarmed" (floor.h): the same without a limit on the silence.   *)
(* The code does not give this: see the finding of run acthub_latch.        *)
DeadManLatches ==
  Energised => silence < Window + 2 * Wdt

(* "A reboot, a power glitch, a stale frame left in a buffer - none of      *)
(* these can energise it" (docs/hub-design.html, born-disarmed), of this     *)
(* hub's own receive buffer: however many commands it held at the first     *)
(* tick, the output leaves the safe action only if one with another seq     *)
(* than the baseline arrived after that tick.  One is enough, and where the *)
(* buffer was empty the baseline is the seq 0 that nobody sent: see the     *)
(* finding of run acthub_baseline.                                          *)
StaleBufferInert == Energised => live

(* At the moment of the drive, an advance that is inside the window on real *)
(* time is honoured: the loop drives the commanded value, never the safe    *)
(* action for no reason.  It is so until the clock comes round: a pass that *)
(* reads it after the wrap takes an advance from before it to be about      *)
(* ClockMod - ClockWrap old, and floors the plant for a period.             *)
InWindowDrives ==
  pc = "status" /\ silence < ClockWrap /\ silence - stall < Window
                /\ floor.lastAdvance <= nowReg
    => out = floor.target

(* The reported truth (section 05 of the design): a status sample that says *)
(* "not floored" is sent while the drive hook holds the value of the very   *)
(* command whose seq it names as applied, and one that says "floored" while *)
(* it holds the safe action.                                                *)
StatusTruth ==
  [][pc = "status" /\ pc' = "top" /\ report' # report =>
       LET sent == Head(report') IN
         IF sent.floored
         THEN out = Safe
         ELSE /\ out = floor.target
              /\ sent.applied = floor.lastSeq /\ sent.applied = floor.cmdSeq]_vars

(* When commands stop arriving, the output goes back to the safe action:    *)
(* nothing on the chip has to receive a frame for that.                     *)
SilenceFloors == <>[](rx = <<>>) => []<>(~Energised)

-----------------------------------------------------------------------------
Switch == INSTANCE DeadManSwitch WITH
  Limit <- Window + 2 * Wdt, Lag <- Wdt, Forever <- ClockWrap,
  driving <- Energised, idle <- silence, earned <- live

(* The hub as a whole is a dead-man's switch: the seq compare, the baseline *)
(* flag, the u32 subtraction and the order of the loop's steps come to      *)
(* this.  In particular nothing but the tick and a reset moves the output,  *)
(* only a tick counts a silence anew, within one pass, and time never       *)
(* passes the limit over an energised output.                               *)
IsDeadManSwitch == Switch!Spec

-----------------------------------------------------------------------------
(* The strengthening that makes DeadMan, StaleBufferInert, StatusTruth,     *)
(* InWindowDrives and IsDeadManSwitch inductive.  a milliseconds after the  *)
(* clock read t it reads Later(t, a).                                       *)
Later(t, a) == IF t + a < ClockWrap THEN t + a ELSE t + a - ClockWrap

(* The register and the recorded advance are readings of the hub's clock,   *)
(* and the two history counters say how long ago they were taken.           *)
ClockInv ==
  /\ pc \in {"pump", "status"} => clock = Later(nowReg, stall)
  /\ floor.seenAdvance /\ silence < ClockWrap =>
       /\ clock = Later(floor.lastAdvance, silence)
       /\ pc \in {"pump", "status"} => stall <= silence
  /\ floor.lastAdvance \in Clock

(* How old the witnessed advance can be, by where the loop is: the tick     *)
(* judged it as of the start of its pass.                                   *)
DriveInv ==
  Energised =>
    /\ pc # "setup"
    /\ silence < ClockWrap =>
         silence < Window + stall + (IF pc = "pump" THEN Wdt ELSE 0)

(* Until a command with another seq than the baseline arrives after the      *)
(* first tick there is nothing to witness.                                  *)
BootInv ==
  ~live =>
    /\ ~Energised
    /\ ~floor.seenAdvance
    /\ floor.haveBaseline =>
         /\ \A i \in DOMAIN rx : rx[i] = Nobody \/ rx[i].seq = floor.lastSeq
         /\ floor.cmdSeq = floor.lastSeq

(* Between the drive loop and the status row nothing moves the floor. *)
StatusInv ==
  /\ applied = floor.cmdSeq
  /\ pc = "status" => /\ floor.cmdSeq = floor.lastSeq
                      /\ out = DriveOut(floor)

(* What the hub drives behind the tick is what the window says of the       *)
(* advance it recorded, and only a recorded advance is ever counted from.   *)
WitnessInv ==
  /\ pc = "status" => (floor.armed <=> Fresh(floor, nowReg))
  /\ silence < ClockWrap => floor.seenAdvance

IInv == TypeOK /\ ClockInv /\ DriveInv /\ BootInv /\ StatusInv /\ WitnessInv
=============================================================================
