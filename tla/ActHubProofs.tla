---------------------------- MODULE ActHubProofs ----------------------------
(***************************************************************************)
(* Theorems about ActHub, for every size of the seq space, of the clock,   *)
(* of the window, of the watchdog's timeout and of the receive buffer.     *)
(***************************************************************************)
EXTENDS ActHub, SequenceTheorems, TLAPS

(* A floor record is well typed after each of its three functions. *)
LEMMA FloorTypes ==
  ASSUME NEW f \in FloorState, NEW seq \in Seqs, NEW value \in Value,
         NEW now \in Millis
  PROVE  /\ OnCommand(f, seq, value) \in FloorState
         /\ FloorTick(f, now) \in FloorState
         /\ DriveOut(f) \in Value
  BY FloorAssumption
     DEF FloorState, OnCommand, FloorTick, Observe, Fresh, DriveOut

LEMMA FloorInitType == FloorInit \in FloorState
  BY FloorAssumption DEF FloorState, FloorInit, Seqs, Millis

LEMMA ClockInMillis == Clock \subseteq Millis
  BY FloorAssumption, ActHubAssumption DEF Clock, Millis

(* What a chip holds when it leaves reset. *)
LEMMA BootTypes ==
  /\ FloorInit \in FloorState
  /\ 0 \in Seqs /\ 0 \in Clock /\ 0 \in 0 .. Wdt /\ 0 \in 0 .. 2
  /\ ClockWrap \in 0 .. ClockWrap
  /\ <<>> \in Seq(Command \cup {Nobody})
  BY FloorInitType, FloorAssumption, ActHubAssumption DEF Seqs, Clock

LEMMA InitTypeOK == Init => TypeOK
  BY BootTypes DEF Init, TypeOK

(* The steps keep the types. *)
LEMMA TypeStep == TypeOK /\ [Next]_vars => TypeOK'
<1> SUFFICES ASSUME TypeOK, [Next]_vars PROVE TypeOK'
  OBVIOUS
<1> USE DEF TypeOK
<1>1. ASSUME NEW c \in Command \cup {Nobody}, Arrive(c) PROVE TypeOK'
  BY <1>1 DEF Arrive, device, time
<1>2. CASE FinishSetup
  BY <1>2, ActHubAssumption DEF FinishSetup, device, history
<1>3. CASE StartLoop
  BY <1>3, ActHubAssumption DEF StartLoop, device, history
<1>4. CASE Pump
  <2>1. /\ Head(rx) \in Command \cup {Nobody}
        /\ rx' \in Seq(Command \cup {Nobody})
    BY <1>4, HeadTailProperties DEF Pump
  <2>2. ASSUME Head(rx) # Nobody
        PROVE  floor' \in FloorState /\ applied' \in Seqs
    <3>1. Head(rx).seq \in Seqs /\ Head(rx).value \in Value
      BY <2>1, <2>2 DEF Command
    <3> QED
      BY <1>4, <2>2, <3>1 DEF Pump, OnCommand, FloorState
  <2>3. floor' \in FloorState /\ applied' \in Seqs
    BY <1>4, <2>2 DEF Pump
  <2> QED
    BY <1>4, <2>1, <2>3 DEF Pump, time
<1>5. CASE ControlTick
  <2>1. floor' \in FloorState
    BY <1>5, FloorAssumption, ClockInMillis
       DEF ControlTick, FloorState, FloorTick, Observe, Fresh
  <2>2. out' \in Value
    BY <1>5, <2>1, FloorAssumption DEF ControlTick, FloorState, DriveOut
  <2>3. silence' \in 0 .. ClockWrap
    BY <1>5, ActHubAssumption DEF ControlTick
  <2> QED
    BY <1>5, <2>1, <2>2, <2>3 DEF ControlTick, time
<1>6. CASE StatusTick
  <2>1. [applied |-> applied, floored |-> ~floor.armed] \in Report
    BY DEF Report, FloorState
  <2> QED
    BY <1>6, <2>1 DEF StatusTick, time, history
<1>7. CASE StatusNotDue
  BY <1>7 DEF StatusNotDue, device, time, history
<1>8. CASE Elapse
  BY <1>8, ActHubAssumption DEF Elapse, device, Clock
<1>9. CASE Reset
  BY <1>9, BootTypes DEF Reset
<1>10. CASE UNCHANGED vars
  BY <1>10 DEF vars, device, time, history
<1> QED
  BY <1>1, <1>2, <1>3, <1>4, <1>5, <1>6, <1>7, <1>8, <1>9, <1>10 DEF Next

(* TypeOK: every variable of the hub keeps its type, for every build. *)
THEOREM TypeCorrect == Spec => []TypeOK
<1>1. Init => TypeOK
  BY InitTypeOK
<1>2. TypeOK /\ [Next]_vars => TypeOK'
  BY TypeStep
<1> QED
  BY <1>1, <1>2, PTL DEF Spec

-----------------------------------------------------------------------------
(* The strengthening holds of a chip fresh out of reset. *)
LEMMA InitIInv == Init => IInv
  BY InitTypeOK, ActHubAssumption
     DEF Init, IInv, ClockInv, DriveInv, BootInv, StatusInv, Energised,
         FloorInit, Clock, WitnessInv

(* Behind the tick of a pass neither the floor nor the clock register       *)
(* moves, and a pass counts from the advance that its tick recorded.        *)
LEMMA WitnessStep == TypeOK /\ WitnessInv /\ [Next]_vars => WitnessInv'
<1> SUFFICES ASSUME TypeOK, WitnessInv, [Next]_vars PROVE WitnessInv'
  OBVIOUS
<1> USE ActHubAssumption
<1>1. ASSUME NEW c \in Command \cup {Nobody}, Arrive(c) PROVE WitnessInv'
  BY <1>1 DEF Arrive, WitnessInv, Fresh, device, time
<1>2. CASE FinishSetup
  BY <1>2 DEF FinishSetup, WitnessInv, device, history
<1>3. CASE StartLoop
  BY <1>3 DEF StartLoop, WitnessInv, history
<1>4. CASE Pump
  <2>1. floor'.seenAdvance = floor.seenAdvance
    BY <1>4 DEF Pump, OnCommand, TypeOK, FloorState
  <2> QED
    BY <1>4, <2>1 DEF Pump, WitnessInv
<1>5. CASE ControlTick
  <2> DEFINE g == Observe(floor, nowReg)
  <2>1. /\ floor' = [g EXCEPT !.armed = Fresh(g, nowReg)]
        /\ silence' = (IF Advanced(floor) THEN stall ELSE silence)
        /\ nowReg' = nowReg
    BY <1>5 DEF ControlTick, FloorTick, time
  <2>2. /\ g.seenAdvance = (floor.seenAdvance \/ Advanced(floor))
        /\ floor'.armed = Fresh(g, nowReg)
        /\ floor'.seenAdvance = g.seenAdvance
        /\ floor'.lastAdvance = g.lastAdvance
    BY <2>1 DEF TypeOK, FloorState, Observe, Advanced
  <2>3. Fresh(floor', nowReg') = Fresh(g, nowReg)
    BY <2>1, <2>2 DEF Fresh
  <2>4. floor'.armed <=> Fresh(floor', nowReg')
    BY <2>2, <2>3
  <2>5. silence' < ClockWrap => floor'.seenAdvance
    BY <2>1, <2>2 DEF WitnessInv
  <2> QED
    BY <2>4, <2>5 DEF WitnessInv, Fresh
<1>6. CASE StatusTick
  BY <1>6 DEF StatusTick, WitnessInv, history
<1>7. CASE StatusNotDue
  BY <1>7 DEF StatusNotDue, WitnessInv, device, history
<1>8. CASE Elapse
  BY <1>8 DEF Elapse, WitnessInv, Fresh, device, TypeOK
<1>9. CASE Reset
  BY <1>9 DEF Reset, WitnessInv
<1>10. CASE UNCHANGED vars
  BY <1>10 DEF vars, WitnessInv, Fresh, device, time, history
<1> QED
  BY <1>1, <1>2, <1>3, <1>4, <1>5, <1>6, <1>7, <1>8, <1>9, <1>10 DEF Next

(* The u32 subtraction of two clock readings less than a period apart is    *)
(* below the window only if they are: a wrap of the clock between them makes *)
(* the difference larger, never smaller.                                    *)
LEMMA ElapsedIsAge ==
  ASSUME NEW now \in Clock, NEW then \in Clock, NEW age \in 0 .. ClockWrap - 1,
         now = Later(then, age),
         ElapsedMillis(now, then) < Window
  PROVE  age < Window
  BY FloorAssumption, ActHubAssumption DEF Clock, Later, ElapsedMillis

LEMMA IInvStep == IInv /\ [Next]_vars => IInv'
<1> SUFFICES ASSUME IInv, [Next]_vars PROVE IInv'
  OBVIOUS
<1>t. TypeOK'
  BY TypeStep DEF IInv
<1>w. WitnessInv'
  BY TypeStep, WitnessStep DEF IInv
<1> USE <1>t, <1>w, FloorAssumption, ActHubAssumption DEF IInv
<1>1. ASSUME NEW c \in Command \cup {Nobody}, Arrive(c) PROVE IInv'
  <2>1. UNCHANGED <<pc, device, time, silence>> /\ live' \in BOOLEAN
    BY <1>1 DEF Arrive, TypeOK
  <2>2. ClockInv' /\ DriveInv' /\ StatusInv'
    BY <2>1 DEF ClockInv, DriveInv, StatusInv, Energised, Later, Clock,
                DriveOut, device, time
  <2>3. BootInv'
    <3> SUFFICES ASSUME ~live' PROVE BootInv'
      BY DEF BootInv
    <3>1. /\ ~live
          /\ floor.haveBaseline => c = Nobody \/ c.seq = floor.lastSeq
          /\ rx' = Append(rx, c) /\ rx \in Seq(Command \cup {Nobody})
          /\ UNCHANGED <<floor, out>>
      BY <1>1 DEF Arrive, TypeOK, device
    <3>2. ASSUME floor.haveBaseline, NEW i \in DOMAIN rx'
          PROVE  rx'[i] = Nobody \/ rx'[i].seq = floor.lastSeq
      <4>1. \A j \in DOMAIN rx : rx[j] = Nobody \/ rx[j].seq = floor.lastSeq
        BY <3>1, <3>2 DEF BootInv
      <4>2. i \in DOMAIN rx \/ i = Len(rx) + 1
        BY <3>1, <3>2
      <4> QED
        BY <4>1, <4>2, <3>1, <3>2
    <3> QED
      BY <3>1, <3>2 DEF BootInv, Energised
  <2> QED
    BY <2>2, <2>3
<1>2. CASE FinishSetup
  BY <1>2 DEF FinishSetup, TypeOK, ClockInv, DriveInv, BootInv, StatusInv,
              Energised, Later, Clock, DriveOut, device, history
<1>3. CASE StartLoop
  BY <1>3 DEF StartLoop, TypeOK, ClockInv, DriveInv, BootInv, StatusInv,
              Energised, Later, Clock, DriveOut, device, history
<1>4. CASE Pump
  <2>1. /\ pc = "pump" /\ pc' = "pump" /\ rx # <<>>
        /\ IF Head(rx) = Nobody THEN UNCHANGED <<floor, applied>>
           ELSE /\ floor' = [floor EXCEPT !.cmdSeq = Head(rx).seq,
                                          !.target = Head(rx).value]
                /\ applied' = Head(rx).seq
        /\ rx' = Tail(rx)
        /\ UNCHANGED <<out, clock, nowReg, stall, silence, live>>
    BY <1>4 DEF Pump, OnCommand, time
  <2>2. /\ floor'.cmdSeq = applied'
        /\ floor'.seenAdvance = floor.seenAdvance
        /\ floor'.lastAdvance = floor.lastAdvance
        /\ floor'.haveBaseline = floor.haveBaseline
    <3>1. CASE Head(rx) = Nobody
      BY <2>1, <3>1 DEF StatusInv
    <3>2. CASE Head(rx) # Nobody
      BY <2>1, <3>2 DEF TypeOK, FloorState
    <3> QED
      BY <3>1, <3>2
  <2>3. BootInv'
    <3> SUFFICES ASSUME ~live, floor.haveBaseline
                 PROVE  /\ \A i \in DOMAIN rx' :
                             rx'[i] = Nobody \/ rx'[i].seq = floor'.lastSeq
                        /\ floor'.cmdSeq = floor'.lastSeq
      BY <2>1, <2>2 DEF BootInv, Energised
    <3>1. /\ \A i \in DOMAIN rx : rx[i] = Nobody \/ rx[i].seq = floor.lastSeq
          /\ floor.cmdSeq = floor.lastSeq
      BY DEF BootInv
    <3>2. rx \in Seq(Command \cup {Nobody}) /\ rx # <<>>
      BY <2>1 DEF TypeOK
    <3>3. Head(rx) = Nobody \/ Head(rx).seq = floor.lastSeq
      BY <3>1, <3>2
    <3>4. floor'.lastSeq = floor.lastSeq /\ floor'.cmdSeq = floor.lastSeq
      BY <2>1, <3>1, <3>3 DEF TypeOK, FloorState
    <3>5. ASSUME NEW i \in DOMAIN rx'
          PROVE  rx'[i] = Nobody \/ rx'[i].seq = floor.lastSeq
      <4>1. i + 1 \in DOMAIN rx /\ rx'[i] = rx[i + 1]
        BY <2>1, <3>2, <3>5
      <4> QED
        BY <3>1, <4>1
    <3> QED
      BY <3>4, <3>5
  <2> QED
    BY <2>1, <2>2, <2>3 DEF ClockInv, DriveInv, StatusInv, Energised,
                            Later, Clock
<1>5. CASE ControlTick
  <2> DEFINE g == Observe(floor, nowReg)
  <2>1. /\ pc = "pump" /\ pc' = "status" /\ rx = <<>>
        /\ floor' = [g EXCEPT !.armed = Fresh(g, nowReg)]
        /\ out' = DriveOut(floor')
        /\ silence' = (IF Advanced(floor) THEN stall ELSE silence)
        /\ UNCHANGED <<applied, rx, clock, nowReg, stall, live>>
    BY <1>5 DEF ControlTick, FloorTick, time
  <2>2. /\ floor \in FloorState /\ nowReg \in Clock /\ clock \in Clock
        /\ stall \in 0 .. Wdt /\ silence \in 0 .. ClockWrap
        /\ clock = Later(nowReg, stall)
        /\ floor.lastAdvance \in Clock
    BY <2>1 DEF TypeOK, ClockInv
  <2>3. /\ floor'.cmdSeq = floor.cmdSeq /\ floor'.lastSeq = floor.cmdSeq
        /\ floor'.haveBaseline
        /\ floor'.armed = Fresh(g, nowReg)
        /\ floor'.seenAdvance = g.seenAdvance
        /\ floor'.lastAdvance = g.lastAdvance
    BY <2>1, <2>2 DEF FloorState, Observe, Advanced
  <2>4. /\ g.seenAdvance = (floor.seenAdvance \/ Advanced(floor))
        /\ g.lastAdvance = (IF Advanced(floor) THEN nowReg
                            ELSE floor.lastAdvance)
    BY <2>2 DEF FloorState, Observe, Advanced
  <2>5. ClockInv'
    <3>1. floor'.lastAdvance \in Clock
      BY <2>2, <2>3, <2>4
    <3>2. ASSUME Advanced(floor)
          PROVE  clock' = Later(floor'.lastAdvance, silence') /\ stall <= silence'
      BY <3>2, <2>1, <2>2, <2>3, <2>4
    <3>3. ASSUME ~Advanced(floor), floor'.seenAdvance, silence' < ClockWrap
          PROVE  clock' = Later(floor'.lastAdvance, silence') /\ stall <= silence'
      BY <3>3, <2>1, <2>3, <2>4 DEF ClockInv
    <3>4. clock' = Later(nowReg', stall') /\ stall' = stall
      BY <2>1, <2>2 DEF Later
    <3> QED
      BY <3>1, <3>2, <3>3, <3>4 DEF ClockInv, Later
  <2>6. StatusInv'
    BY <2>1, <2>3 DEF StatusInv
  <2>7. BootInv'
    <3>1. ASSUME ~live PROVE ~Advanced(floor) /\ ~floor.seenAdvance
      BY <3>1 DEF BootInv, Advanced
    <3>2. ASSUME ~live PROVE ~floor'.seenAdvance /\ ~floor'.armed
      BY <3>1, <3>2, <2>3, <2>4 DEF Fresh
    <3> QED
      BY <3>2, <2>1, <2>3 DEF BootInv, Energised, DriveOut
  <2>8. DriveInv'
    <3> SUFFICES ASSUME Energised', silence' < ClockWrap
                 PROVE  silence' < Window + stall
      <4>1. pc' # "setup" /\ pc' # "pump" /\ stall' = stall
        BY <2>1
      <4>2. Window + stall + 0 = Window + stall
        BY <2>2
      <4> QED
        BY <4>1, <4>2 DEF DriveInv
    <3>1. Fresh(g, nowReg)
      BY <2>1, <2>3 DEF Energised, DriveOut
    <3>2. /\ g.seenAdvance
          /\ ElapsedMillis(nowReg, g.lastAdvance) < Window
      BY <3>1 DEF Fresh
    <3>3. CASE Advanced(floor)
      BY <3>3, <2>1, <2>2
    <3>4. CASE ~Advanced(floor)
      <4>1. /\ silence' = silence /\ stall <= silence
            /\ clock = Later(floor.lastAdvance, silence)
            /\ g.lastAdvance = floor.lastAdvance
        BY <3>2, <3>4, <2>1, <2>4 DEF ClockInv
      <4>2. nowReg = Later(floor.lastAdvance, silence - stall)
        BY <4>1, <2>2 DEF Later, Clock
      <4>3. silence - stall < Window
        BY <4>1, <4>2, <3>2, <2>2, ElapsedIsAge
      <4> QED
        BY <4>1, <4>3, <2>2
    <3> QED
      BY <3>3, <3>4
  <2> QED
    BY <2>5, <2>6, <2>7, <2>8
<1>6. CASE StatusTick
  BY <1>6 DEF StatusTick, TypeOK, ClockInv, DriveInv, BootInv, StatusInv,
              Energised, Later, Clock, DriveOut, time, history
<1>7. CASE StatusNotDue
  BY <1>7 DEF StatusNotDue, TypeOK, ClockInv, DriveInv, BootInv, StatusInv,
              Energised, Later, Clock, DriveOut, device, time, history
<1>8. CASE Elapse
  <2>1. /\ clock' = (IF clock + 1 < ClockWrap THEN clock + 1 ELSE 0)
        /\ stall' = (IF pc = "setup" THEN stall ELSE stall + 1)
        /\ silence' = (IF silence < ClockWrap THEN silence + 1 ELSE silence)
        /\ stall < Wdt \/ pc = "setup"
        /\ UNCHANGED <<pc, floor, applied, out, rx, nowReg, live>>
    BY <1>8 DEF Elapse, device
  <2>2. /\ clock \in Clock /\ nowReg \in Clock /\ stall \in 0 .. Wdt
        /\ silence \in 0 .. ClockWrap /\ floor.lastAdvance \in Clock
    BY DEF TypeOK, ClockInv
  <2>3. ASSUME NEW t \in Clock, NEW a \in 0 .. ClockWrap - 1,
               clock = Later(t, a), a + 1 < ClockWrap
        PROVE  clock' = Later(t, a + 1)
    BY <2>1, <2>2, <2>3 DEF Later, Clock
  <2>4. pc \in {"pump", "status"} => clock' = Later(nowReg', stall')
    <3> SUFFICES ASSUME pc \in {"pump", "status"}
                 PROVE  clock' = Later(nowReg, stall + 1)
      BY <2>1 DEF Later
    <3>1. clock = Later(nowReg, stall) /\ stall < Wdt
      BY <2>1 DEF ClockInv
    <3> QED
      BY <3>1, <2>2, <2>3
  <2>5. ASSUME floor.seenAdvance, silence' < ClockWrap
        PROVE  clock' = Later(floor.lastAdvance, silence')
    <3>1. silence < ClockWrap /\ silence' = silence + 1
      BY <2>1, <2>2, <2>5
    <3>2. clock = Later(floor.lastAdvance, silence)
      BY <2>5, <3>1 DEF ClockInv
    <3> QED
      BY <3>1, <3>2, <2>2, <2>3, <2>5
  <2>6. ASSUME floor.seenAdvance, silence' < ClockWrap,
               pc \in {"pump", "status"}
        PROVE  stall' <= silence'
    BY <2>1, <2>2, <2>6 DEF ClockInv
  <2>7. ClockInv'
    BY <2>1, <2>2, <2>4, <2>5, <2>6 DEF ClockInv, Later
  <2>8. DriveInv'
    <3> SUFFICES ASSUME Energised, silence' < ClockWrap
                 PROVE  /\ pc # "setup"
                        /\ silence' < Window + stall'
                                        + (IF pc = "pump" THEN Wdt ELSE 0)
      BY <2>1 DEF DriveInv, Energised
    <3>1. /\ pc # "setup" /\ silence < ClockWrap
          /\ silence < Window + stall + (IF pc = "pump" THEN Wdt ELSE 0)
      BY <2>1, <2>2 DEF DriveInv
    <3> QED
      BY <3>1, <2>1, <2>2
  <2>9. BootInv' /\ StatusInv'
    BY <2>1 DEF BootInv, StatusInv, Energised, DriveOut
  <2> QED
    BY <2>7, <2>8, <2>9
<1>9. CASE Reset
  BY <1>9 DEF Reset, ClockInv, DriveInv, BootInv, StatusInv, Energised,
              FloorInit, Clock
<1>10. CASE UNCHANGED vars
  BY <1>10 DEF vars, TypeOK, ClockInv, DriveInv, BootInv, StatusInv, Energised,
               Later, Clock, DriveOut, device, time, history
<1> QED
  BY <1>1, <1>2, <1>3, <1>4, <1>5, <1>6, <1>7, <1>8, <1>9, <1>10 DEF Next

(* IInv: the strengthening is an invariant of every build. *)
THEOREM Inductive == Spec => []IInv
<1>1. IInv /\ [Next]_vars => IInv'
  BY IInvStep
<1> QED
  BY <1>1, InitIInv, PTL DEF Spec

(* DeadMan: the output of every hub is back at its safe action at most      *)
(* Window + 2 * Wdt after the pass that last saw the command seq advance,   *)
(* for as long as that is less than one period of the millisecond clock.    *)
THEOREM DeadManHolds == Spec => []DeadMan
<1>1. IInv => DeadMan
  BY FloorAssumption, ActHubAssumption
     DEF IInv, TypeOK, DriveInv, DeadMan, Energised
<1> QED
  BY <1>1, Inductive, PTL

(* InWindowDrives: an advance that is inside the window on real time is     *)
(* driven, in every build, until the millisecond clock comes round.         *)
THEOREM InWindowIsDriven == Spec => []InWindowDrives
<1>1. IInv => InWindowDrives
  <2> SUFFICES ASSUME IInv, pc = "status", silence < ClockWrap,
                      silence - stall < Window, floor.lastAdvance <= nowReg
               PROVE  out = floor.target
    BY DEF InWindowDrives
  <2>1. /\ nowReg \in Clock /\ floor.lastAdvance \in Clock /\ clock \in Clock
        /\ stall \in 0 .. Wdt /\ silence \in 0 .. ClockWrap
    BY DEF IInv, TypeOK, ClockInv
  <2>2. /\ floor.seenAdvance
        /\ clock = Later(nowReg, stall)
        /\ clock = Later(floor.lastAdvance, silence) /\ stall <= silence
    BY DEF IInv, ClockInv, WitnessInv
  <2>3. nowReg - floor.lastAdvance = silence - stall
    BY <2>1, <2>2, ActHubAssumption DEF Later, Clock
  <2>4. Fresh(floor, nowReg)
    BY <2>1, <2>2, <2>3, FloorAssumption DEF Fresh, ElapsedMillis, Clock
  <2>5. floor.armed /\ out = DriveOut(floor)
    BY <2>4 DEF IInv, WitnessInv, StatusInv
  <2> QED
    BY <2>5 DEF DriveOut
<1> QED
  BY <1>1, Inductive, PTL

(* StaleBufferInert: no number of commands that were in the hub's receive   *)
(* buffer at the first tick of a boot moves the plant, nor does a repeat of *)
(* the last of them after it.                                               *)
THEOREM StaleBufferCannotEnergise == Spec => []StaleBufferInert
<1>1. IInv => StaleBufferInert
  BY DEF IInv, BootInv, StaleBufferInert, TypeOK
<1> QED
  BY <1>1, Inductive, PTL

(* StatusTruth: every status sample tells what the drive hook holds. *)
THEOREM StatusTells == Spec => StatusTruth
<1> DEFINE Told ==
      pc = "status" /\ pc' = "top" /\ report' # report =>
        LET sent == Head(report') IN
          IF sent.floored
          THEN out = Safe
          ELSE /\ out = floor.target
               /\ sent.applied = floor.lastSeq /\ sent.applied = floor.cmdSeq
<1>1. IInv /\ [Next]_vars => [Told]_vars
  <2> SUFFICES ASSUME IInv, Next, pc = "status", pc' = "top",
                      report' # report
               PROVE  Told
    BY DEF vars
  <2>1. StatusTick
    BY DEF Next, Arrive, FinishSetup, StartLoop, Pump, ControlTick,
           StatusNotDue, Elapse, Reset, device
  <2>2. Head(report').applied = applied
    BY <2>1 DEF StatusTick
  <2>3. Head(report').floored = ~floor.armed
    BY <2>1 DEF StatusTick
  <2>4. /\ applied = floor.cmdSeq /\ applied = floor.lastSeq
        /\ out = DriveOut(floor)
    BY DEF IInv, StatusInv
  <2>5. CASE floor.armed
    BY <2>2, <2>3, <2>4, <2>5 DEF DriveOut
  <2>6. CASE ~floor.armed
    BY <2>2, <2>3, <2>4, <2>6 DEF DriveOut
  <2> QED
    BY <2>5, <2>6
<1> QED
  BY <1>1, Inductive, PTL DEF Spec, StatusTruth
-----------------------------------------------------------------------------
(* A chip fresh out of reset is an open switch. *)
LEMMA InitIsOpen == Init => Switch!Init
  BY DEF Init, Energised, Switch!Init

(* Every step of the hub is a step of the switch or none: the tick judges,  *)
(* a frame may be the first one heard, time ages, a reset reboots.          *)
LEMMA StepIsSwitchStep ==
  IInv /\ IInv' /\ [Next]_vars => [Switch!Next]_(Switch!switch)
<1> SUFFICES ASSUME IInv, IInv', [Next]_vars
             PROVE  [Switch!Next]_(Switch!switch)
  OBVIOUS
<1> USE DEF Switch!switch, Switch!Next, Energised
<1>1. ASSUME NEW c \in Command \cup {Nobody}, Arrive(c) PROVE [Switch!Next]_(Switch!switch)
  <2>1. /\ UNCHANGED <<out, silence>>
        /\ live' = (live \/ (c # Nobody /\ floor.haveBaseline
                               /\ c.seq # floor.lastSeq))
    BY <1>1 DEF Arrive, device
  <2>2. live \in BOOLEAN /\ floor.haveBaseline \in BOOLEAN
    BY DEF IInv, TypeOK, FloorState
  <2> QED
    BY <2>1, <2>2 DEF Switch!Hear
<1>2. CASE FinishSetup \/ StartLoop \/ Pump \/ StatusTick \/ StatusNotDue
  BY <1>2 DEF FinishSetup, StartLoop, Pump, StatusTick, StatusNotDue, device,
              history
<1>3. CASE ControlTick
  <2>1. /\ pc' = "status" /\ live' = live /\ stall' = stall
        /\ silence' = IF Advanced(floor) THEN stall ELSE silence
    BY <1>3 DEF ControlTick, time
  <2>2. /\ stall \in 0 .. Wdt /\ silence' \in 0 .. ClockWrap
        /\ live \in BOOLEAN
    BY DEF IInv, TypeOK
  <2>3. Advanced(floor) => live
    BY DEF IInv, BootInv, Advanced
  <2>4. silence' = silence \/ (live /\ silence' \in 0 .. Wdt)
    BY <2>1, <2>2, <2>3
  <2>5. ASSUME Energised'
        PROVE  live /\ (silence' < Window + 2 * Wdt \/ silence' = ClockWrap)
    <3>1. live
      BY <2>1, <2>5 DEF IInv, BootInv
    <3>2. silence' < ClockWrap => silence' < Window + stall
      <4>1. pc' # "pump" /\ Window + stall + 0 = Window + stall
        BY <2>1, <2>2, FloorAssumption
      <4> QED
        BY <2>1, <2>5, <4>1 DEF IInv, DriveInv
    <3> QED
      BY <3>1, <3>2, <2>2, FloorAssumption, ActHubAssumption
  <2>6. Energised' \in BOOLEAN
    BY DEF Energised
  <2> QED
    BY <2>1, <2>4, <2>5, <2>6 DEF Switch!Judge
<1>4. CASE Elapse
  <2>1. /\ UNCHANGED <<pc, out, live>>
        /\ silence' = IF silence < ClockWrap THEN silence + 1 ELSE silence
    BY <1>4 DEF Elapse, device
  <2>2. stall' \in 0 .. Wdt /\ silence' \in 0 .. ClockWrap
    BY DEF IInv, TypeOK
  <2>3. Energised => silence' < Window + 2 * Wdt \/ silence' = ClockWrap
    BY <2>1, <2>2, FloorAssumption, ActHubAssumption DEF IInv, DriveInv
  <2> QED
    BY <2>1, <2>3 DEF Switch!Age
<1>5. CASE Reset
  BY <1>5 DEF Reset, Switch!Reboot
<1>6. CASE UNCHANGED vars
  BY <1>6 DEF vars, device, history
<1> QED
  BY <1>1, <1>2, <1>3, <1>4, <1>5, <1>6 DEF Next

(* IsDeadManSwitch: in every build the hub implements the abstract switch,  *)
(* with the window and two loop passes for its limit.                       *)
THEOREM HubIsDeadManSwitch == Spec => IsDeadManSwitch
<1>1. Spec => Switch!Init
  BY InitIsOpen DEF Spec
<1>2. IInv /\ IInv' /\ [Next]_vars => [Switch!Next]_(Switch!switch)
  BY StepIsSwitchStep
<1> QED
  BY <1>1, <1>2, Inductive, PTL DEF Spec, IsDeadManSwitch, Switch!Spec
=============================================================================
