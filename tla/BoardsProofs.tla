---------------------------- MODULE BoardsProofs ----------------------------
(***************************************************************************)
(* Proofs about the two boards of the example robot, for every build:      *)
(* that the Blaster relays in time, hears its IMU and sends no pose of a   *)
(* sleeping one, that the wheels' speeds are those of the pass that sends  *)
(* them, and that each wheel of the wheels board is an actuator hub.       *)
(***************************************************************************)
EXTENDS MCBoards, SequenceTheorems, TLAPS

(***************************************************************************)
(* The Blaster.  Readings of the clock less than a turn apart are          *)
(* subtracted as if there were no turn.                                    *)
(***************************************************************************)
LEMMA SinceType ==
  ASSUME NEW t \in Root!Micros, NEW s \in Root!Micros
  PROVE  Root!Since(t, s) \in Root!Micros /\ Root!Since(t, t) = 0
  BY ScheduleAssumption DEF Root!Micros, Root!Since

LEMMA SinceNext ==
  ASSUME NEW t \in Root!Micros, NEW s \in Root!Micros,
         Root!Since(t, s) + 1 < UsWrap
  PROVE  Root!Since(Root!NextMicro(t), s) = Root!Since(t, s) + 1
  BY ScheduleAssumption DEF Root!Micros, Root!Since, Root!NextMicro

LEMMA SinceSum ==
  ASSUME NEW t \in Root!Micros, NEW n \in Root!Micros, NEW s \in Root!Micros,
         Root!Since(n, s) + Root!Since(t, n) < UsWrap
  PROVE  Root!Since(t, s) = Root!Since(n, s) + Root!Since(t, n)
  BY ScheduleAssumption DEF Root!Micros, Root!Since

LEMMA NextMicroType ==
  ASSUME NEW t \in Root!Micros PROVE Root!NextMicro(t) \in Root!Micros
  BY ScheduleAssumption DEF Root!Micros, Root!NextMicro

LEMMA FrameSeq ==
  ASSUME NEW S, NEW q \in Seq(S), NEW e \in S
  PROVE  /\ Append(q, e) \in Seq(S) /\ Len(Append(q, e)) = Len(q) + 1
         /\ q # <<>> => Tail(q) \in Seq(S) /\ Len(Tail(q)) = Len(q) - 1
         /\ Len(q) \in Nat
  OBVIOUS

(* A function on the places of a queue is a queue as long. *)
LEMMA SameLength ==
  ASSUME NEW S, NEW T, NEW q \in Seq(S), NEW p, p \in [DOMAIN q -> T]
  PROVE  p \in Seq(T) /\ Len(p) = Len(q) /\ DOMAIN p = DOMAIN q
<1>1. DOMAIN q = 1 .. Len(q) /\ Len(q) \in Nat
  BY LenProperties
<1>2. p \in Seq(T)
  BY <1>1, SeqDef
<1>3. DOMAIN p = 1 .. Len(p) /\ Len(p) \in Nat /\ DOMAIN p = DOMAIN q
  BY <1>2, LenProperties
<1> QED
  BY <1>1, <1>2, <1>3

LEMMA RootInit == Root!Init => Root!BlasterInv
<1> SUFFICES ASSUME Root!Init PROVE Root!BlasterInv
  OBVIOUS
<1> USE ScheduleAssumption, HostAssumption
<1>1. Root!BlasterTypeOK
  <2>1. last \in [Root!TableRow -> Root!Micros]
    BY DEF Root!Init, Root!Micros
  <2>2. hostRx \in Seq([to : Root!Target, age : 0 .. Root!RelayBound + 1])
    BY DEF Root!Init
  <2>3. /\ loop = "setup" /\ us \in Root!Micros /\ now \in Root!Micros
        /\ spent \in 0 .. Slack /\ waited \in 0 .. EchoTimeout + WakeDelay
        /\ Len(hostRx) <= HostCap
    BY DEF Root!Init, Root!Micros
  <2>4. inited \in BOOLEAN /\ imu \in {"asleep", "awake"} /\ answers \in BOOLEAN
    BY DEF Root!Init
  <2>5. sent \in {<<>>, <<"asleep">>, <<"awake">>}
    BY DEF Root!Init
  <2>6. mute \in 0 .. Root!MuteBound
    BY DEF Root!Init, Root!MuteBound, Root!LongestPass
  <2> QED
    BY <2>1, <2>2, <2>3, <2>4, <2>5, <2>6 DEF Root!BlasterTypeOK
<1>2. Root!WaitInv
  BY DEF Root!Init, Root!WaitInv
<1>3. Root!PassInv
  BY DEF Root!Init, Root!PassInv
<1>4. Root!MuteInv
  BY DEF Root!Init, Root!MuteInv, Root!Unrun, Root!TableRow
<1>5. Root!AwakeInv
  BY DEF Root!Init, Root!AwakeInv, Root!PoseFromAwake
<1> QED
  BY <1>1, <1>2, <1>3, <1>4, <1>5 DEF Root!BlasterInv

(* Every age is set by nobody but time, and at the end of setup. *)
LEMMA FramesStep ==
  ASSUME Root!BlasterTypeOK, Root!Next
  PROVE  /\ hostRx' \in Seq([to : Root!Target, age : 0 .. Root!RelayBound + 1])
         /\ Len(hostRx') <= HostCap
<1> USE ScheduleAssumption, HostAssumption
<1> DEFINE Frames == [to : Root!Target, age : 0 .. Root!RelayBound + 1]
<1>b. Root!RelayBound \in Nat
  BY DEF Root!RelayBound, Root!LongestPass
<1>q. hostRx \in Seq(Frames) /\ Len(hostRx) <= HostCap /\ Len(hostRx) \in Nat
  BY FrameSeq DEF Root!BlasterTypeOK
<1>f. \A i \in DOMAIN hostRx : hostRx[i] \in Frames
  BY <1>q, LenProperties
<1>1. ASSUME NEW to \in Root!Target, Root!HostFrame(to)
      PROVE  hostRx' \in Seq(Frames) /\ Len(hostRx') <= HostCap
  <2>1. [to |-> to, age |-> 0] \in Frames
    BY <1>b
  <2>2. Len(hostRx) < HostCap /\ hostRx' = Append(hostRx, [to |-> to, age |-> 0])
    BY <1>1 DEF Root!HostFrame
  <2>3. hostRx' \in Seq(Frames) /\ Len(hostRx') = Len(hostRx) + 1
    BY <2>1, <2>2, <1>q, FrameSeq
  <2> QED
    BY <2>2, <2>3, <1>q
<1>2. CASE Root!FinishSetup
  <2>1. hostRx' = [i \in DOMAIN hostRx |-> [hostRx[i] EXCEPT !.age = 0]]
    BY <1>2 DEF Root!FinishSetup
  <2>2. hostRx' \in [DOMAIN hostRx -> Frames]
    BY <2>1, <1>f, <1>b
  <2>3. hostRx' \in Seq(Frames) /\ Len(hostRx') = Len(hostRx)
    BY <2>2, <1>q, SameLength
  <2> QED
    BY <2>3, <1>q
<1>3. CASE Root!Pump
  <2>1. hostRx # <<>> /\ hostRx' = Tail(hostRx)
    BY <1>3 DEF Root!Pump
  <2>2. hostRx' \in Seq(Frames) /\ Len(hostRx') = Len(hostRx) - 1
    BY <2>1, <1>q
  <2> QED
    BY <2>2, <1>q
<1>4. CASE Root!Elapse
  <2>1. CASE loop = "setup"
    BY <1>4, <2>1, <1>q DEF Root!Elapse
  <2>2. CASE loop # "setup"
    <3> DEFINE Aged(f) == [f EXCEPT !.age = IF @ > Root!RelayBound THEN @
                                            ELSE @ + 1]
    <3>1. hostRx' = [i \in DOMAIN hostRx |-> Aged(hostRx[i])]
      BY <1>4, <2>2 DEF Root!Elapse
    <3>2. \A f \in Frames : Aged(f) \in Frames
      BY <1>b
    <3> HIDE DEF Aged
    <3>3. hostRx' \in [DOMAIN hostRx -> Frames]
      BY <3>1, <3>2, <1>f
    <3>4. hostRx' \in Seq(Frames) /\ Len(hostRx') = Len(hostRx)
      BY <3>3, <1>q, SameLength
    <3> QED
      BY <3>4, <1>q
  <2> QED
    BY <2>1, <2>2
<1>5. CASE Root!Reset
  BY <1>5 DEF Root!Reset
<1>6. CASE UNCHANGED hostRx
  BY <1>6, <1>q
<1> HIDE DEF Frames
<1> QED
  BY <1>1, <1>2, <1>3, <1>4, <1>5, <1>6
     DEF Root!Next, Root!ImuGlitch, Root!StartLoop, Root!PumpDone,
         Root!NotDue, Root!Trigger, Root!EchoDone, Root!PoseTick,
         Root!WhoAmI, Root!PowerUp, Root!WakeDone, Frames

(* BlasterTypeOK: every variable of the Blaster keeps its type. *)
LEMMA RootTypeStep ==
  ASSUME Root!BlasterTypeOK, Root!Next PROVE Root!BlasterTypeOK'
<1> USE ScheduleAssumption
<1> DEFINE Places == Root!TableRow
                       \cup {"setup", "top", "pump", "echo", "power", "wake"}
           Times == /\ us \in Root!Micros /\ now \in Root!Micros
                    /\ last \in [Root!TableRow -> Root!Micros]
           Counts == /\ spent \in 0 .. Slack
                     /\ waited \in 0 .. EchoTimeout + WakeDelay
                     /\ mute \in 0 .. Root!MuteBound
           Imu == /\ inited \in BOOLEAN /\ imu \in {"asleep", "awake"}
                  /\ answers \in BOOLEAN
                  /\ sent \in {<<>>, <<"asleep">>, <<"awake">>}
<1>s. loop \in Places /\ Times /\ Counts /\ Imu
  BY DEF Root!BlasterTypeOK
<1>b. Root!MuteBound \in Nat /\ 0 \in Root!Micros
  BY DEF Root!MuteBound, Root!LongestPass, Root!Micros
<1> SUFFICES loop' \in Places /\ Times' /\ Counts' /\ Imu'
  BY FramesStep DEF Root!BlasterTypeOK
<1>1. ASSUME NEW to \in Root!Target, Root!HostFrame(to)
      PROVE  loop' \in Places /\ Times' /\ Counts' /\ Imu'
  BY <1>1, <1>s, <1>b DEF Root!HostFrame, Root!blasterTime, Root!blasterImu, Root!TableRow
<1>2. CASE Root!ImuGlitch
  BY <1>2, <1>s, <1>b DEF Root!ImuGlitch, Root!blasterTime, Root!blasterImu, Root!TableRow
<1>3. CASE Root!FinishSetup
  BY <1>3, <1>s, <1>b DEF Root!FinishSetup, Root!blasterTime, Root!blasterImu, Root!TableRow
<1>4. CASE Root!StartLoop
  BY <1>4, <1>s, <1>b DEF Root!StartLoop, Root!blasterTime, Root!blasterImu, Root!TableRow
<1>5. CASE Root!Pump
  BY <1>5, <1>s, <1>b DEF Root!Pump, Root!blasterTime, Root!blasterImu, Root!TableRow
<1>6. CASE Root!PumpDone
  BY <1>6, <1>s, <1>b DEF Root!PumpDone, Root!blasterTime, Root!blasterImu, Root!TableRow
<1>7. CASE Root!NotDue("range", "pose")
  BY <1>7, <1>s, <1>b DEF Root!NotDue, Root!blasterTime, Root!blasterImu, Root!TableRow
<1>8. CASE Root!NotDue("pose", "top")
  BY <1>8, <1>s, <1>b DEF Root!NotDue, Root!blasterTime, Root!blasterImu, Root!TableRow
<1>9. CASE Root!Trigger
  BY <1>9, <1>s, <1>b DEF Root!Trigger, Root!blasterTime, Root!blasterImu, Root!TableRow
<1>10. CASE Root!EchoDone
  BY <1>10, <1>s, <1>b DEF Root!EchoDone, Root!blasterTime, Root!blasterImu, Root!TableRow
<1>11. CASE Root!PoseTick
  BY <1>11, <1>s, <1>b DEF Root!PoseTick, Root!blasterTime, Root!blasterImu, Root!TableRow, Root!Burst
<1>12. CASE Root!WhoAmI
  BY <1>12, <1>s, <1>b DEF Root!WhoAmI, Root!blasterTime, Root!blasterImu, Root!TableRow
<1>13. CASE Root!PowerUp
  BY <1>13, <1>s, <1>b DEF Root!PowerUp, Root!blasterTime, Root!blasterImu, Root!TableRow
<1>14. CASE Root!WakeDone
  BY <1>14, <1>s, <1>b DEF Root!WakeDone, Root!blasterTime, Root!blasterImu, Root!TableRow, Root!Burst
<1>15. CASE Root!Elapse
  <2>1. Times' /\ UNCHANGED <<loop, inited, imu, answers, sent>>
    BY <1>15, <1>s, NextMicroType DEF Root!Elapse, Root!blasterImu
  <2>2. spent' \in 0 .. Slack /\ waited' \in 0 .. EchoTimeout + WakeDelay
    <3>1. \/ UNCHANGED <<spent, waited>>
          \/ /\ waited < EchoTimeout \/ waited < WakeDelay
             /\ waited' = waited + 1 /\ spent' = spent
          \/ spent < Slack /\ spent' = spent + 1 /\ waited' = waited
      BY <1>15 DEF Root!Elapse
    <3> QED
      BY <3>1, <1>s
  <2>3. mute' \in 0 .. Root!MuteBound
    <3>1. mute' = mute \/ (mute < Root!MuteBound /\ mute' = mute + 1)
      BY <1>15 DEF Root!Elapse
    <3> QED
      BY <3>1, <1>s, <1>b
  <2> QED
    BY <2>1, <2>2, <2>3, <1>s
<1>16. CASE Root!Reset
  <2>1. last' \in [Root!TableRow -> Root!Micros]
    BY <1>16, <1>b DEF Root!Reset
  <2>2. /\ loop' = "setup" /\ us' = 0 /\ now' = 0 /\ spent' = 0
        /\ waited' = 0 /\ mute' = 0 /\ sent' = <<>> /\ inited' = FALSE
        /\ imu' \in {imu, "asleep"} /\ answers' = answers
    BY <1>16 DEF Root!Reset
  <2>3. Times' /\ Counts' /\ loop' \in Places
    BY <2>1, <2>2, <1>b
  <2>4. Imu'
    BY <2>2, <1>s
  <2> QED
    BY <2>3, <2>4
<1> QED
  BY <1>1, <1>2, <1>3, <1>4, <1>5, <1>6, <1>7, <1>8, <1>9, <1>10, <1>11, <1>12, <1>13, <1>14, <1>15, <1>16 DEF Root!Next

(* What the type invariant says of the numbers. *)
LEMMA RootNumbers ==
  ASSUME Root!BlasterTypeOK
  PROVE  /\ us \in Root!Micros /\ now \in Root!Micros
         /\ \A r \in {"range", "pose"} : last[r] \in Root!Micros
         /\ last \in [{"range", "pose"} -> Root!Micros]
         /\ spent \in Nat /\ spent <= Slack
         /\ waited \in Nat /\ mute \in Nat
         /\ Root!InPass \in Nat
<1>1. /\ us \in Root!Micros /\ now \in Root!Micros
      /\ last \in [{"range", "pose"} -> Root!Micros]
  BY DEF Root!BlasterTypeOK, Root!TableRow
<1>2. spent \in Nat /\ spent <= Slack /\ waited \in Nat
  BY ScheduleAssumption DEF Root!BlasterTypeOK
<1>3. mute \in Nat
  BY ScheduleAssumption DEF Root!BlasterTypeOK, Root!MuteBound, Root!LongestPass
<1>4. Root!InPass \in Nat
  <2>1. Root!InPass \in Root!Micros
    BY <1>1, SinceType DEF Root!InPass
  <2> QED
    BY <2>1 DEF Root!Micros
<1> QED
  BY <1>1, <1>2, <1>3, <1>4

(* PassInv: where the loop is says how far its clock register is behind. *)
LEMMA RootPassStep ==
  ASSUME Root!BlasterTypeOK, Root!PassInv, Root!Next PROVE Root!PassInv'
<1> USE ScheduleAssumption
<1>n. /\ us \in Root!Micros /\ now \in Root!Micros
      /\ last \in [{"range", "pose"} -> Root!Micros]
      /\ spent \in Nat /\ spent <= Slack /\ waited \in Nat
      /\ Root!InPass \in Nat
  BY RootNumbers
<1>1. ASSUME NEW to \in Root!Target, Root!HostFrame(to)
      PROVE  Root!PassInv'
  BY <1>1, <1>n
     DEF Root!HostFrame, Root!blasterTime, Root!PassInv, Root!InPass
<1>2. CASE Root!ImuGlitch
  BY <1>2, <1>n
     DEF Root!ImuGlitch, Root!blasterTime, Root!PassInv, Root!InPass
<1>3. CASE Root!FinishSetup
  BY <1>3, <1>n
     DEF Root!FinishSetup, Root!blasterTime, Root!PassInv, Root!InPass
<1>4. CASE Root!StartLoop
  <2>1. Root!InPass' = 0
    BY <1>4, <1>n, SinceType DEF Root!StartLoop, Root!InPass
  <2> QED
    BY <1>4, <2>1 DEF Root!StartLoop, Root!PassInv
<1>5. CASE Root!Pump
  BY <1>5, <1>n
     DEF Root!Pump, Root!blasterTime, Root!PassInv, Root!InPass
<1>6. CASE Root!PumpDone
  BY <1>6, <1>n
     DEF Root!PumpDone, Root!blasterTime, Root!PassInv, Root!InPass
<1>7. CASE Root!NotDue("range", "pose")
  BY <1>7, <1>n
     DEF Root!NotDue, Root!blasterTime, Root!PassInv, Root!InPass
<1>8. CASE Root!NotDue("pose", "top")
  BY <1>8, <1>n
     DEF Root!NotDue, Root!blasterTime, Root!PassInv, Root!InPass
<1>9. CASE Root!Trigger
  BY <1>9, <1>n
     DEF Root!Trigger, Root!blasterTime, Root!PassInv, Root!InPass
<1>10. CASE Root!EchoDone
  BY <1>10, <1>n
     DEF Root!EchoDone, Root!blasterTime, Root!PassInv, Root!InPass
<1>11. CASE Root!PoseTick
  BY <1>11, <1>n
     DEF Root!PoseTick, Root!blasterTime, Root!PassInv, Root!InPass, Root!Burst
<1>12. CASE Root!WhoAmI
  BY <1>12, <1>n
     DEF Root!WhoAmI, Root!blasterTime, Root!PassInv, Root!InPass
<1>13. CASE Root!PowerUp
  BY <1>13, <1>n
     DEF Root!PowerUp, Root!blasterTime, Root!PassInv, Root!InPass
<1>14. CASE Root!WakeDone
  BY <1>14, <1>n
     DEF Root!WakeDone, Root!blasterTime, Root!PassInv, Root!InPass, Root!Burst
<1>15. CASE Root!Elapse
  <2>1. us' = Root!NextMicro(us) /\ UNCHANGED <<loop, now, last>>
    BY <1>15 DEF Root!Elapse
  <2>2. CASE loop \in {"setup", "top"}
    BY <1>15, <2>1, <2>2 DEF Root!Elapse, Root!PassInv
  <2>3. CASE loop \notin {"setup", "top"}
    <3>1. \/ /\ loop = "echo" /\ waited < EchoTimeout
             /\ waited' = waited + 1 /\ spent' = spent
          \/ /\ loop = "wake" /\ waited < WakeDelay
             /\ waited' = waited + 1 /\ spent' = spent
          \/ spent < Slack /\ spent' = spent + 1 /\ waited' = waited
      BY <1>15, <2>3 DEF Root!Elapse
    <3>2. Root!InPass <= Slack + EchoTimeout + WakeDelay
      BY <2>3, <1>n DEF Root!PassInv, Root!BlasterTypeOK, Root!TableRow
    <3>3. Root!InPass' = Root!InPass + 1
      BY <2>1, <3>2, <1>n, SinceNext DEF Root!InPass
    <3> QED
      BY <1>n, <2>1, <2>3, <3>1, <3>3 DEF Root!PassInv
  <2> QED
    BY <2>2, <2>3
<1>16. CASE Root!Reset
  BY <1>16 DEF Root!Reset, Root!PassInv
<1> QED
  BY <1>1, <1>2, <1>3, <1>4, <1>5, <1>6, <1>7, <1>8, <1>9, <1>10, <1>11, <1>12, <1>13, <1>14, <1>15, <1>16
     DEF Root!Next

(* WaitInv: how long a frame can have waited by where the loop is. *)
LEMMA RootWaitStep ==
  ASSUME Root!BlasterTypeOK, Root!PassInv, Root!WaitInv, Root!Next
  PROVE  Root!WaitInv'
<1> USE ScheduleAssumption
<1>n. /\ spent \in Nat /\ spent <= Slack /\ waited \in Nat
      /\ waited <= EchoTimeout + WakeDelay
      /\ loop \in {"range", "pose", "setup", "top", "pump", "echo", "power", "wake"}
  BY RootNumbers DEF Root!BlasterTypeOK, Root!TableRow
<1>q. /\ hostRx \in Seq([to : Root!Target, age : 0 .. Root!RelayBound + 1])
      /\ \A i \in DOMAIN hostRx :
           /\ hostRx[i] \in [to : Root!Target, age : 0 .. Root!RelayBound + 1]
           /\ hostRx[i].age \in Nat
  <2>1. Root!RelayBound + 1 \in Nat
    BY DEF Root!RelayBound, Root!LongestPass
  <2>2. hostRx \in Seq([to : Root!Target, age : 0 .. Root!RelayBound + 1])
    BY DEF Root!BlasterTypeOK
  <2>3. \A i \in DOMAIN hostRx :
          hostRx[i] \in [to : Root!Target, age : 0 .. Root!RelayBound + 1]
    BY <2>2, LenProperties
  <2> QED
    BY <2>1, <2>2, <2>3
<1>b. Root!WaitBound \in Nat
  BY <1>n DEF Root!WaitBound, Root!LongestPass
<1>k. ASSUME Root!WaitBound' >= Root!WaitBound, hostRx' = hostRx,
             Root!WaitBound' \in Nat
      PROVE  Root!WaitInv'
  BY <1>k, <1>b, <1>q DEF Root!WaitInv
<1>1. ASSUME NEW to \in Root!Target, Root!HostFrame(to)
      PROVE  Root!WaitInv'
  <2>1. hostRx' = Append(hostRx, [to |-> to, age |-> 0]) /\ Root!WaitBound' = Root!WaitBound
    BY <1>1 DEF Root!HostFrame, Root!blasterTime, Root!WaitBound
  <2>2. ASSUME NEW i \in DOMAIN hostRx'
        PROVE  hostRx'[i].age = 0 \/ (i \in DOMAIN hostRx /\ hostRx'[i] = hostRx[i])
    BY <2>1, <2>2, <1>q
  <2> QED
    BY <2>1, <2>2, <1>b DEF Root!WaitInv
<1>2. CASE Root!ImuGlitch
  BY <1>2, <1>n, <1>k, <1>b
     DEF Root!ImuGlitch, Root!blasterTime, Root!WaitBound, Root!LongestPass, Root!PassInv
<1>3. CASE Root!FinishSetup
  <2>1. /\ DOMAIN hostRx' = DOMAIN hostRx
        /\ \A i \in DOMAIN hostRx : hostRx'[i].age = 0
    BY <1>3, <1>q DEF Root!FinishSetup
  <2>2. Root!WaitBound' \in Nat
    BY <1>3 DEF Root!FinishSetup, Root!WaitBound
  <2> QED
    BY <2>1, <2>2 DEF Root!WaitInv
<1>4. CASE Root!StartLoop
  BY <1>4, <1>n, <1>k, <1>b
     DEF Root!StartLoop, Root!blasterTime, Root!WaitBound, Root!LongestPass, Root!PassInv
<1>5. CASE Root!Pump
  <2>1. hostRx # <<>> /\ hostRx' = Tail(hostRx) /\ Root!WaitBound' = Root!WaitBound
    BY <1>5 DEF Root!Pump, Root!blasterTime, Root!WaitBound
  <2>2. ASSUME NEW i \in DOMAIN hostRx'
        PROVE  i + 1 \in DOMAIN hostRx /\ hostRx'[i] = hostRx[i + 1]
    BY <2>1, <2>2, <1>q
  <2> QED
    BY <2>1, <2>2 DEF Root!WaitInv
<1>6. CASE Root!PumpDone
  BY <1>6 DEF Root!PumpDone, Root!WaitInv
<1>7. CASE Root!NotDue("range", "pose")
  BY <1>7, <1>n, <1>k, <1>b
     DEF Root!NotDue, Root!blasterTime, Root!WaitBound, Root!LongestPass, Root!PassInv
<1>8. CASE Root!NotDue("pose", "top")
  BY <1>8, <1>n, <1>k, <1>b
     DEF Root!NotDue, Root!blasterTime, Root!WaitBound, Root!LongestPass, Root!PassInv
<1>9. CASE Root!Trigger
  BY <1>9, <1>n, <1>k, <1>b
     DEF Root!Trigger, Root!blasterTime, Root!WaitBound, Root!LongestPass, Root!PassInv
<1>10. CASE Root!EchoDone
  BY <1>10, <1>n, <1>k, <1>b
     DEF Root!EchoDone, Root!blasterTime, Root!WaitBound, Root!LongestPass, Root!PassInv
<1>11. CASE Root!PoseTick
  BY <1>11, <1>n, <1>k, <1>b
     DEF Root!PoseTick, Root!blasterTime, Root!WaitBound, Root!LongestPass, Root!PassInv, Root!Burst
<1>12. CASE Root!WhoAmI
  BY <1>12, <1>n, <1>k, <1>b
     DEF Root!WhoAmI, Root!blasterTime, Root!WaitBound, Root!LongestPass, Root!PassInv
<1>13. CASE Root!PowerUp
  BY <1>13, <1>n, <1>k, <1>b
     DEF Root!PowerUp, Root!blasterTime, Root!WaitBound, Root!LongestPass, Root!PassInv
<1>14. CASE Root!WakeDone
  BY <1>14, <1>n, <1>k, <1>b
     DEF Root!WakeDone, Root!blasterTime, Root!WaitBound, Root!LongestPass, Root!PassInv, Root!Burst
<1>15. CASE Root!Elapse
  <2>1. CASE loop = "setup"
    BY <1>15, <2>1, <1>k, <1>b DEF Root!Elapse, Root!WaitBound
  <2>2. CASE loop # "setup"
    <3>1. /\ loop' = loop
          /\ \/ /\ loop \in {"echo", "wake"}
                /\ waited' = waited + 1 /\ spent' = spent
             \/ spent' = spent + 1 /\ waited' = waited
      BY <1>15, <2>2 DEF Root!Elapse
    <3>2. Root!WaitBound' = Root!WaitBound + 1
      BY <3>1, <2>2, <1>n DEF Root!WaitBound, Root!LongestPass
    <3>3. /\ DOMAIN hostRx' = DOMAIN hostRx
          /\ \A i \in DOMAIN hostRx : hostRx'[i].age \in {hostRx[i].age, hostRx[i].age + 1}
      BY <1>15, <2>2, <1>q DEF Root!Elapse
    <3> QED
      BY <3>2, <3>3, <1>b, <1>q DEF Root!WaitInv
  <2> QED
    BY <2>1, <2>2
<1>16. CASE Root!Reset
  BY <1>16 DEF Root!Reset, Root!WaitInv
<1> QED
  BY <1>1, <1>2, <1>3, <1>4, <1>5, <1>6, <1>7, <1>8, <1>9, <1>10, <1>11, <1>12, <1>13, <1>14, <1>15, <1>16
     DEF Root!Next

(* AwakeInv: what the chip takes the IMU for, it is. *)
LEMMA RootAwakeStep ==
  ASSUME Root!AwakeInv, Root!Next PROVE Root!AwakeInv'
<1> USE DEF Root!AwakeInv, Root!PoseFromAwake
<1>1. ASSUME NEW to \in Root!Target, Root!HostFrame(to)
      PROVE  Root!AwakeInv'
  BY <1>1
     DEF Root!HostFrame, Root!blasterTime, Root!blasterImu
<1>2. CASE Root!ImuGlitch
  BY <1>2
     DEF Root!ImuGlitch, Root!blasterTime, Root!blasterImu
<1>3. CASE Root!FinishSetup
  BY <1>3
     DEF Root!FinishSetup, Root!blasterTime, Root!blasterImu
<1>4. CASE Root!StartLoop
  BY <1>4
     DEF Root!StartLoop, Root!blasterTime, Root!blasterImu
<1>5. CASE Root!Pump
  BY <1>5
     DEF Root!Pump, Root!blasterTime, Root!blasterImu
<1>6. CASE Root!PumpDone
  BY <1>6
     DEF Root!PumpDone, Root!blasterTime, Root!blasterImu
<1>7. CASE Root!NotDue("range", "pose")
  BY <1>7
     DEF Root!NotDue, Root!blasterTime, Root!blasterImu
<1>8. CASE Root!NotDue("pose", "top")
  BY <1>8
     DEF Root!NotDue, Root!blasterTime, Root!blasterImu
<1>9. CASE Root!Trigger
  BY <1>9
     DEF Root!Trigger, Root!blasterTime, Root!blasterImu
<1>10. CASE Root!EchoDone
  BY <1>10
     DEF Root!EchoDone, Root!blasterTime, Root!blasterImu
<1>11. CASE Root!PoseTick
  BY <1>11
     DEF Root!PoseTick, Root!blasterTime, Root!blasterImu, Root!Burst
<1>12. CASE Root!WhoAmI
  BY <1>12
     DEF Root!WhoAmI, Root!blasterTime, Root!blasterImu
<1>13. CASE Root!PowerUp
  BY <1>13
     DEF Root!PowerUp, Root!blasterTime, Root!blasterImu
<1>14. CASE Root!WakeDone
  BY <1>14
     DEF Root!WakeDone, Root!blasterTime, Root!blasterImu, Root!Burst
<1>15. CASE Root!Elapse
  BY <1>15
     DEF Root!Elapse, Root!blasterTime, Root!blasterImu
<1>16. CASE Root!Reset
  BY <1>16
     DEF Root!Reset, Root!blasterTime, Root!blasterImu
<1> QED
  BY <1>1, <1>2, <1>3, <1>4, <1>5, <1>6, <1>7, <1>8, <1>9, <1>10, <1>11, <1>12, <1>13, <1>14, <1>15, <1>16
     DEF Root!Next

(* MuteInv: the readings that it counts by, as numbers.                     *)
(* D: since the pose row last ran, R: since the range row did.              *)
LEMMA RootMuteStep ==
  ASSUME Root!BlasterTypeOK, Root!PassInv, Root!MuteInv, Root!Next
  PROVE  Root!MuteInv'
<1> USE ScheduleAssumption
<1> DEFINE D == Root!Since(us, last["pose"])
           R == Root!Since(us, last["range"])
           D0 == Root!Since(now, last["pose"])
           R0 == Root!Since(now, last["range"])
<1>n. /\ us \in Root!Micros /\ now \in Root!Micros
      /\ last \in [{"range", "pose"} -> Root!Micros]
      /\ last["range"] \in Root!Micros /\ last["pose"] \in Root!Micros
      /\ spent \in Nat /\ spent <= Slack /\ waited \in Nat
      /\ Root!InPass \in Nat /\ mute \in Nat
  BY RootNumbers
<1>d. D \in Nat /\ R \in Nat /\ D0 \in Nat /\ R0 \in Nat
  <2>1. D \in Root!Micros /\ R \in Root!Micros /\ D0 \in Root!Micros /\ R0 \in Root!Micros
    BY <1>n, SinceType
  <2> QED
    BY <2>1 DEF Root!Micros
<1>a. answers \in BOOLEAN
  BY DEF Root!BlasterTypeOK
<1>1. ASSUME NEW to \in Root!Target, Root!HostFrame(to)
      PROVE  Root!MuteInv'
  BY <1>1, <1>n, <1>d
     DEF Root!HostFrame, Root!blasterTime, Root!blasterImu, Root!PassInv, Root!MuteInv, Root!MuteSinceRow, Root!Unrun, Root!RowJustRan, Root!NothingRunYet, Root!RowWasNotDue, Root!NothingWasDue, Root!InPass
<1>2. CASE Root!ImuGlitch
  <2>1. mute' = 0 /\ UNCHANGED <<loop, us, now, spent, waited, last>>
    BY <1>2 DEF Root!ImuGlitch
  <2> QED
    BY <1>2, <2>1, <1>n, <1>d DEF Root!MuteInv, Root!MuteSinceRow, Root!Unrun, Root!RowJustRan, Root!NothingRunYet, Root!RowWasNotDue, Root!NothingWasDue, Root!InPass
<1>3. CASE Root!FinishSetup
  BY <1>3, <1>n, <1>d
     DEF Root!FinishSetup, Root!blasterTime, Root!blasterImu, Root!PassInv, Root!MuteInv, Root!MuteSinceRow, Root!Unrun, Root!RowJustRan, Root!NothingRunYet, Root!RowWasNotDue, Root!NothingWasDue, Root!InPass
<1>4. CASE Root!StartLoop
  <2>1. /\ Root!InPass' = 0 /\ D0' = D /\ R0' = R /\ spent' = 0
        /\ loop = "top" /\ loop' = "pump" /\ UNCHANGED <<mute, last, answers>>
    BY <1>4, <1>n, SinceType DEF Root!StartLoop, Root!InPass, Root!blasterImu
  <2>2. \/ Root!RowJustRan \/ Root!NothingRunYet
        \/ Root!RowWasNotDue \/ Root!NothingWasDue
    BY <2>1 DEF Root!MuteInv
  <2>3. Root!Unrun => R = D
    BY DEF Root!Unrun
  <2>4. /\ mute < PosePeriod + Slack + EchoTimeout
        /\ mute >= PosePeriod + Slack => R < RangePeriod
        /\ mute <= D \/ (Root!Unrun /\ mute <= Slack + D)
    BY <2>2, <2>3, <1>n, <1>d
       DEF Root!RowJustRan, Root!NothingRunYet, Root!RowWasNotDue, Root!NothingWasDue
  <2>5. Root!MuteSinceRow'
    BY <2>1, <2>4, <1>n, <1>d DEF Root!MuteSinceRow, Root!Unrun
  <2>6. ~answers => mute = 0
    BY DEF Root!MuteInv
  <2> QED
    BY <2>1, <2>4, <2>5, <2>6, <1>n, <1>d DEF Root!MuteInv
<1>5. CASE Root!Pump
  BY <1>5, <1>n, <1>d
     DEF Root!Pump, Root!blasterTime, Root!blasterImu, Root!PassInv, Root!MuteInv, Root!MuteSinceRow, Root!Unrun, Root!RowJustRan, Root!NothingRunYet, Root!RowWasNotDue, Root!NothingWasDue, Root!InPass
<1>6. CASE Root!PumpDone
  BY <1>6, <1>n, <1>d
     DEF Root!PumpDone, Root!blasterTime, Root!blasterImu, Root!PassInv, Root!MuteInv, Root!MuteSinceRow, Root!Unrun, Root!RowJustRan, Root!NothingRunYet, Root!RowWasNotDue, Root!NothingWasDue, Root!InPass
<1>7. CASE Root!NotDue("range", "pose")
  BY <1>7, <1>n, <1>d
     DEF Root!NotDue, Root!blasterTime, Root!blasterImu, Root!PassInv, Root!MuteInv, Root!MuteSinceRow, Root!Unrun, Root!RowJustRan, Root!NothingRunYet, Root!RowWasNotDue, Root!NothingWasDue, Root!InPass
<1>8. CASE Root!NotDue("pose", "top")
  <2>1. /\ loop = "pose" /\ loop' = "top" /\ D0 < PosePeriod
        /\ UNCHANGED <<us, now, spent, waited, last, mute, answers>>
    BY <1>8, <1>d DEF Root!NotDue, Root!Due, Root!Period, Root!blasterTime, Root!blasterImu
  <2>2. /\ Root!InPass <= spent + EchoTimeout
        /\ Root!InPass <= spent \/ last["range"] = now
    BY <2>1 DEF Root!PassInv
  <2>3. D = D0 + Root!InPass
    BY <2>1, <2>2, <1>n, <1>d, SinceSum DEF Root!InPass
  <2>4. last["range"] = now => R = Root!InPass
    BY DEF Root!InPass
  <2>5. /\ ~answers => mute = 0
        /\ \/ mute <= D0 + Root!InPass
           \/ /\ Root!Unrun /\ Root!InPass <= spent
              /\ mute <= Slack + D0 + Root!InPass
    BY <2>1, <1>d, <1>n DEF Root!MuteInv, Root!MuteSinceRow
  <2>6. Root!RowWasNotDue \/ Root!NothingWasDue
    BY <2>1, <2>2, <2>3, <2>4, <2>5, <1>n, <1>d DEF Root!RowWasNotDue, Root!NothingWasDue
  <2>7. (Root!RowWasNotDue \/ Root!NothingWasDue)'
    BY <2>1, <2>6 DEF Root!RowWasNotDue, Root!NothingWasDue, Root!Unrun
  <2> QED
    BY <2>1, <2>5, <2>7 DEF Root!MuteInv
<1>9. CASE Root!Trigger
  <2>1. /\ loop = "range" /\ loop' = "echo" /\ R0 >= RangePeriod
        /\ last' = [last EXCEPT !["range"] = now] /\ waited' = 0
        /\ UNCHANGED <<us, now, spent, mute, answers>>
    BY <1>9, <1>d DEF Root!Trigger, Root!Due, Root!blasterImu
  <2>2. last'["pose"] = last["pose"] /\ D0' = D0 /\ Root!InPass' = Root!InPass
    BY <2>1, <1>n DEF Root!InPass
  <2>3. /\ mute < PosePeriod + Slack + spent
        /\ ~answers => mute = 0
        /\ mute <= D0 + Root!InPass \/ Root!Unrun
    BY <2>1, <1>n, <1>d DEF Root!MuteInv, Root!MuteSinceRow
  <2>4. Root!Unrun => D0 >= PosePeriod
    BY <2>1, <1>d DEF Root!Unrun
  <2>5. mute' <= D0' + Root!InPass' \/ D0' >= PosePeriod
    BY <2>1, <2>2, <2>3, <2>4
  <2> QED
    BY <2>1, <2>3, <2>5, <1>n DEF Root!MuteInv
<1>10. CASE Root!EchoDone
  BY <1>10, <1>n, <1>d
     DEF Root!EchoDone, Root!blasterTime, Root!blasterImu, Root!PassInv, Root!MuteInv, Root!MuteSinceRow, Root!Unrun, Root!RowJustRan, Root!NothingRunYet, Root!RowWasNotDue, Root!NothingWasDue, Root!InPass
<1>11. CASE Root!PoseTick
  <2>1. /\ loop = "pose" /\ last' = [last EXCEPT !["pose"] = now]
        /\ UNCHANGED <<us, now, spent>> /\ loop' = "top"
        /\ mute' = 0
    BY <1>11 DEF Root!PoseTick, Root!Burst, Root!MuteInv
  <2>2. D' = Root!InPass /\ Root!InPass <= spent + EchoTimeout + WakeDelay
    BY <2>1, <1>n DEF Root!PassInv, Root!InPass
  <2>3. Root!RowJustRan'
    BY <2>1, <2>2, <1>n DEF Root!RowJustRan
  <2> QED
    BY <2>1, <2>3 DEF Root!MuteInv
<1>12. CASE Root!WhoAmI
  <2>1. CASE answers
    BY <1>12, <2>1, <1>n DEF Root!WhoAmI, Root!blasterImu, Root!MuteInv
  <2>2. CASE ~answers
    <3>1. /\ loop = "pose" /\ last' = [last EXCEPT !["pose"] = now]
          /\ UNCHANGED <<us, now, spent>> /\ loop' = "top"
          /\ mute' = 0
      BY <1>12, <2>2 DEF Root!WhoAmI, Root!MuteInv
    <3>2. D' = Root!InPass /\ Root!InPass <= spent + EchoTimeout + WakeDelay
      BY <3>1, <1>n DEF Root!PassInv, Root!InPass
    <3>3. Root!RowJustRan'
      BY <3>1, <3>2, <1>n DEF Root!RowJustRan
    <3> QED
      BY <3>1, <3>3 DEF Root!MuteInv
  <2> QED
    BY <2>1, <2>2, <1>a
<1>13. CASE Root!PowerUp
  <2>1. CASE answers
    BY <1>13, <2>1, <1>n DEF Root!PowerUp, Root!blasterImu, Root!MuteInv
  <2>2. CASE ~answers
    <3>1. /\ loop = "power" /\ last' = last
          /\ UNCHANGED <<us, now, spent>> /\ loop' = "top"
          /\ mute' = 0
      BY <1>13, <2>2 DEF Root!PowerUp, Root!MuteInv
    <3>2. D' = Root!InPass /\ Root!InPass <= spent + EchoTimeout + WakeDelay
      BY <3>1, <1>n DEF Root!PassInv, Root!InPass
    <3>3. Root!RowJustRan'
      BY <3>1, <3>2, <1>n DEF Root!RowJustRan
    <3> QED
      BY <3>1, <3>3 DEF Root!MuteInv
  <2> QED
    BY <2>1, <2>2, <1>a
<1>14. CASE Root!WakeDone
  <2>1. /\ loop = "wake" /\ last' = last
        /\ UNCHANGED <<us, now, spent>> /\ loop' = "top"
        /\ mute' = 0
    BY <1>14 DEF Root!WakeDone, Root!Burst, Root!MuteInv
  <2>2. D' = Root!InPass /\ Root!InPass <= spent + EchoTimeout + WakeDelay
    BY <2>1, <1>n DEF Root!PassInv, Root!InPass
  <2>3. Root!RowJustRan'
    BY <2>1, <2>2, <1>n DEF Root!RowJustRan
  <2> QED
    BY <2>1, <2>3 DEF Root!MuteInv
<1>15. CASE Root!Elapse
  <2>1. us' = Root!NextMicro(us) /\ UNCHANGED <<loop, now, last, answers>>
    BY <1>15 DEF Root!Elapse, Root!blasterImu
  <2>2. mute' \in {mute, mute + 1} /\ (~answers => mute' = mute)
    BY <1>15, <1>a DEF Root!Elapse
  <2>3. CASE loop = "setup"
    BY <1>15, <2>1, <2>3 DEF Root!Elapse, Root!MuteInv, Root!Unrun
  <2>4. CASE loop = "top"
    <3>1. spent' = spent + 1 /\ waited' = waited
      BY <1>15, <2>4 DEF Root!Elapse
    <3>2. D + 1 < UsWrap => D' = D + 1
      BY <2>1, <1>n, SinceNext
    <3>3. R + 1 < UsWrap => R' = R + 1
      BY <2>1, <1>n, SinceNext
    <3>4. Root!RowJustRan => Root!RowJustRan'
      BY <2>2, <3>1, <3>2, <1>n, <1>d DEF Root!RowJustRan
    <3>5. Root!NothingRunYet => Root!NothingRunYet'
      BY <2>1, <2>2, <3>1, <1>n DEF Root!NothingRunYet, Root!Unrun
    <3>6. Root!RowWasNotDue => Root!RowWasNotDue'
      BY <2>2, <3>1, <3>2, <3>3, <1>n, <1>d DEF Root!RowWasNotDue
    <3>7. Root!NothingWasDue => Root!NothingWasDue'
      BY <2>1, <2>2, <3>1, <3>2, <1>n, <1>d DEF Root!NothingWasDue, Root!Unrun
    <3> QED
      BY <2>1, <2>2, <2>4, <3>4, <3>5, <3>6, <3>7 DEF Root!MuteInv
  <2>5. CASE loop \notin {"setup", "top"}
    <3>1. \/ /\ loop \in {"echo", "wake"}
             /\ waited' = waited + 1 /\ spent' = spent
          \/ spent < Slack /\ spent' = spent + 1 /\ waited' = waited
      BY <1>15, <2>5 DEF Root!Elapse
    <3>2. Root!InPass <= Slack + EchoTimeout + WakeDelay
      BY <2>5, <1>n DEF Root!PassInv, Root!BlasterTypeOK, Root!TableRow
    <3>3. Root!InPass' = Root!InPass + 1
      BY <2>1, <3>2, <1>n, SinceNext DEF Root!InPass
    <3>4. D0' = D0 /\ R0' = R0
      BY <2>1
    <3>5. ASSUME Root!MuteSinceRow, loop \in {"pump", "range", "pose"}
          PROVE  Root!MuteSinceRow'
      BY <2>1, <2>2, <3>1, <3>3, <3>4, <3>5, <1>n, <1>d DEF Root!MuteSinceRow, Root!Unrun
    <3>6. ASSUME mute <= D0 + Root!InPass
          PROVE  mute' <= D0 + Root!InPass'
      BY <2>2, <3>3, <3>6, <1>n, <1>d
    <3> HIDE DEF D, R, D0, R0
    <3>7. /\ loop \in {"pump", "range"} => Root!MuteSinceRow'
          /\ loop = "echo" => mute' <= D0 + Root!InPass' \/ D0 >= PosePeriod
          /\ loop = "pose" => Root!MuteSinceRow' \/ D0 >= PosePeriod
      BY <3>5, <3>6 DEF Root!MuteInv, D0
    <3> QED
      BY <2>1, <2>2, <2>5, <3>1, <3>4, <3>7, <1>n, <1>d DEF Root!MuteInv, D0, R0
  <2> QED
    BY <2>3, <2>4, <2>5
<1>16. CASE Root!Reset
  BY <1>16 DEF Root!Reset, Root!MuteInv, Root!Unrun, Root!TableRow
<1> QED
  BY <1>1, <1>2, <1>3, <1>4, <1>5, <1>6, <1>7, <1>8, <1>9, <1>10, <1>11, <1>12, <1>13, <1>14, <1>15, <1>16
     DEF Root!Next

LEMMA RootInvStep ==
  ASSUME Root!BlasterInv, [Root!Next]_(Root!blasterVars)
  PROVE  Root!BlasterInv'
<1>1. CASE Root!Next
  BY <1>1, RootTypeStep, RootPassStep, RootWaitStep, RootAwakeStep, RootMuteStep
     DEF Root!BlasterInv
<1>2. CASE UNCHANGED Root!blasterVars
  <2>1. UNCHANGED <<loop, us, now, spent, waited, last, hostRx, inited, imu,
                    answers, sent, mute>>
    BY <1>2 DEF Root!blasterVars, Root!blasterTime, Root!blasterImu
  <2> QED
    BY <2>1
       DEF Root!BlasterInv, Root!BlasterTypeOK, Root!WaitInv, Root!WaitBound,
           Root!PassInv, Root!InPass, Root!MuteInv, Root!MuteSinceRow,
           Root!Unrun, Root!RowJustRan, Root!NothingRunYet, Root!RowWasNotDue,
           Root!NothingWasDue, Root!AwakeInv, Root!PoseFromAwake
<1> QED
  BY <1>1, <1>2

(* Of the two boards the Blaster makes steps of its own or none. *)
LEMMA BoardsToRoot ==
  ASSUME [BoardsNext]_boardsVars
  PROVE  [Root!Next]_(Root!blasterVars)
  BY DEF BoardsNext, boardsVars, rootVars, Root!blasterVars, Root!blasterTime,
         Root!blasterImu

(* The strengthening of the Blaster's properties is an invariant. *)
THEOREM BlasterSound == Spec => []Root!BlasterInv
<1>1. BoardsInit => Root!BlasterInv
  BY RootInit DEF BoardsInit
<1>2. Root!BlasterInv /\ [BoardsNext]_boardsVars => Root!BlasterInv'
  BY RootInvStep, BoardsToRoot
<1> QED
  BY <1>1, <1>2, PTL DEF Spec

(* RelayedInTime: no frame of the host's waits for longer than a longest    *)
(* pass and the pump behind it, whatever the periods and timeouts are.      *)
THEOREM CommandsAreRelayedInTime == Spec => []RelayedInTime
<1>1. Root!BlasterInv => RelayedInTime
  <2> SUFFICES ASSUME Root!BlasterInv, NEW i \in DOMAIN hostRx
               PROVE  hostRx[i].age <= Root!RelayBound
    BY DEF RelayedInTime, Root!RelayedInTime
  <2> USE ScheduleAssumption
  <2>1. /\ spent \in Nat /\ spent <= Slack /\ waited \in Nat
        /\ Root!PassInv /\ Root!BlasterTypeOK
        /\ loop \in {"range", "pose", "setup", "top", "pump", "echo", "power", "wake"}
    BY RootNumbers DEF Root!BlasterInv, Root!BlasterTypeOK, Root!TableRow
  <2>2. Root!WaitBound \in Nat /\ Root!WaitBound <= Root!RelayBound
    BY <2>1 DEF Root!WaitBound, Root!RelayBound, Root!LongestPass, Root!PassInv
  <2>3. hostRx[i].age \in Nat
    <3>1. Root!RelayBound + 1 \in Nat
      BY DEF Root!RelayBound, Root!LongestPass
    <3>2. hostRx \in Seq([to : Root!Target, age : 0 .. Root!RelayBound + 1])
      BY <2>1 DEF Root!BlasterTypeOK
    <3>3. hostRx[i] \in [to : Root!Target, age : 0 .. Root!RelayBound + 1]
      BY <3>2, LenProperties
    <3> QED
      BY <3>1, <3>3
  <2>4. hostRx[i].age <= Root!WaitBound
    BY DEF Root!BlasterInv, Root!WaitInv
  <2>5. Root!RelayBound \in Nat
    BY DEF Root!RelayBound, Root!LongestPass
  <2> QED
    BY <2>2, <2>3, <2>4, <2>5
<1> QED
  BY <1>1, BlasterSound, PTL

(* PoseHeard: an IMU that answers is heard before MuteBound is over,        *)
(* however the clock wraps and whatever the range row does.                 *)
THEOREM AnsweringImuIsHeard == Spec => []PoseHeard
<1>1. Root!BlasterInv => PoseHeard
  <2> SUFFICES ASSUME Root!BlasterInv PROVE mute < Root!MuteBound
    BY DEF PoseHeard, Root!PoseHeard
  <2> USE ScheduleAssumption
  <2>1. /\ spent \in Nat /\ spent <= Slack /\ waited \in Nat /\ mute \in Nat
        /\ Root!PassInv /\ Root!MuteInv
        /\ loop \in {"range", "pose", "setup", "top", "pump", "echo", "power", "wake"}
        /\ answers \in BOOLEAN
        /\ us \in Root!Micros /\ last["pose"] \in Root!Micros
    BY RootNumbers DEF Root!BlasterInv, Root!BlasterTypeOK, Root!TableRow
  <2>2. Root!Since(us, last["pose"]) \in Nat
    <3>1. Root!Since(us, last["pose"]) \in Root!Micros
      BY <2>1, SinceType
    <3> QED
      BY <3>1 DEF Root!Micros
  <2>3. CASE loop = "top"
    BY <2>1, <2>2, <2>3
       DEF Root!MuteInv, Root!MuteBound, Root!LongestPass, Root!RowJustRan,
           Root!NothingRunYet, Root!RowWasNotDue, Root!NothingWasDue
  <2>4. CASE loop # "top"
    BY <2>1, <2>4
       DEF Root!MuteInv, Root!PassInv, Root!MuteBound, Root!LongestPass
  <2> QED
    BY <2>3, <2>4
<1> QED
  BY <1>1, BlasterSound, PTL

(* PoseFromAwake: no pose that goes up was read from a sleeping IMU,        *)
(* whichever transfers of its bring-up failed before.                       *)
THEOREM NoPoseOfASleepingImu == Spec => []PoseFromAwake
<1>1. Root!BlasterInv => PoseFromAwake
  BY DEF Root!BlasterInv, Root!AwakeInv, PoseFromAwake
<1> QED
  BY <1>1, BlasterSound, PTL

(***************************************************************************)
(* The wheels.  The rows of the table in their order.                      *)
(***************************************************************************)
LEMMA RowsInOrder ==
  /\ Row = {"vel_left", "status_left", "status_right", "vel_right"}
  /\ Rows[1] = "vel_left"
  /\ NextRow("vel_left") = "status_left"
  /\ NextRow("status_left") = "status_right"
  /\ NextRow("status_right") = "vel_right"
  /\ NextRow("vel_right") = "top"
<1>1. /\ DOMAIN Rows = 1 .. 4 /\ Len(Rows) = 4
      /\ Rows[1] = "vel_left" /\ Rows[2] = "status_left"
      /\ Rows[3] = "status_right" /\ Rows[4] = "vel_right"
  BY DEF Rows
<1>2. Row = {"vel_left", "status_left", "status_right", "vel_right"}
  BY <1>1 DEF Row
<1>3. (CHOOSE i \in DOMAIN Rows : Rows[i] = "vel_left") = 1
  BY <1>1
<1>4. (CHOOSE i \in DOMAIN Rows : Rows[i] = "status_left") = 2
  BY <1>1
<1>5. (CHOOSE i \in DOMAIN Rows : Rows[i] = "status_right") = 3
  BY <1>1
<1>6. (CHOOSE i \in DOMAIN Rows : Rows[i] = "vel_right") = 4
  BY <1>1
<1> QED
  BY <1>1, <1>2, <1>3, <1>4, <1>5, <1>6 DEF NextRow

LEMMA WheelsInit == Init => WheelsInv
<1> SUFFICES ASSUME Init PROVE WheelsInv
  OBVIOUS
<1> USE FloorAssumption, WheelsAssumption
<1>1. FloorInit \in FloorState
  BY DEF FloorInit, FloorState, Seqs, Millis
<1>2. WheelsTypeOK
  BY <1>1 DEF Init, WheelsTypeOK, Each, Setup, Speed, Seqs
<1>3. SpeedInv
  BY DEF Init, SpeedInv, Each
<1> QED
  BY <1>2, <1>3 DEF WheelsInv

(* A tick of the floor gives a floor, and what it drives is a value. *)
LEMMA TickType ==
  ASSUME NEW f \in FloorState, NEW t \in 0 .. ClockWrap - 1
  PROVE  FloorTick(f, t) \in FloorState /\ DriveOut(f) \in Value
<1> USE FloorAssumption, WheelsAssumption
<1>1. t \in Millis
  BY DEF Millis
<1>2. Fresh(Observe(f, t), t) \in BOOLEAN
  BY DEF Fresh, Observe, FloorState, Advanced
<1>3. Observe(f, t) \in FloorState
  BY <1>1 DEF Observe, FloorState, Advanced
<1> QED
  BY <1>2, <1>3 DEF FloorTick, DriveOut, FloorState

LEMMA WheelsTypeStep ==
  ASSUME WheelsTypeOK, NEW Any, Any \subseteq Command, Next(Any)
  PROVE  WheelsTypeOK'
<1> USE FloorAssumption, WheelsAssumption, RowsInOrder DEF WheelsTypeOK
<1>1. ASSUME NEW c \in Any \cup {Nobody}, Arrive(c) PROVE WheelsTypeOK'
  <2>1. rx' \in Seq(Command \cup {Nobody})
    BY <1>1, AppendProperties DEF Arrive
  <2>2. live' \in [Wheel -> BOOLEAN]
    BY <1>1 DEF Arrive, FloorState
  <2> QED
    BY <1>1, <2>1, <2>2 DEF Arrive, hooks, floors, time
<1>2. CASE Probe
  BY <1>2 DEF Probe, Setup, floors, time, history
<1>3. CASE BringUp("left", "m0", "m1") \/ BringUp("right", "m1", "subscribe")
  BY <1>3 DEF BringUp, Setup, Wheel, floors, time, history
<1>4. CASE FinishSetup
  BY <1>4 DEF FinishSetup, hooks, floors, history
<1>5. CASE StartLoop
  BY <1>5 DEF StartLoop, Each, Speed, history
<1>6. CASE Pump
  <2>1. rx' \in Seq(Command \cup {Nobody}) /\ Head(rx) \in Command \cup {Nobody}
    BY <1>6, HeadTailProperties DEF Pump
  <2>2. CASE Head(rx).wheel \in Wheel
    <3>1. Head(rx) \in Command
      BY <2>1, <2>2 DEF Nobody, Wheel
    <3> DEFINE c == Head(rx)
    <3>0. /\ c.wheel \in Wheel /\ c.seq \in Seqs /\ c.value \in Value
          /\ floor[c.wheel] \in FloorState
      BY <3>1 DEF Command
    <3> HIDE DEF c
    <3>2. OnCommand(floor[c.wheel], c.seq, c.value) \in FloorState
      BY <3>0 DEF OnCommand, FloorState
    <3>3. /\ floor' = [floor EXCEPT ![c.wheel] = OnCommand(@, c.seq, c.value)]
          /\ applied' = [applied EXCEPT ![c.wheel] = c.seq]
      BY <1>6, <2>2 DEF Pump, Deliver, c
    <3>4. floor' \in [Wheel -> FloorState] /\ applied' \in [Wheel -> Seqs]
      BY <3>0, <3>2, <3>3
    <3> QED
      BY <1>6, <2>1, <3>4 DEF Pump, hooks, time, history
  <2>3. CASE Head(rx).wheel \notin Wheel
    BY <1>6, <2>1, <2>3 DEF Pump, Deliver, hooks, time, history
  <2> QED
    BY <2>2, <2>3
<1>7. CASE ControlTick
  <2>1. floor' \in [Wheel -> FloorState]
    BY <1>7, TickType DEF ControlTick
  <2>2. out' \in [Wheel -> Value \cup {Off}]
    BY <1>7, <2>1, TickType DEF ControlTick
  <2>3. speed' \in [Wheel -> Speed]
    BY <1>7 DEF ControlTick, SpeedsAfter, Speed
  <2>4. silence' \in [Wheel -> 0 .. ClockWrap]
    BY <1>7 DEF ControlTick
  <2> QED
    BY <1>7, <2>1, <2>2, <2>3, <2>4 DEF ControlTick, time
<1>8. ASSUME NEW w \in Wheel, StatusTick(w) \/ SpeedTick(w) PROVE WheelsTypeOK'
  <2>1. pc \in Row /\ pc' = NextRow(pc)
    BY <1>8 DEF StatusTick, SpeedTick, StatusRow, SpeedRow
  <2>2. pc' \in Row \cup {"top"}
    BY <2>1
  <2>3. [applied |-> applied[w], floored |-> ~floor[w].armed] \in Report
    BY DEF Report, FloorState
  <2>4. report' \in [Wheel -> {<<>>} \cup {<<r>> : r \in Report}]
    <3> DEFINE r == [applied |-> applied[w], floored |-> ~floor[w].armed]
    <3>1. report' = [report EXCEPT ![w] = <<r>>] \/ report' = report
      BY <1>8 DEF StatusTick, SpeedTick, floors
    <3>2. <<r>> \in {<<s>> : s \in Report}
      BY <2>3
    <3> HIDE DEF r
    <3> QED
      BY <3>1, <3>2
  <2> QED
    BY <1>8, <2>2, <2>4 DEF StatusTick, SpeedTick, hooks, floors, time, history
<1>9. CASE NotDue
  BY <1>9 DEF NotDue, hooks, floors, time, history
<1>10. CASE Elapse
  <2>1. silence' \in [Wheel -> 0 .. ClockWrap]
    BY <1>10 DEF Elapse
  <2> QED
    BY <1>10, <2>1 DEF Elapse, NextMilli, hooks, floors
<1>11. CASE Reset
  <2>1. Init'
    BY <1>11 DEF Reset, Init
  <2>2. FloorInit \in FloorState
    BY DEF FloorInit, FloorState, Seqs, Millis
  <2> QED
    BY <2>1, <2>2 DEF Init, WheelsTypeOK, Each, Setup, Speed, Seqs
<1> QED
  BY <1>1, <1>2, <1>3, <1>4, <1>5, <1>6, <1>7, <1>8, <1>9, <1>10, <1>11 DEF Next

LEMMA SpeedStep ==
  ASSUME WheelsInv, NEW Any, Next(Any) PROVE SpeedInv'
<1> USE RowsInOrder DEF SpeedInv
<1>t. /\ pc \in Setup \cup {"top", "pump"} \cup Row
      /\ answered \subseteq Wheel /\ ready \subseteq Wheel
      /\ speed \in [Wheel -> Speed] /\ SpeedInv
  BY DEF WheelsInv, WheelsTypeOK
<1>1. ASSUME NEW c \in Any \cup {Nobody}, Arrive(c) PROVE SpeedInv'
  BY <1>1, <1>t DEF Arrive, hooks
<1>2. CASE Probe
  BY <1>2, <1>t DEF Probe
<1>3. CASE BringUp("left", "m0", "m1") \/ BringUp("right", "m1", "subscribe")
  BY <1>3, <1>t DEF BringUp
<1>4. CASE FinishSetup
  BY <1>4, <1>t DEF FinishSetup, hooks
<1>5. CASE StartLoop
  BY <1>5, <1>t DEF StartLoop
<1>6. CASE Pump
  BY <1>6, <1>t DEF Pump, hooks
<1>7. CASE ControlTick
  BY <1>7, <1>t DEF ControlTick, SpeedsAfter
<1>8. ASSUME NEW w \in Wheel, StatusTick(w) \/ SpeedTick(w) PROVE SpeedInv'
  <2>1. pc \in Row /\ UNCHANGED <<ready, speed>>
    BY <1>8 DEF StatusTick, SpeedTick, StatusRow, SpeedRow, hooks
  <2> QED
    BY <2>1, <1>t
<1>9. CASE NotDue
  BY <1>9, <1>t DEF NotDue, hooks
<1>10. CASE Elapse
  BY <1>10, <1>t DEF Elapse, hooks
<1>11. CASE Reset
  BY <1>11 DEF Reset, Each
<1> QED
  BY <1>1, <1>2, <1>3, <1>4, <1>5, <1>6, <1>7, <1>8, <1>9, <1>10, <1>11 DEF Next

LEMMA WheelsInvStep ==
  ASSUME WheelsInv, [BoardsNext]_boardsVars PROVE WheelsInv'
<1>1. CASE Next(Sent)
  <2>1. Sent \subseteq Command
    BY DEF Sent
  <2> QED
    BY <1>1, <2>1, WheelsTypeStep, SpeedStep DEF WheelsInv
<1>2. CASE UNCHANGED wheelsVars
  BY <1>2 DEF WheelsInv, WheelsTypeOK, SpeedInv, wheelsVars, hooks, floors,
              time, history
<1> QED
  BY <1>1, <1>2 DEF BoardsNext, boardsVars

(* The types of the wheels board, and SpeedInv, for every build of it. *)
THEOREM WheelsSound == Spec => []WheelsInv
<1>1. BoardsInit => WheelsInv
  BY WheelsInit DEF BoardsInit
<1>2. WheelsInv /\ [BoardsNext]_boardsVars => WheelsInv'
  BY WheelsInvStep
<1> QED
  BY <1>1, <1>2, PTL DEF Spec

(* SpeedsAreCurrent: a speed that goes up was estimated in the pass that    *)
(* sends it, and a motor that never aligned sends the zero it was born with. *)
THEOREM SpeedsAreOfThisPass == Spec => []SpeedsAreCurrent
<1>1. WheelsInv => SpeedsAreCurrent
  BY RowsInOrder DEF WheelsInv, SpeedInv, SpeedsAreCurrent, SpeedRow
<1> QED
  BY <1>1, WheelsSound, PTL

(***************************************************************************)
(* The refinement: through either wheel the board is an actuator hub.      *)
(***************************************************************************)
Hub(w) == INSTANCE ActHub WITH
  pc <- PcOf(w), rx <- BufferOf(w),
  floor <- floor[w], applied <- applied[w],
  report <- report[w], out <- out[w],
  silence <- silence[w], live <- live[w]

(* A frame as one wheel sees it. *)
SeenBy(w, c) == IF c.wheel = w THEN [seq |-> c.seq, value |-> c.value]
                ELSE [seq |-> -1, value |-> Safe]

LEMMA SeenType ==
  ASSUME NEW w \in Wheel, NEW c \in Command \cup {Nobody}
  PROVE  /\ SeenBy(w, c) \in Hub(w)!Command \cup {Hub(w)!Nobody}
         /\ c.wheel = w => /\ SeenBy(w, c) # Hub(w)!Nobody
                           /\ SeenBy(w, c).seq = c.seq
                           /\ SeenBy(w, c).value = c.value
         /\ c.wheel # w => SeenBy(w, c) = Hub(w)!Nobody
  BY DEF SeenBy, Hub!Command, Hub!Nobody, Hub!Seqs, Command, Nobody, Seqs, Wheel

LEMMA BufferType ==
  ASSUME NEW w, rx \in Seq(Command \cup {Nobody})
  PROVE  /\ BufferOf(w) = [i \in DOMAIN rx |-> SeenBy(w, rx[i])]
         /\ BufferOf(w) \in Seq({SeenBy(w, c) : c \in Command \cup {Nobody}})
         /\ Len(BufferOf(w)) = Len(rx) /\ Len(rx) \in Nat
         /\ DOMAIN BufferOf(w) = 1 .. Len(rx) /\ DOMAIN rx = 1 .. Len(rx)
<1>1. BufferOf(w) = [i \in DOMAIN rx |-> SeenBy(w, rx[i])]
  BY DEF BufferOf, SeenBy
<1>2. \A i \in DOMAIN rx : rx[i] \in Command \cup {Nobody}
  BY LenProperties
<1>3. BufferOf(w) \in [DOMAIN rx -> {SeenBy(w, c) : c \in Command \cup {Nobody}}]
  BY <1>1, <1>2
<1> QED
  BY <1>1, <1>3, SameLength, LenProperties

LEMMA BufferAppend ==
  ASSUME NEW w, NEW c \in Command \cup {Nobody},
         rx \in Seq(Command \cup {Nobody}), rx' = Append(rx, c)
  PROVE  BufferOf(w)' = Append(BufferOf(w), SeenBy(w, c))
<1> DEFINE S == {SeenBy(w, d) : d \in Command \cup {Nobody}}
           b == BufferOf(w)
<1>1. /\ rx' \in Seq(Command \cup {Nobody}) /\ Len(rx') = Len(rx) + 1
      /\ \A i \in 1 .. Len(rx) : rx'[i] = rx[i]
      /\ rx'[Len(rx) + 1] = c
  BY AppendProperties
<1>2. /\ b = [i \in DOMAIN rx |-> SeenBy(w, rx[i])] /\ b \in Seq(S)
      /\ Len(b) = Len(rx) /\ DOMAIN rx = 1 .. Len(rx) /\ Len(rx) \in Nat
  BY BufferType
<1>3. /\ b' = [i \in DOMAIN rx' |-> SeenBy(w, rx'[i])]
      /\ DOMAIN rx' = 1 .. Len(rx')
  BY <1>1, LenProperties DEF BufferOf, SeenBy
<1>4. /\ Append(b, SeenBy(w, c)) \in Seq(S)
      /\ Len(Append(b, SeenBy(w, c))) = Len(rx) + 1
      /\ \A i \in 1 .. Len(rx) : Append(b, SeenBy(w, c))[i] = b[i]
      /\ Append(b, SeenBy(w, c))[Len(rx) + 1] = SeenBy(w, c)
  <2>1. SeenBy(w, c) \in S
    OBVIOUS
  <2> QED
    BY <1>2, <2>1, AppendProperties
<1>5. b' \in [DOMAIN rx' -> S]
  BY <1>1, <1>3, LenProperties
<1>6. b' \in Seq(S) /\ Len(b') = Len(rx) + 1
  BY <1>1, <1>5, SameLength
<1>7. \A i \in 1 .. Len(rx) + 1 : b'[i] = Append(b, SeenBy(w, c))[i]
  BY <1>1, <1>2, <1>3, <1>4
<1> HIDE DEF b, S
<1>8. b' = Append(b, SeenBy(w, c))
  BY <1>4, <1>6, <1>7, SeqEqual
<1> QED
  BY <1>8 DEF b

LEMMA BufferTail ==
  ASSUME NEW w, rx \in Seq(Command \cup {Nobody}), rx # <<>>, rx' = Tail(rx)
  PROVE  /\ BufferOf(w) # <<>>
         /\ Head(BufferOf(w)) = SeenBy(w, Head(rx))
         /\ BufferOf(w)' = Tail(BufferOf(w))
<1> DEFINE S == {SeenBy(w, d) : d \in Command \cup {Nobody}}
           b == BufferOf(w)
<1>1. /\ rx' \in Seq(Command \cup {Nobody}) /\ Len(rx') = Len(rx) - 1
      /\ \A i \in 1 .. Len(rx') : rx'[i] = rx[i + 1]
      /\ Head(rx) = rx[1] /\ Len(rx) >= 1
  BY HeadTailProperties, LenProperties
<1>2. /\ b = [i \in DOMAIN rx |-> SeenBy(w, rx[i])] /\ b \in Seq(S)
      /\ Len(b) = Len(rx) /\ DOMAIN rx = 1 .. Len(rx) /\ Len(rx) \in Nat
  BY BufferType
<1>3. /\ b' = [i \in DOMAIN rx' |-> SeenBy(w, rx'[i])]
      /\ DOMAIN rx' = 1 .. Len(rx')
  BY <1>1, LenProperties DEF BufferOf, SeenBy
<1>5. b' \in [DOMAIN rx' -> S]
  BY <1>1, <1>3, LenProperties
<1>6. b' \in Seq(S) /\ Len(b') = Len(rx) - 1
  <2>1. rx' \in Seq(Command \cup {Nobody}) /\ b' \in [DOMAIN rx' -> S]
    BY <1>1, <1>5
  <2> HIDE DEF b, S
  <2>2. b' \in Seq(S) /\ Len(b') = Len(rx')
    BY <2>1, SameLength
  <2> QED
    BY <1>1, <2>2
<1>7. b[1] = SeenBy(w, Head(rx))
  BY <1>1, <1>2
<1>8. \A i \in 1 .. Len(rx) - 1 : b'[i] = b[i + 1]
  BY <1>1, <1>2, <1>3
<1> HIDE DEF b, S
<1>9. b # <<>> /\ Head(b) = b[1]
  BY <1>1, <1>2
<1>10. /\ Tail(b) \in Seq(S) /\ Len(Tail(b)) = Len(rx) - 1
       /\ \A i \in 1 .. Len(rx) - 1 : Tail(b)[i] = b[i + 1]
  BY <1>2, <1>9, HeadTailProperties
<1>11. b' = Tail(b)
  BY <1>6, <1>8, <1>10, SeqEqual
<1> QED
  BY <1>7, <1>9, <1>11 DEF b

(* Where the loop is, as one wheel sees it. *)
LEMMA PcTable ==
  ASSUME NEW w \in Wheel
  PROVE  /\ pc \in Setup => PcOf(w) = "setup"
         /\ pc \in {"top", "pump"} => PcOf(w) = pc
         /\ pc \in {"vel_left", StatusRow(w)} => PcOf(w) = "status"
         /\ pc = "status_left" /\ w = "right" => PcOf(w) = "status"
         /\ pc = "status_right" /\ w = "left" => PcOf(w) = "top"
         /\ pc = "vel_right" => PcOf(w) = "top"
  BY DEF PcOf, Setup, StatusRow, Wheel

LEMMA PcTableNext ==
  ASSUME NEW w \in Wheel
  PROVE  /\ pc' \in Setup => PcOf(w)' = "setup"
         /\ pc' \in {"top", "pump"} => PcOf(w)' = pc'
         /\ pc' \in {"vel_left", StatusRow(w)} => PcOf(w)' = "status"
         /\ pc' = "status_left" /\ w = "right" => PcOf(w)' = "status"
         /\ pc' = "status_right" /\ w = "left" => PcOf(w)' = "top"
         /\ pc' = "vel_right" => PcOf(w)' = "top"
  BY DEF PcOf, Setup, StatusRow, Wheel

LEMMA Kept ==
  ASSUME NEW w
  PROVE  /\ rx' = rx => BufferOf(w)' = BufferOf(w)
         /\ pc' = pc => PcOf(w)' = PcOf(w)
<1>1. rx' = rx => BufferOf(w)' = BufferOf(w)
  BY DEF BufferOf
<1>2. pc' = pc => PcOf(w)' = PcOf(w)
  BY DEF PcOf
<1> QED
  BY <1>1, <1>2

LEMMA HubInit ==
  ASSUME NEW w \in Wheel, Init PROVE Hub(w)!Init
<1>1. PcOf(w) = "setup"
  BY PcTable DEF Init, Setup
<1>2. BufferOf(w) = <<>>
  BY DEF Init, BufferOf
<1> QED
  BY <1>1, <1>2 DEF Init, Each, Hub!Init, Hub!FloorInit, FloorInit

LEMMA HubArrive ==
  ASSUME NEW w \in Wheel, WheelsTypeOK, NEW c \in Command \cup {Nobody}, Arrive(c)
  PROVE  Hub(w)!Next
<1>1. /\ Len(rx) < RxCap /\ rx' = Append(rx, c) /\ pc' = pc
      /\ live'[w] = (live[w] \/ (c.wheel = w /\ floor[w].haveBaseline
                                             /\ c.seq # floor[w].lastSeq))
      /\ UNCHANGED <<floors, time, silence>>
  BY DEF Arrive
<1>2. /\ Len(BufferOf(w)) < RxCap
      /\ BufferOf(w)' = Append(BufferOf(w), SeenBy(w, c))
  BY <1>1, BufferType, BufferAppend DEF WheelsTypeOK
<1>3. SeenBy(w, c) # Hub(w)!Nobody <=> c.wheel = w
  BY SeenType
<1>4. live'[w] = (live[w] \/ (/\ SeenBy(w, c) # Hub(w)!Nobody
                              /\ floor[w].haveBaseline
                              /\ SeenBy(w, c).seq # floor[w].lastSeq))
  BY <1>1, <1>3, SeenType
<1>5. Hub(w)!Arrive(SeenBy(w, c))
  BY <1>1, <1>2, <1>4, Kept DEF Hub!Arrive, Hub!device, Hub!time, floors, time
<1> QED
  BY <1>5, SeenType DEF Hub!Next

LEMMA HubPump ==
  ASSUME NEW w \in Wheel, WheelsTypeOK, Pump PROVE Hub(w)!Next
<1> DEFINE c == Head(rx)
<1>1. /\ pc = "pump" /\ pc' = pc /\ rx # <<>> /\ rx' = Tail(rx) /\ Deliver(c)
      /\ UNCHANGED <<report, out, time, history>>
  BY DEF Pump
<1>2. rx \in Seq(Command \cup {Nobody}) /\ c \in Command \cup {Nobody}
  BY <1>1, HeadTailProperties DEF WheelsTypeOK
<1>3. /\ PcOf(w) = "pump" /\ PcOf(w)' = PcOf(w)
      /\ BufferOf(w) # <<>> /\ Head(BufferOf(w)) = SeenBy(w, c)
      /\ BufferOf(w)' = Tail(BufferOf(w))
  BY <1>1, <1>2, BufferTail, PcTable, Kept
<1> HIDE DEF c
<1>4. CASE c.wheel = w
  <2>1. /\ SeenBy(w, c) # Hub(w)!Nobody
        /\ SeenBy(w, c).seq = c.seq /\ SeenBy(w, c).value = c.value
    BY <1>2, <1>4, SeenType
  <2>2. /\ floor'[w] = OnCommand(floor[w], c.seq, c.value)
        /\ applied'[w] = c.seq
    BY <1>1, <1>4 DEF Deliver, WheelsTypeOK
  <2>3. Hub(w)!Pump
    BY <1>1, <1>3, <2>1, <2>2
       DEF Hub!Pump, Hub!OnCommand, OnCommand, Hub!time, time, history
  <2> QED
    BY <2>3 DEF Hub!Next
<1>5. CASE c.wheel # w
  <2>1. SeenBy(w, c) = Hub(w)!Nobody
    BY <1>2, <1>5, SeenType
  <2>2. floor'[w] = floor[w] /\ applied'[w] = applied[w]
    BY <1>1, <1>5 DEF Deliver, WheelsTypeOK
  <2>3. Hub(w)!Pump
    BY <1>1, <1>3, <2>1, <2>2 DEF Hub!Pump, Hub!time, time, history
  <2> QED
    BY <2>3 DEF Hub!Next
<1> QED
  BY <1>4, <1>5

LEMMA HubControlTick ==
  ASSUME NEW w \in Wheel, WheelsTypeOK, ControlTick PROVE Hub(w)!Next
<1>1. /\ pc = "pump" /\ rx = <<>> /\ pc' = "vel_left"
      /\ floor'[w] = FloorTick(floor[w], nowReg)
      /\ out'[w] = DriveOut(floor'[w])
      /\ silence'[w] = (IF Advanced(floor[w]) THEN stall ELSE silence[w])
      /\ UNCHANGED <<applied, report, rx, time, live>>
  BY RowsInOrder DEF ControlTick
<1>2. PcOf(w) = "pump" /\ PcOf(w)' = "status"
  BY <1>1, PcTable, PcTableNext
<1>3. BufferOf(w) = <<>> /\ BufferOf(w)' = BufferOf(w)
  BY <1>1, Kept DEF BufferOf
<1>4. Hub(w)!ControlTick
  BY <1>1, <1>2, <1>3
     DEF Hub!ControlTick, Hub!FloorTick, FloorTick, Hub!Observe, Observe,
         Hub!Advanced, Advanced, Hub!Fresh, Fresh, Hub!ElapsedMillis,
         ElapsedMillis, Hub!DriveOut, DriveOut, Hub!time, time
<1> QED
  BY <1>4 DEF Hub!Next

(* The rows: of the status rows only the wheel's own is a step of its hub. *)
LEMMA HubRow ==
  ASSUME NEW w \in Wheel, WheelsTypeOK,
         NotDue \/ \E v \in Wheel : StatusTick(v) \/ SpeedTick(v)
  PROVE  Hub(w)!Next \/ UNCHANGED Hub(w)!vars
<1>1. /\ pc \in Row /\ pc' = NextRow(pc)
      /\ UNCHANGED <<floor, applied, out, rx, time, history>>
  BY RowsInOrder, Zenon DEF NotDue, StatusTick, SpeedTick, StatusRow, SpeedRow, floors
<1>2. \/ report' = report
      \/ \E v \in Wheel :
           /\ pc = StatusRow(v)
           /\ report' = [report EXCEPT ![v] =
                <<[applied |-> applied[v], floored |-> ~floor[v].armed]>>]
  BY DEF NotDue, StatusTick, SpeedTick, floors
<1>3. CASE pc = StatusRow(w)
  <2>1. PcOf(w) = "status" /\ PcOf(w)' = "top"
    BY <1>1, <1>3, RowsInOrder, PcTable, PcTableNext DEF StatusRow, Wheel
  <2>2. \/ report'[w] = report[w]
        \/ report'[w] = <<[applied |-> applied[w], floored |-> ~floor[w].armed]>>
    BY <1>2, <1>3 DEF StatusRow, Wheel, WheelsTypeOK
  <2>3. Hub(w)!StatusTick \/ Hub(w)!StatusNotDue
    BY <1>1, <2>1, <2>2, Kept
       DEF Hub!StatusTick, Hub!StatusNotDue, Hub!device, Hub!time, time,
           Hub!history, history
  <2> QED
    BY <2>3 DEF Hub!Next
<1>4. CASE pc # StatusRow(w)
  <2>1. PcOf(w)' = PcOf(w)
    BY <1>1, <1>4, RowsInOrder, PcTable, PcTableNext DEF StatusRow, Wheel
  <2>2. report'[w] = report[w]
    BY <1>2, <1>4 DEF WheelsTypeOK
  <2> QED
    BY <1>1, <2>1, <2>2, Kept
       DEF Hub!vars, Hub!device, Hub!time, time, Hub!history, history
<1> QED
  BY <1>3, <1>4

LEMMA HubStep ==
  ASSUME NEW w \in Wheel, WheelsTypeOK, NEW Any, Any \subseteq Command, Next(Any)
  PROVE  Hub(w)!Next \/ UNCHANGED Hub(w)!vars
<1>1. ASSUME NEW c \in Any \cup {Nobody}, Arrive(c) PROVE Hub(w)!Next
  BY <1>1, HubArrive
<1>2. CASE Probe \/ BringUp("left", "m0", "m1") \/ BringUp("right", "m1", "subscribe")
  <2>1. /\ pc \in Setup /\ pc' \in Setup
        /\ UNCHANGED <<floors, rx, time, history>>
    BY <1>2 DEF Probe, BringUp, Setup
  <2>2. PcOf(w)' = PcOf(w) /\ BufferOf(w)' = BufferOf(w)
    BY <2>1, PcTable, PcTableNext, Kept
  <2> QED
    BY <2>1, <2>2 DEF Hub!vars, Hub!device, floors, Hub!time, time, Hub!history, history
<1>3. CASE FinishSetup
  <2>1. /\ pc = "subscribe" /\ pc' = "top" /\ stall' = 0
        /\ UNCHANGED <<floors, rx, clock, nowReg, history>>
    BY <1>3 DEF FinishSetup
  <2>2. PcOf(w) = "setup" /\ PcOf(w)' = "top" /\ BufferOf(w)' = BufferOf(w)
    BY <2>1, PcTable, PcTableNext, Kept DEF Setup
  <2>3. Hub(w)!FinishSetup
    BY <2>1, <2>2 DEF Hub!FinishSetup, Hub!device, floors, Hub!history, history
  <2> QED
    BY <2>3 DEF Hub!Next
<1>4. CASE StartLoop
  <2>1. /\ pc = "top" /\ pc' = "pump" /\ stall' = 0 /\ nowReg' = clock
        /\ report'[w] = <<>>
        /\ UNCHANGED <<floor, applied, out, rx, clock, history>>
    BY <1>4 DEF StartLoop, Each
  <2>2. PcOf(w) = "top" /\ PcOf(w)' = "pump" /\ BufferOf(w)' = BufferOf(w)
    BY <2>1, PcTable, PcTableNext, Kept
  <2>3. Hub(w)!StartLoop
    BY <2>1, <2>2 DEF Hub!StartLoop, Hub!history, history
  <2> QED
    BY <2>3 DEF Hub!Next
<1>5. CASE Pump
  BY <1>5, HubPump
<1>6. CASE ControlTick
  BY <1>6, HubControlTick
<1>7. CASE NotDue \/ \E v \in Wheel : StatusTick(v) \/ SpeedTick(v)
  BY <1>7, HubRow
<1>8. CASE Elapse
  <2>1. /\ stall < Wdt \/ pc \in Setup
        /\ clock' = NextMilli(clock)
        /\ stall' = (IF pc \in Setup THEN stall ELSE stall + 1)
        /\ silence'[w] = (IF silence[w] < ClockWrap THEN silence[w] + 1
                          ELSE silence[w])
        /\ UNCHANGED <<pc, floors, rx, nowReg, live>>
    BY <1>8 DEF Elapse
  <2>2. /\ PcOf(w)' = PcOf(w) /\ BufferOf(w)' = BufferOf(w)
        /\ PcOf(w) = "setup" <=> pc \in Setup
    BY <2>1, RowsInOrder, PcTable, Kept DEF WheelsTypeOK, StatusRow, Setup, Wheel
  <2>3. Hub(w)!Elapse
    BY <2>1, <2>2 DEF Hub!Elapse, NextMilli, Hub!device, floors
  <2> QED
    BY <2>3 DEF Hub!Next
<1>9. CASE Reset
  <2>1. /\ pc' = "probe" /\ rx' = <<>> /\ floor'[w] = FloorInit
        /\ applied'[w] = 0 /\ out'[w] = Off /\ report'[w] = <<>>
        /\ clock' = 0 /\ nowReg' = 0 /\ stall' = 0
        /\ silence'[w] = ClockWrap /\ live'[w] = FALSE
    BY <1>9 DEF Reset, Each
  <2>2. PcOf(w)' = "setup" /\ BufferOf(w)' = <<>>
    BY <2>1, PcTableNext DEF Setup, BufferOf
  <2>3. Hub(w)!Reset
    BY <2>1, <2>2 DEF Hub!Reset, Hub!FloorInit, FloorInit
  <2> QED
    BY <2>3 DEF Hub!Next
<1> QED
  BY <1>1, <1>2, <1>3, <1>4, <1>5, <1>6, <1>7, <1>8, <1>9 DEF Next

(* The mappings of the two wheels are those of Wheels. *)
LEMMA HubIsLeft ==
  /\ Hub("left")!Init => Left!Init
  /\ Hub("left")!Next => Left!Next
  /\ UNCHANGED Hub("left")!vars => UNCHANGED Left!vars
  BY Zenon
     DEF Hub!Command, Left!Command, Hub!Nobody, Left!Nobody, Hub!Seqs,
         Left!Seqs, Hub!Init, Left!Init, Hub!FloorInit, Left!FloorInit,
         Hub!Next, Left!Next, Hub!Arrive, Left!Arrive, Hub!FinishSetup,
         Left!FinishSetup, Hub!StartLoop, Left!StartLoop, Hub!Pump,
         Left!Pump, Hub!OnCommand, Left!OnCommand, Hub!ControlTick,
         Left!ControlTick, Hub!FloorTick, Left!FloorTick, Hub!Observe,
         Left!Observe, Hub!Advanced, Left!Advanced, Hub!Fresh, Left!Fresh,
         Hub!ElapsedMillis, Left!ElapsedMillis, Hub!DriveOut, Left!DriveOut,
         Hub!StatusTick, Left!StatusTick, Hub!StatusNotDue,
         Left!StatusNotDue, Hub!Elapse, Left!Elapse, Hub!Reset, Left!Reset,
         Hub!vars, Left!vars, Hub!device, Left!device, Hub!time, Left!time,
         Hub!history, Left!history

LEMMA HubIsRight ==
  /\ Hub("right")!Init => Right!Init
  /\ Hub("right")!Next => Right!Next
  /\ UNCHANGED Hub("right")!vars => UNCHANGED Right!vars
  BY Zenon
     DEF Hub!Command, Right!Command, Hub!Nobody, Right!Nobody, Hub!Seqs,
         Right!Seqs, Hub!Init, Right!Init, Hub!FloorInit, Right!FloorInit,
         Hub!Next, Right!Next, Hub!Arrive, Right!Arrive, Hub!FinishSetup,
         Right!FinishSetup, Hub!StartLoop, Right!StartLoop, Hub!Pump,
         Right!Pump, Hub!OnCommand, Right!OnCommand, Hub!ControlTick,
         Right!ControlTick, Hub!FloorTick, Right!FloorTick, Hub!Observe,
         Right!Observe, Hub!Advanced, Right!Advanced, Hub!Fresh, Right!Fresh,
         Hub!ElapsedMillis, Right!ElapsedMillis, Hub!DriveOut,
         Right!DriveOut, Hub!StatusTick, Right!StatusTick, Hub!StatusNotDue,
         Right!StatusNotDue, Hub!Elapse, Right!Elapse, Hub!Reset,
         Right!Reset, Hub!vars, Right!vars, Hub!device, Right!device,
         Hub!time, Right!time, Hub!history, Right!history

(* EachWheelIsAHub: behind one loop and one receive buffer each wheel is an *)
(* actuator hub of its own, whatever the other one is sent.                 *)
THEOREM BothWheelsAreHubs == Spec => EachWheelIsAHub
<1>1. BoardsInit => Left!Init /\ Right!Init
  BY HubInit, HubIsLeft, HubIsRight DEF BoardsInit, Wheel
<1>2. ASSUME WheelsInv, [BoardsNext]_boardsVars
      PROVE  [Left!Next]_(Left!vars) /\ [Right!Next]_(Right!vars)
  <2>1. CASE Next(Sent)
    <3>1. \A w \in Wheel : Hub(w)!Next \/ UNCHANGED Hub(w)!vars
      BY <1>2, <2>1, HubStep DEF WheelsInv, Sent
    <3> QED
      BY <3>1, HubIsLeft, HubIsRight DEF Wheel
  <2>2. CASE UNCHANGED wheelsVars
    <3>1. UNCHANGED <<pc, floors, rx, time, history>>
      BY <2>2 DEF wheelsVars
    <3>2. \A w \in Wheel : UNCHANGED Hub(w)!vars
      BY <3>1, Kept DEF Hub!vars, Hub!device, floors, Hub!time, time,
                        Hub!history, history
    <3> QED
      BY <3>2, HubIsLeft, HubIsRight DEF Wheel
  <2> QED
    BY <1>2, <2>1, <2>2 DEF BoardsNext, boardsVars
<1>3. WheelsInv /\ [BoardsNext]_boardsVars
        => [Left!Next]_(Left!vars) /\ [Right!Next]_(Right!vars)
  BY <1>2
<1> QED
  BY <1>1, <1>3, WheelsSound, PTL
     DEF Spec, EachWheelIsAHub, LeftIsAHub, RightIsAHub, Left!Spec, Right!Spec

(***************************************************************************)
(* What is proved of an actuator hub holds of each wheel.                  *)
(***************************************************************************)
LeftProved == INSTANCE ActHubProofs WITH
  pc <- PcOf("left"), rx <- BufferOf("left"),
  floor <- floor["left"], applied <- applied["left"],
  report <- report["left"], out <- out["left"],
  silence <- silence["left"], live <- live["left"]

RightProved == INSTANCE ActHubProofs WITH
  pc <- PcOf("right"), rx <- BufferOf("right"),
  floor <- floor["right"], applied <- applied["right"],
  report <- report["right"], out <- out["right"],
  silence <- silence["right"], live <- live["right"]

LEMMA LeftIsProved ==
  /\ Left!Init => LeftProved!Init
  /\ [Left!Next]_(Left!vars) => [LeftProved!Next]_(LeftProved!vars)
  /\ LeftProved!DeadMan => Left!DeadMan
  /\ LeftProved!StaleBufferInert => Left!StaleBufferInert
  /\ LeftProved!InWindowDrives => Left!InWindowDrives
  BY Zenon
     DEF Left!Command, LeftProved!Command, Left!Nobody, LeftProved!Nobody,
         Left!Seqs, LeftProved!Seqs, Left!Init, LeftProved!Init,
         Left!FloorInit, LeftProved!FloorInit, Left!Next, LeftProved!Next,
         Left!Arrive, LeftProved!Arrive, Left!FinishSetup,
         LeftProved!FinishSetup, Left!StartLoop, LeftProved!StartLoop,
         Left!Pump, LeftProved!Pump, Left!OnCommand, LeftProved!OnCommand,
         Left!ControlTick, LeftProved!ControlTick, Left!FloorTick,
         LeftProved!FloorTick, Left!Observe, LeftProved!Observe,
         Left!Advanced, LeftProved!Advanced, Left!Fresh, LeftProved!Fresh,
         Left!ElapsedMillis, LeftProved!ElapsedMillis, Left!DriveOut,
         LeftProved!DriveOut, Left!StatusTick, LeftProved!StatusTick,
         Left!StatusNotDue, LeftProved!StatusNotDue, Left!Elapse,
         LeftProved!Elapse, Left!Reset, LeftProved!Reset, Left!vars,
         LeftProved!vars, Left!device, LeftProved!device, Left!time,
         LeftProved!time, Left!history, LeftProved!history, Left!DeadMan,
         LeftProved!DeadMan, Left!Energised, LeftProved!Energised,
         Left!StaleBufferInert, LeftProved!StaleBufferInert,
         Left!InWindowDrives, LeftProved!InWindowDrives

LEMMA RightIsProved ==
  /\ Right!Init => RightProved!Init
  /\ [Right!Next]_(Right!vars) => [RightProved!Next]_(RightProved!vars)
  /\ RightProved!DeadMan => Right!DeadMan
  /\ RightProved!StaleBufferInert => Right!StaleBufferInert
  /\ RightProved!InWindowDrives => Right!InWindowDrives
  BY Zenon
     DEF Right!Command, RightProved!Command, Right!Nobody,
         RightProved!Nobody, Right!Seqs, RightProved!Seqs, Right!Init,
         RightProved!Init, Right!FloorInit, RightProved!FloorInit,
         Right!Next, RightProved!Next, Right!Arrive, RightProved!Arrive,
         Right!FinishSetup, RightProved!FinishSetup, Right!StartLoop,
         RightProved!StartLoop, Right!Pump, RightProved!Pump,
         Right!OnCommand, RightProved!OnCommand, Right!ControlTick,
         RightProved!ControlTick, Right!FloorTick, RightProved!FloorTick,
         Right!Observe, RightProved!Observe, Right!Advanced,
         RightProved!Advanced, Right!Fresh, RightProved!Fresh,
         Right!ElapsedMillis, RightProved!ElapsedMillis, Right!DriveOut,
         RightProved!DriveOut, Right!StatusTick, RightProved!StatusTick,
         Right!StatusNotDue, RightProved!StatusNotDue, Right!Elapse,
         RightProved!Elapse, Right!Reset, RightProved!Reset, Right!vars,
         RightProved!vars, Right!device, RightProved!device, Right!time,
         RightProved!time, Right!history, RightProved!history, Right!DeadMan,
         RightProved!DeadMan, Right!Energised, RightProved!Energised,
         Right!StaleBufferInert, RightProved!StaleBufferInert,
         Right!InWindowDrives, RightProved!InWindowDrives

(* ActHub's DeadMan, StaleBufferInert and InWindowDrives, of both wheels of  *)
(* one board: with one wheel's commands gone that wheel is floored in time, *)
(* however busy the other one is kept; neither is energised by what lay in  *)
(* the shared buffer at boot; and an advance inside the window is honoured. *)
THEOREM EachWheelIsFloored ==
  Spec => []( /\ Left!DeadMan /\ Left!StaleBufferInert /\ Left!InWindowDrives
              /\ Right!DeadMan /\ Right!StaleBufferInert /\ Right!InWindowDrives )
<1>1. Left!Spec => LeftProved!Spec
  BY LeftIsProved, PTL DEF Left!Spec, LeftProved!Spec
<1>2. Right!Spec => RightProved!Spec
  BY RightIsProved, PTL DEF Right!Spec, RightProved!Spec
<1>3. /\ LeftProved!Spec => []LeftProved!DeadMan
      /\ LeftProved!Spec => []LeftProved!StaleBufferInert
      /\ LeftProved!Spec => []LeftProved!InWindowDrives
  BY LeftProved!DeadManHolds, LeftProved!StaleBufferCannotEnergise,
     LeftProved!InWindowIsDriven, FloorAssumption, WheelsAssumption
<1>4. /\ RightProved!Spec => []RightProved!DeadMan
      /\ RightProved!Spec => []RightProved!StaleBufferInert
      /\ RightProved!Spec => []RightProved!InWindowDrives
  BY RightProved!DeadManHolds, RightProved!StaleBufferCannotEnergise,
     RightProved!InWindowIsDriven, FloorAssumption, WheelsAssumption
<1> QED
  BY <1>1, <1>2, <1>3, <1>4, LeftIsProved, RightIsProved, BothWheelsAreHubs, PTL
     DEF EachWheelIsAHub, LeftIsAHub, RightIsAHub

=============================================================================
