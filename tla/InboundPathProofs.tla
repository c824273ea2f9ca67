-------------------------- MODULE InboundPathProofs --------------------------
(***************************************************************************)
(* What holds of the readers for any number of slots and readers, any      *)
(* window and any loss, crash and restart: nothing is passed on as current *)
(* that is a leftover or older than the window.                            *)
(* Then of the UART line below them, for any bodies, sizes, check sums and *)
(* faults: the two ends' COBS is one code, both decoders cut the bytes into*)
(* the same runs and come to the same verdicts, an intact frame is heard   *)
(* whatever came before it, and the hub's buffer is never overrun.         *)
(***************************************************************************)
EXTENDS InboundPath, Framing, SequenceTheorems, WellFoundedInduction, TLAPS

(* What the two sides of check_row have to agree on: trust only ever comes   *)
(* with an advance, and the idle beats are counted since the last one.       *)
SoundMonitor(m, a) ==
  /\ m.witnessed => a <= m.idle + 1
  /\ m.fresh => m.witnessed /\ m.idle <= FreshFor

LEMMA CheckType ==
  ASSUME NEW m \in MonitorState, NEW seq \in Seqs \cup {NoSeq}
  PROVE  /\ Check(m, seq) \in MonitorState
         /\ ~Advance(Check(m, seq), seq)
BY MonitorAssumption DEF Check, Advance, MonitorState, Seqs, NoSeq

(* One beat of the reader keeps a monitor sound: an advance can only be seen *)
(* of a slot that was written since the last beat.                           *)
LEMMA CheckSound ==
  ASSUME NEW m \in MonitorState, NEW seq \in Seqs \cup {NoSeq},
         NEW a \in 0 .. Old, SoundMonitor(m, a),
         Advance(m, seq) => a = 0
  PROVE  SoundMonitor(Check(m, seq), IF a < Old THEN a + 1 ELSE Old)
<1> DEFINE n == Check(m, seq)
<1>1. /\ m.idle \in 0 .. FreshFor + 1 /\ FreshFor \in Nat \ {0}
      /\ m.witnessed \in BOOLEAN /\ Advance(m, seq) \in BOOLEAN
  BY MonitorAssumption DEF MonitorState, Advance
<1>2. /\ n.witnessed = (m.witnessed \/ Advance(m, seq))
      /\ n.idle = IF Advance(m, seq) THEN 0
                  ELSE IF m.idle > FreshFor THEN m.idle ELSE m.idle + 1
      /\ n.fresh = (n.witnessed /\ n.idle <= FreshFor)
  BY DEF Check
<1> HIDE DEF n
<1> DEFINE b == IF a < Old THEN a + 1 ELSE Old
<1>3. n.fresh => n.witnessed /\ n.idle <= FreshFor
  BY <1>2
<1>4. n.witnessed => b <= n.idle + 1
  <2>1. CASE Advance(m, seq)
    <3>1. a = 0 /\ n.idle = 0
      BY <2>1, <1>2
    <3> QED
      BY <3>1, <1>1 DEF Old
  <2>2. CASE ~Advance(m, seq) /\ m.witnessed
    <3>1. a <= m.idle + 1 /\ a \in Int
      BY <2>2, <1>1 DEF SoundMonitor, Old
    <3>2. n.idle = IF m.idle > FreshFor THEN m.idle ELSE m.idle + 1
      BY <2>2, <1>2
    <3> QED
      BY <3>1, <3>2, <1>1 DEF Old
  <2>3. CASE ~Advance(m, seq) /\ ~m.witnessed
    BY <2>3, <1>2
  <2> QED
    BY <2>1, <2>2, <2>3
<1> QED
  BY <1>3, <1>4 DEF SoundMonitor, n, b

(* The part of the invariant that speaks of one reader. *)
ReaderInv(c) ==
  /\ Advance(mon[c], RowOf(c).seq) => age[c] = 0
  /\ SoundMonitor(mon[c], age[c])
  /\ c \in reading => mon[c].fresh
  /\ given[c] # NoRow => age[c] <= FreshFor + 1

LEMMA InvByReader == IInv <=> TypeOK /\ \A c \in Reader : ReaderInv(c)
BY DEF IInv, MonitorInv, GivenIsRecent, ReaderInv, SoundMonitor

LEMMA InvByReaderNext ==
  ASSUME TypeOK', \A c \in Reader : ReaderInv(c)'
  PROVE  IInv'
BY DEF IInv, MonitorInv, GivenIsRecent, ReaderInv, SoundMonitor

LEMMA ConstantFacts ==
  /\ FreshFor \in Nat \ {0} /\ SeqMod \in Nat \ {0}
  /\ Old = FreshFor + 2
  /\ NoRow.seq = NoSeq /\ NoSeq \notin Seqs
  /\ \A c \in Reader : Watches[c] \in Slot
BY MonitorAssumption, InboundAssumption DEF Old, NoRow, NoSeq, Seqs

LEMMA RowTypes ==
  ASSUME TypeOK, NEW c \in Reader
  PROVE  /\ RowOf(c) \in Row \cup {NoRow}
         /\ RowOf(c).seq \in Seqs \cup {NoSeq}
         /\ mon[c] \in MonitorState /\ age[c] \in 0 .. Old
         /\ Checked(c) \in MonitorState
<1>1. RowOf(c) \in Row \cup {NoRow}
  BY ConstantFacts DEF TypeOK, RowOf
<1>2. RowOf(c).seq \in Seqs \cup {NoSeq}
  BY <1>1, ConstantFacts DEF Row
<1>3. mon[c] \in MonitorState /\ age[c] \in 0 .. Old
  BY DEF TypeOK
<1> QED
  BY <1>1, <1>2, <1>3, CheckType DEF Checked

LEMMA InitInv == Init => IInv
<1> SUFFICES ASSUME Init PROVE IInv
  OBVIOUS
<1>1. NewMonitor \in MonitorState
  BY ConstantFacts DEF NewMonitor, MonitorState
<1>2. TypeOK
  BY <1>1, ConstantFacts DEF Init, TypeOK, Seqs, Row, Old, Frame
<1>3. ASSUME NEW c \in Reader PROVE ReaderInv(c)
  BY ConstantFacts DEF Init, ReaderInv, NewMonitor, Advance, SoundMonitor
<1> QED
  BY <1>2, <1>3, InvByReader

-----------------------------------------------------------------------------
(* A step that leaves reader c and its row alone. *)
LEMMA Untouched ==
  ASSUME NEW c \in Reader, ReaderInv(c),
         mon'[c] = mon[c], age'[c] = age[c], given'[c] = given[c],
         c \in reading' => c \in reading,
         RowOf(c)' = RowOf(c) \/ RowOf(c)' = NoRow
  PROVE  ReaderInv(c)'
BY ConstantFacts DEF ReaderInv, SoundMonitor, Advance

(* What the actions of the hub and the link leave to the readers. *)
LEMMA LinkSteps ==
  ASSUME IInv, UNCHANGED <<registry, kind, readers, age>>,
         hubSeq' \in [Slot -> Seqs], wire' \in Seq(Frame)
  PROVE  IInv'
<1>1. TypeOK'
  BY DEF IInv, TypeOK, registry, readers
<1>2. ASSUME NEW c \in Reader PROVE ReaderInv(c)'
  BY InvByReader, Untouched DEF registry, readers, RowOf
<1> QED
  BY <1>1, <1>2, InvByReaderNext

LEMMA SampleInv ==
  ASSUME IInv, NEW s \in Slot, NEW v \in Value, Sample(s, v)
  PROVE  IInv'
<1> DEFINE seq == (hubSeq[s] + 1) % SeqMod
<1> DEFINE f == [slot |-> s, seq |-> seq, value |-> v]
<1>1. seq \in Seqs
  BY ConstantFacts DEF IInv, TypeOK, Seqs
<1>2. hubSeq' \in [Slot -> Seqs]
  BY <1>1 DEF Sample, IInv, TypeOK
<1>3. f \in Frame
  BY <1>1 DEF Frame
<1> HIDE DEF seq, f
<1>4. wire' = Append(wire, f) \/ wire' = wire
  BY DEF Sample, f, seq
<1>5. wire' \in Seq(Frame)
  <2>1. wire \in Seq(Frame)
    BY DEF IInv, TypeOK
  <2> QED
    BY <1>3, <1>4, <2>1
<1>6. UNCHANGED <<registry, kind, readers, age>>
  BY DEF Sample
<1> QED
  BY <1>2, <1>5, <1>6, LinkSteps

LEMMA HubResetInv == ASSUME IInv, HubReset PROVE IInv'
<1>1. hubSeq' \in [Slot -> Seqs] /\ wire' \in Seq(Frame)
  BY ConstantFacts DEF HubReset, IInv, TypeOK, Seqs
<1> QED
  BY <1>1, LinkSteps DEF HubReset

LEMMA LoseInv ==
  ASSUME IInv, NEW i \in DOMAIN wire, Lose(i)
  PROVE  IInv'
<1>1. wire \in Seq(Frame) /\ i \in 1 .. Len(wire)
  BY DEF IInv, TypeOK
<1>2. SubSeq(wire, 1, i - 1) \in Seq(Frame)
  BY <1>1
<1>3. SubSeq(wire, i + 1, Len(wire)) \in Seq(Frame)
  BY <1>1
<1>4. wire' \in Seq(Frame)
  BY <1>2, <1>3 DEF Lose
<1> QED
  BY <1>4, LinkSteps DEF Lose, IInv, TypeOK

LEMMA LinkCrashInv == ASSUME IInv, LinkCrash PROVE IInv'
<1>1. hubSeq' \in [Slot -> Seqs] /\ wire' \in Seq(Frame)
  BY DEF LinkCrash, IInv, TypeOK
<1> QED
  BY <1>1, LinkSteps DEF LinkCrash

LEMMA DeliverInv == ASSUME IInv, Deliver PROVE IInv'
<1> DEFINE f == Head(wire)
<1>1. f \in Frame /\ Tail(wire) \in Seq(Frame)
  BY DEF IInv, TypeOK, Deliver
<1> HIDE DEF f
<1>2. /\ rows' = [rows EXCEPT ![f.slot] = [seq |-> f.seq, value |-> f.value]]
      /\ age' = [c \in Reader |-> IF Watches[c] = f.slot THEN 0 ELSE age[c]]
      /\ wire' = Tail(wire) /\ UNCHANGED <<hubSeq, up, kind, mon, reading, given>>
  BY DEF Deliver, f, readers
<1>3. [seq |-> f.seq, value |-> f.value] \in Row /\ f.slot \in Slot
  BY <1>1 DEF Frame, Row
<1>4. age' \in [Reader -> 0 .. Old]
  BY <1>2, ConstantFacts DEF IInv, TypeOK
<1>5. TypeOK'
  BY <1>1, <1>2, <1>3, <1>4 DEF IInv, TypeOK
<1>6. ASSUME NEW c \in Reader PROVE ReaderInv(c)'
  <2>1. ReaderInv(c) /\ Watches[c] \in Slot /\ rows \in [Slot -> Row \cup {NoRow}]
    BY InvByReader, ConstantFacts DEF IInv, TypeOK
  <2>2. CASE Watches[c] = f.slot
    <3>1. age'[c] = 0
      BY <1>2, <2>2
    <3>2. mon[c].idle \in Nat
      BY DEF IInv, TypeOK, MonitorState
    <3> QED
      BY <1>2, <2>1, <3>1, <3>2, ConstantFacts DEF ReaderInv, SoundMonitor
  <2>3. CASE Watches[c] # f.slot
    <3>1. age'[c] = age[c] /\ RowOf(c)' = RowOf(c)
      BY <1>2, <2>1, <2>3 DEF RowOf
    <3> QED
      BY <1>2, <2>1, <3>1, Untouched
  <2> QED
    BY <2>2, <2>3
<1> QED
  BY <1>5, <1>6, InvByReaderNext

LEMMA RegistryInv ==
  ASSUME IInv, RegistryCrash \/ RegistryRestart
  PROVE  IInv'
<1>1. /\ UNCHANGED <<hubSeq, wire, kind, mon, reading, given, age>>
      /\ up' \in BOOLEAN
      /\ rows' = rows \/ rows' = [s \in Slot |-> NoRow]
  BY DEF RegistryCrash, RegistryRestart, link, readers
<1>2. TypeOK'
  BY <1>1 DEF IInv, TypeOK
<1>3. ASSUME NEW c \in Reader PROVE ReaderInv(c)'
  <2>1. RowOf(c)' = RowOf(c) \/ RowOf(c)' = NoRow
    BY <1>1, ConstantFacts DEF RowOf
  <2> QED
    BY <1>1, <2>1, InvByReader, Untouched
<1> QED
  BY <1>2, <1>3, InvByReaderNext

-----------------------------------------------------------------------------
(* A step of reader c alone. *)
LEMMA ReaderSteps ==
  ASSUME IInv, NEW c \in Reader,
         UNCHANGED <<link, registry, kind>>,
         NEW m \in MonitorState, mon' = [mon EXCEPT ![c] = m],
         NEW g \in Row \cup {NoRow}, given' = [given EXCEPT ![c] = g],
         NEW a \in 0 .. Old, age' = [age EXCEPT ![c] = a],
         reading' \in SUBSET {r \in Reader : kind[r] = "sensor"},
         reading' \ {c} = reading \ {c},
         ReaderInv(c)'
  PROVE  IInv'
<1>1. TypeOK'
  BY DEF IInv, TypeOK, link, registry
<1>2. ASSUME NEW r \in Reader, r # c PROVE ReaderInv(r)'
  <2>1. /\ mon'[r] = mon[r] /\ age'[r] = age[r] /\ given'[r] = given[r]
        /\ r \in reading' => r \in reading
        /\ RowOf(r)' = RowOf(r)
    BY <1>2 DEF IInv, TypeOK, registry, RowOf
  <2> QED
    BY <2>1, InvByReader, Untouched
<1> QED
  BY <1>1, <1>2, InvByReaderNext

LEMMA RestartInv == ASSUME IInv, NEW c \in Reader, Restart(c) PROVE IInv'
<1>1. NewMonitor \in MonitorState /\ Old \in 0 .. Old
  BY ConstantFacts DEF NewMonitor, MonitorState
<1>2. mon'[c] = NewMonitor /\ given'[c] = NoRow /\ c \notin reading'
  BY DEF Restart, IInv, TypeOK
<1>3. ReaderInv(c)'
  BY <1>2, ConstantFacts DEF ReaderInv, SoundMonitor, Advance, NewMonitor
<1>4. reading' \in SUBSET {r \in Reader : kind[r] = "sensor"}
  BY DEF Restart, IInv, TypeOK
<1> QED
  BY <1>1, <1>3, <1>4, ReaderSteps DEF Restart

(* The beats of the three kinds of reader differ in what they pass on. *)
LEMMA BeatInv ==
  ASSUME IInv, NEW c \in Reader,
         UNCHANGED <<link, registry, kind>>,
         mon' = [mon EXCEPT ![c] = Checked(c)], Beats(c),
         NEW g \in Row \cup {NoRow}, given' = [given EXCEPT ![c] = g],
         g # NoRow => Checked(c).fresh,
         reading' \in SUBSET {r \in Reader : kind[r] = "sensor"},
         reading' \ {c} = reading \ {c},
         c \in reading' => Checked(c).fresh
  PROVE  IInv'
<1> DEFINE a == IF age[c] < Old THEN age[c] + 1 ELSE Old
<1>1. /\ RowOf(c).seq \in Seqs \cup {NoSeq} /\ mon[c] \in MonitorState
      /\ age[c] \in 0 .. Old /\ Checked(c) \in MonitorState
  BY RowTypes DEF IInv
<1>2. a \in 0 .. Old /\ a \in Int
  BY <1>1, ConstantFacts
<1>3. age' = [age EXCEPT ![c] = a]
  BY DEF Beats, IInv, TypeOK
<1>4. ReaderInv(c)
  BY InvByReader
<1>5. SoundMonitor(Checked(c), a)
  BY <1>1, <1>4, CheckSound DEF ReaderInv, Checked
<1>6. ~Advance(Checked(c), RowOf(c).seq)
  BY <1>1, CheckType DEF Checked
<1> HIDE DEF a
<1>7. /\ mon'[c] = Checked(c) /\ age'[c] = a /\ given'[c] = g
      /\ RowOf(c)' = RowOf(c)
  BY <1>3 DEF IInv, TypeOK, RowOf, registry
<1>8. Checked(c).fresh => a <= FreshFor + 1
  <2>1. Checked(c).idle \in Nat
    BY <1>1 DEF MonitorState
  <2> QED
    BY <2>1, <1>2, <1>5, ConstantFacts DEF SoundMonitor
<1>9. ReaderInv(c)'
  BY <1>5, <1>6, <1>7, <1>8 DEF ReaderInv
<1> QED
  BY <1>1, <1>2, <1>3, <1>9, ReaderSteps

LEMMA SensorBeatInv ==
  ASSUME IInv, NEW c \in Reader, kind[c] = "sensor", SensorBeat(c)
  PROVE  IInv'
<1>1. /\ reading' \in SUBSET {r \in Reader : kind[r] = "sensor"}
      /\ reading' \ {c} = reading \ {c}
      /\ c \in reading' => Checked(c).fresh
  BY DEF SensorBeat, IInv, TypeOK
<1> QED
  BY <1>1, BeatInv DEF SensorBeat

LEMMA ObserverBeatInv ==
  ASSUME IInv, NEW c \in Reader, kind[c] = "observer", ObserverBeat(c)
  PROVE  IInv'
<1> DEFINE g == IF Checked(c).fresh THEN RowOf(c) ELSE NoRow
<1>1. g \in Row \cup {NoRow} /\ (g # NoRow => Checked(c).fresh)
  BY RowTypes DEF IInv
<1>2. given' = [given EXCEPT ![c] = g]
  BY DEF ObserverBeat
<1>3. /\ reading' = reading
      /\ reading \in SUBSET {r \in Reader : kind[r] = "sensor"} /\ c \notin reading
  BY DEF ObserverBeat, IInv, TypeOK
<1> HIDE DEF g
<1> QED
  BY <1>1, <1>2, <1>3, BeatInv DEF ObserverBeat

LEMMA ActuatorBeatInv ==
  ASSUME IInv, NEW c \in Reader, kind[c] = "actuator", ActuatorBeat(c)
  PROVE  IInv'
<1>1. /\ reading' = reading
      /\ reading \in SUBSET {r \in Reader : kind[r] = "sensor"} /\ c \notin reading
  BY DEF ActuatorBeat, IInv, TypeOK
<1> QED
  BY <1>1, BeatInv DEF ActuatorBeat

(* Passing a row on between two beats needs a monitor that says fresh. *)
LEMMA PassOnInv ==
  ASSUME IInv, NEW c \in Reader,
         UNCHANGED <<link, registry, kind, mon, age>>,
         NEW g \in Row \cup {NoRow}, given' = [given EXCEPT ![c] = g],
         g # NoRow => mon[c].fresh,
         reading' = reading \ {c} \/ reading' = reading
  PROVE  IInv'
<1>1. /\ mon[c] \in MonitorState /\ age[c] \in 0 .. Old /\ ReaderInv(c)
      /\ mon' = [mon EXCEPT ![c] = mon[c]] /\ age' = [age EXCEPT ![c] = age[c]]
  BY InvByReader DEF IInv, TypeOK
<1>2. /\ mon'[c] = mon[c] /\ age'[c] = age[c] /\ given'[c] = g
      /\ RowOf(c)' = RowOf(c) /\ (c \in reading' => c \in reading)
  BY DEF IInv, TypeOK, registry, RowOf
<1>3. g # NoRow => age[c] <= FreshFor + 1
  <2>1. mon[c].idle \in Nat /\ age[c] \in Nat /\ FreshFor \in Nat
    BY <1>1, ConstantFacts DEF MonitorState
  <2> QED
    BY <1>1, <2>1 DEF ReaderInv, SoundMonitor
<1>4. ReaderInv(c)'
  BY <1>1, <1>2, <1>3 DEF ReaderInv
<1>5. /\ reading' \in SUBSET {r \in Reader : kind[r] = "sensor"}
      /\ reading' \ {c} = reading \ {c}
  BY DEF IInv, TypeOK
<1> QED
  BY <1>1, <1>4, <1>5, ReaderSteps

LEMMA PublishInv == ASSUME IInv, NEW c \in Reader, Publish(c) PROVE IInv'
<1>1. RowOf(c) \in Row \cup {NoRow} /\ mon[c].fresh
  BY RowTypes, InvByReader DEF IInv, Publish, ReaderInv
<1> QED
  BY <1>1, PassOnInv DEF Publish

LEMMA LiveInv == ASSUME IInv, NEW c \in Reader, Live(c) PROVE IInv'
<1> DEFINE g == IF mon[c].fresh /\ RowOf(c).value = Driving THEN RowOf(c) ELSE NoRow
<1>1. g \in Row \cup {NoRow} /\ (g # NoRow => mon[c].fresh)
  BY RowTypes DEF IInv
<1>2. given' = [given EXCEPT ![c] = g]
  BY DEF Live
<1> HIDE DEF g
<1> QED
  BY <1>1, <1>2, PassOnInv DEF Live

-----------------------------------------------------------------------------
LEMMA StepInv == IInv /\ [Next]_vars => IInv'
<1> SUFFICES ASSUME IInv, [Next]_vars PROVE IInv'
  OBVIOUS
<1>1. ASSUME NEW s \in Slot, NEW v \in Value, Sample(s, v) PROVE IInv'
  BY <1>1, SampleInv
<1>2. CASE HubReset
  BY <1>2, HubResetInv
<1>3. ASSUME NEW i \in DOMAIN wire, Lose(i) PROVE IInv'
  BY <1>3, LoseInv
<1>4. CASE Deliver
  BY <1>4, DeliverInv
<1>5. CASE DeliverDown \/ LinkCrash
  BY <1>5, LinkCrashInv DEF DeliverDown
<1>6. CASE RegistryCrash \/ RegistryRestart
  BY <1>6, RegistryInv
<1>7. ASSUME NEW c \in Reader, Beat(c) PROVE IInv'
  <2>1. CASE kind[c] = "sensor" /\ SensorBeat(c)
    BY <2>1, SensorBeatInv
  <2>2. CASE Publish(c)
    BY <2>2, PublishInv
  <2>3. CASE PublishCrash(c) \/ ObserverCrash(c) \/ BeatDown(c)
    BY <2>3, RestartInv DEF PublishCrash, ObserverCrash, BeatDown
  <2>4. CASE kind[c] = "observer" /\ ObserverBeat(c)
    BY <2>4, ObserverBeatInv
  <2>5. CASE kind[c] = "actuator" /\ ActuatorBeat(c)
    BY <2>5, ActuatorBeatInv
  <2> QED
    BY <1>7, <2>1, <2>2, <2>3, <2>4, <2>5 DEF Beat
<1>8. ASSUME NEW c \in Reader, Live(c) PROVE IInv'
  BY <1>8, LiveInv
<1>9. ASSUME NEW c \in Reader, Restart(c) PROVE IInv'
  BY <1>9, RestartInv
<1>10. CASE UNCHANGED vars
  <2>1. UNCHANGED <<hubSeq, wire, up, rows, kind, mon, reading, given, age>>
    BY <1>10 DEF vars, link, registry, readers
  <2>2. TypeOK'
    BY <2>1 DEF IInv, TypeOK
  <2>3. ASSUME NEW c \in Reader PROVE ReaderInv(c)'
    BY <2>1, InvByReader, Untouched DEF RowOf
  <2> QED
    BY <2>2, <2>3, InvByReaderNext
<1> QED
  BY <1>1, <1>2, <1>3, <1>4, <1>5, <1>6, <1>7, <1>8, <1>9, <1>10 DEF Next

(* Every reachable state satisfies IInv, type correctness included: what the *)
(* monitors of monitor.ex believe agrees with what was written when.         *)
THEOREM MonitorsSound == Spec => []IInv
<1>1. Init => IInv
  BY InitInv
<1>2. IInv /\ [Next]_vars => IInv'
  BY StepInv
<1> QED
  BY <1>1, <1>2, PTL DEF Spec

(* Born stale, and fresh for fresh_for beats, for every kind of reader: see  *)
(* GivenIsRecent.                                                            *)
THEOREM NothingStaleIsPassedOn == Spec => []GivenIsRecent
<1>1. IInv => GivenIsRecent
  BY DEF IInv
<1> QED
  BY <1>1, MonitorsSound, PTL

-----------------------------------------------------------------------------
(* The UART line: COBS, the verdicts of the two decoders, and what they do  *)
(* about lost and added bytes.  Every loop of the codecs is a Folding, and  *)
(* what it does is shown by induction along the bytes it reads.             *)

(* Induction: a set of natural numbers that is not empty has a least element. *)
LessNat == {p \in Nat \X Nat : p[1] < p[2]}

LEMMA Least ==
  ASSUME NEW S, S \subseteq Nat, S # {}
  PROVE  \E n \in S : \A m \in S : n <= m
<1>1. LessNat = OpToRel(<, Nat)
  BY DEF LessNat, OpToRel
<1>2. IsWellFoundedOn(LessNat, Nat)
  BY NatLessThanWellFounded, <1>1
<1>3. PICK n \in S : \A m \in S : <<m, n>> \notin LessNat
  BY <1>2, WFMin
<1>4. ASSUME NEW m \in S PROVE n <= m
  <2>1. m \in Nat /\ n \in Nat /\ <<m, n>> \notin LessNat
    BY <1>3
  <2>2. <<m, n>> \in Nat \X Nat /\ <<m, n>>[1] = m /\ <<m, n>>[2] = n
    BY <2>1
  <2>3. ~(m < n)
    BY <2>1, <2>2 DEF LessNat
  <2> QED
    BY <2>1, <2>3
<1> QED
  BY <1>4

LEMMA Induction ==
  ASSUME NEW K, 0 \in K, \A n \in Nat : n \in K => n + 1 \in K
  PROVE  Nat \subseteq K
<1>. SUFFICES ASSUME Nat \ K # {} PROVE FALSE
  OBVIOUS
<1>1. PICK n \in Nat \ K : \A m \in Nat \ K : n <= m
  BY Least
<1>2. n # 0 /\ n - 1 \in Nat /\ n - 1 \in K
  BY <1>1
<1> QED
  BY <1>1, <1>2

\* A property of the places 0 .. n that each hands on to the next.
LEMMA Along ==
  ASSUME NEW n \in Nat, NEW P, 0 \in P,
         \A i \in 1 .. n : i - 1 \in P => i \in P
  PROVE  0 .. n \subseteq P
<1>. DEFINE K == {i \in Nat : i <= n => i \in P}
<1>1. 0 \in K
  OBVIOUS
<1>2. ASSUME NEW i \in Nat, i \in K PROVE i + 1 \in K
  BY <1>2
<1>. HIDE DEF K
<1>3. Nat \subseteq K
  BY <1>1, <1>2, Induction
<1>. QED
  BY <1>3 DEF K

\* The loops: each has results, and they are the only ones.
IsRun(f, S, base, F, s) ==
    /\ f \in [0 .. Len(s) -> S] /\ f[0] = base
    /\ \A i \in 1 .. Len(s) : f[i] = F[f[i - 1]][s[i]]

LEMMA RunExists ==
  ASSUME NEW S, NEW B, NEW base \in S, NEW F \in [S -> [B -> S]], NEW s \in Seq(B)
  PROVE  \E f : IsRun(f, S, base, F, s)
<1>. DEFINE Good(n, f) == f[0] = base /\ \A i \in 1 .. n : f[i] = F[f[i - 1]][s[i]]
            P == {n \in 0 .. Len(s) : \E f \in [0 .. n -> S] : Good(n, f)}
<1>1. 0 \in P
  <2>. DEFINE f == [i \in 0 .. 0 |-> base]
  <2>1. f \in [0 .. 0 -> S] /\ Good(0, f) /\ 0 \in 0 .. Len(s)
    OBVIOUS
  <2>. QED
    BY <2>1
<1>2. ASSUME NEW n \in 1 .. Len(s), n - 1 \in P PROVE n \in P
  <2>1. PICK f \in [0 .. n - 1 -> S] : Good(n - 1, f)
    BY <1>2
  <2>. DEFINE g == [i \in 0 .. n |-> IF i = n THEN F[f[n - 1]][s[n]] ELSE f[i]]
  <2>2. s[n] \in B /\ f[n - 1] \in S
    OBVIOUS
  <2>3. F[f[n - 1]][s[n]] \in S
    BY <2>2
  <2>4. g \in [0 .. n -> S]
    BY <2>3
  <2>5. g[0] = base
    BY <2>1
  <2>6. ASSUME NEW i \in 1 .. n PROVE g[i] = F[g[i - 1]][s[i]]
    <3>1. i - 1 \in 0 .. n /\ i - 1 # n /\ g[i - 1] = f[i - 1]
      OBVIOUS
    <3>2. CASE i = n
      BY <3>1, <3>2
    <3>3. CASE i # n
      BY <3>1, <3>3, <2>1
    <3>. QED
      BY <3>2, <3>3
  <2>. HIDE DEF g
  <2>7. \E h \in [0 .. n -> S] : Good(n, h)
    BY <2>4, <2>5, <2>6
  <2>8. n \in 0 .. Len(s)
    OBVIOUS
  <2>. HIDE DEF Good
  <2>. QED
    BY <2>7, <2>8
<1>. HIDE DEF P
<1>3. Len(s) \in P
  <2>1. Len(s) \in Nat /\ Len(s) \in 0 .. Len(s)
    OBVIOUS
  <2>2. 0 .. Len(s) \subseteq P
    BY <1>1, <1>2, <2>1, Along
  <2>. QED
    BY <2>1, <2>2
<1>4. \E f \in [0 .. Len(s) -> S] : Good(Len(s), f)
  BY <1>3 DEF P
<1>. QED
  BY <1>4 DEF IsRun

LEMMA RunsAgree ==
  ASSUME NEW n \in Nat, NEW f, NEW g, f[0] = g[0],
         \A i \in 1 .. n : f[i - 1] = g[i - 1] => f[i] = g[i]
  PROVE  \A i \in 0 .. n : f[i] = g[i]
<1>. DEFINE P == {i \in 0 .. n : f[i] = g[i]}
<1>1. 0 \in P
  OBVIOUS
<1>2. ASSUME NEW i \in 1 .. n, i - 1 \in P PROVE i \in P
  BY <1>2
<1>. HIDE DEF P
<1>3. 0 .. n \subseteq P
  BY <1>1, <1>2, Along
<1>. QED
  BY <1>3 DEF P

(* The loops of Framing.  That a Folding is a function that obeys its own   *)
(* equation has to be shown for each: a lemma cannot be about an operator.  *)

NonZero == Byte \ {0}

\* The states of the loops.
EncodeState == {e \in [out : Seq(NonZero), cur : Seq(NonZero)] : Len(e.cur) <= Full - 2}
StuffState == [out : Seq(Nat), at : Nat, code : Nat]
UnstuffState == [out : Seq(Byte), left : Nat, implied : BOOLEAN]
DecodeState(run) ==
    [at : 1 .. Len(run) + 1, cut : BOOLEAN, implied : BOOLEAN, out : Seq(Byte)]
Verdict == [is : {"body", "rx_drop", "crc_fail", "cobs_truncated"}, body : Seq(Byte)]
ScanState == [verdicts : Seq(Verdict), rest : Seq(NonZero)]

\* Each step of a loop leads from such a state to such a state.
LEMMA BlockType ==
  ASSUME NEW c \in Seq(NonZero), Len(c) < Full
  PROVE  Block(c) \in Seq(NonZero) /\ Len(Block(c)) = Len(c) + 1
<1>1. Len(c) \in Nat /\ Len(c) + 1 \in NonZero
  BY SizeAssumption DEF NonZero, Byte
<1>2. <<Len(c) + 1>> \in Seq(NonZero)
  BY <1>1
<1>. QED
  BY <1>2 DEF Block

LEMMA EncodeType ==
  ASSUME NEW e \in EncodeState, NEW b \in Byte
  PROVE  EncodeByte(e, b) \in EncodeState
<1>1. /\ e.out \in Seq(NonZero) /\ e.cur \in Seq(NonZero)
      /\ Len(e.cur) \in Nat /\ Len(e.cur) <= Full - 2 /\ Full \in Nat /\ Full > 1
      /\ e = [out |-> e.out, cur |-> e.cur]
  BY SizeAssumption DEF EncodeState
<1>2. <<>> \in Seq(NonZero) /\ Len(<<>>) = 0
  OBVIOUS
<1>3. CASE b = 0
  <2>1. e.out \o Block(e.cur) \in Seq(NonZero)
    BY <1>1, BlockType
  <2>2. EncodeByte(e, b) = [out |-> e.out \o Block(e.cur), cur |-> <<>>]
    BY <1>3 DEF EncodeByte
  <2>. QED
    BY <1>1, <1>2, <2>1, <2>2 DEF EncodeState
<1>4. ASSUME b # 0
      PROVE  Append(e.cur, b) \in Seq(NonZero) /\ Len(Append(e.cur, b)) = Len(e.cur) + 1
  BY <1>1, <1>4 DEF NonZero
<1>5. CASE b # 0 /\ Len(e.cur) = Full - 2
  <2>1. e.out \o Block(Append(e.cur, b)) \in Seq(NonZero)
    <3>1. Append(e.cur, b) \in Seq(NonZero) /\ Len(Append(e.cur, b)) < Full
      BY <1>1, <1>4, <1>5
    <3>2. Block(Append(e.cur, b)) \in Seq(NonZero)
      BY <3>1, BlockType
    <3>. QED
      BY <1>1, <3>2
  <2>2. EncodeByte(e, b) = [out |-> e.out \o Block(Append(e.cur, b)), cur |-> <<>>]
    BY <1>5 DEF EncodeByte
  <2>. QED
    BY <1>1, <1>2, <2>1, <2>2 DEF EncodeState
<1>6. CASE b # 0 /\ Len(e.cur) # Full - 2
  <2>1. EncodeByte(e, b) = [out |-> e.out, cur |-> Append(e.cur, b)]
    BY <1>1, <1>6 DEF EncodeByte
  <2>. QED
    BY <1>1, <1>4, <1>6, <2>1 DEF EncodeState
<1>. QED
  BY <1>3, <1>5, <1>6

LEMMA StuffType ==
  ASSUME NEW e \in StuffState, NEW b \in Byte
  PROVE  StuffByte(e, b) \in StuffState
<1>. DEFINE put == [out |-> Append(e.out, b), at |-> e.at, code |-> e.code + 1]
<1>1. put \in StuffState
  <2>1. b \in Nat /\ e.out \in Seq(Nat) /\ e.at \in Nat /\ e.code \in Nat
    BY SizeAssumption DEF StuffState, Byte
  <2>2. Append(e.out, b) \in Seq(Nat) /\ e.code + 1 \in Nat
    BY <2>1
  <2>. QED
    BY <2>1, <2>2 DEF StuffState
<1>2. ASSUME NEW p \in StuffState PROVE Close(p) \in StuffState
  <2>1. p.out \in Seq(Nat) /\ p.at \in Nat /\ p.code \in Nat
    BY DEF StuffState
  <2>2. [p.out EXCEPT ![p.at] = p.code] \in Seq(Nat)
    <3>1. CASE p.at \in 1 .. Len(p.out)
      BY <2>1, <3>1, ExceptSeq
    <3>2. CASE p.at \notin 1 .. Len(p.out)
      <4>1. p.out \in [1 .. Len(p.out) -> Nat]
        BY <2>1, LenProperties
      <4>2. [p.out EXCEPT ![p.at] = p.code] = p.out
        BY <4>1, <3>2
      <4>. QED
        BY <2>1, <4>2
    <3>. QED
      BY <3>1, <3>2
  <2>3. Append([p.out EXCEPT ![p.at] = p.code], 0) \in Seq(Nat)
    BY <2>2
  <2>. QED
    BY <2>1, <2>3 DEF Close, StuffState
<1>3. StuffByte(e, b) \in {Close(e), Close(put), put}
  BY DEF StuffByte
<1>. HIDE DEF put
<1>. QED
  BY <1>1, <1>2, <1>3

LEMMA UnstuffType ==
  ASSUME NEW d \in UnstuffState, NEW b \in NonZero
  PROVE  UnstuffByte(d, b) \in UnstuffState
<1>1. b \in Byte /\ b \in Nat /\ b - 1 \in Nat /\ 0 \in Byte
  BY SizeAssumption DEF NonZero, Byte
<1>2. d.out \in Seq(Byte) /\ d.left \in Nat /\ d.implied \in BOOLEAN
  BY DEF UnstuffState
<1>3. Append(d.out, b) \in Seq(Byte) /\ Append(d.out, 0) \in Seq(Byte)
  BY <1>1, <1>2
<1>4. CASE d.left > 0
  <2>1. UnstuffByte(d, b) = [out |-> Append(d.out, b), left |-> d.left - 1, implied |-> d.implied]
    BY <1>4 DEF UnstuffByte, UnstuffState
  <2>. QED
    BY <1>2, <1>3, <1>4, <2>1 DEF UnstuffState
<1>5. CASE ~(d.left > 0)
  BY <1>1, <1>2, <1>3, <1>5 DEF UnstuffByte, UnstuffState
<1>. QED
  BY <1>4, <1>5

LEMMA DecodeType ==
  ASSUME NEW run \in Seq(NonZero), NEW d \in DecodeState(run)
  PROVE  DecodeBlock(run, d) \in DecodeState(run)
<1>. DEFINE next == d.at + run[d.at]
            z == IF d.implied THEN d.out ELSE Append(d.out, 0)
<1>1. /\ d.at \in 1 .. Len(run) + 1 /\ Len(run) \in Nat
      /\ d.cut \in BOOLEAN /\ d.implied \in BOOLEAN /\ d.out \in Seq(Byte)
  BY DEF DecodeState
<1>2. CASE d.cut \/ d.at > Len(run)
  BY <1>2 DEF DecodeBlock
<1>3. CASE ~d.cut /\ ~(d.at > Len(run)) /\ next - 1 > Len(run)
  BY <1>3 DEF DecodeBlock, DecodeState
<1>4. CASE ~d.cut /\ ~(d.at > Len(run)) /\ ~(next - 1 > Len(run))
  <2>1. d.at \in 1 .. Len(run) /\ run[d.at] \in NonZero
    BY <1>1, <1>4
  <2>2. run[d.at] \in Nat /\ run[d.at] >= 1
    BY <2>1, SizeAssumption DEF NonZero, Byte
  <2>3. next \in 1 .. Len(run) + 1 /\ d.at + 1 \in Nat /\ next - 1 \in Nat
    BY <1>1, <1>4, <2>1, <2>2
  <2>4. z \in Seq(Byte)
    <3>1. 0 \in Byte
      BY SizeAssumption DEF Byte
    <3>. QED
      BY <1>1, <3>1
  <2>5. SubSeq(run, d.at + 1, next - 1) \in Seq(Byte)
    <3>1. \A i \in d.at + 1 .. next - 1 : run[i] \in Byte
      BY <1>1, <1>4, <2>1, <2>3 DEF NonZero
    <3>2. run \in Seq(Byte)
      BY DEF NonZero
    <3>. QED
      BY <2>3, <2>1, <1>1, <3>2, SubSeqProperties
  <2>6. z \o SubSeq(run, d.at + 1, next - 1) \in Seq(Byte)
    BY <2>4, <2>5
  <2>7. DecodeBlock(run, d) = [at |-> next, cut |-> FALSE, implied |-> run[d.at] = Full,
                               out |-> z \o SubSeq(run, d.at + 1, next - 1)]
    BY <1>4 DEF DecodeBlock
  <2>. HIDE DEF next, z
  <2>. QED
    BY <2>3, <2>6, <2>7 DEF DecodeState
<1>. QED
  BY <1>1, <1>2, <1>3, <1>4

(* What each loop has after each byte or block. *)
Encoding(s) == Folding(EncodeByte, EncodeStart, s)
Stuffing(s) == Folding(StuffByte, StuffStart, s)
Unstuffing(s) == Folding(UnstuffByte, UnstuffStart, s)
Scanning(s) == Folding(ScanByte, ScanStart, s)
Taking(s) == Folding(TakeLegal, <<>>, s)

LEMMA EncodeRun ==
  ASSUME NEW s \in Seq(Byte)
  PROVE  /\ Encoding(s) \in [0 .. Len(s) -> EncodeState]
         /\ Encoding(s)[0] = EncodeStart
         /\ \A i \in 1 .. Len(s) : Encoding(s)[i] = EncodeByte(Encoding(s)[i - 1], s[i])
<1>. DEFINE F == [x \in EncodeState |-> [b \in Byte |-> EncodeByte(x, b)]]
<1>1. EncodeStart \in EncodeState
  BY SizeAssumption, EmptySeq DEF EncodeStart, EncodeState
<1>2. F \in [EncodeState -> [Byte -> EncodeState]]
  BY EncodeType
<1>3. PICK f : IsRun(f, EncodeState, EncodeStart, F, s)
  <2>. HIDE DEF F
  <2>. QED
    BY <1>1, <1>2, RunExists
<1>4. ASSUME NEW i \in 1 .. Len(s)
      PROVE  f[i - 1] \in EncodeState /\ f[i] = EncodeByte(f[i - 1], s[i])
  <2>1. f[i - 1] \in EncodeState /\ s[i] \in Byte /\ f[i] = F[f[i - 1]][s[i]]
    BY <1>3 DEF IsRun
  <2>. QED
    BY <2>1
<1>. DEFINE e == Encoding(s)
<1>5. f = [i \in 0 .. Len(s) |-> IF i = 0 THEN EncodeStart ELSE EncodeByte(f[i - 1], s[i])]
  BY <1>3, <1>4 DEF IsRun
<1>6. e = CHOOSE g : g = [i \in 0 .. Len(s) |-> IF i = 0 THEN EncodeStart ELSE EncodeByte(g[i - 1], s[i])]
  BY DEF Encoding, Folding
<1>7. e = [i \in 0 .. Len(s) |-> IF i = 0 THEN EncodeStart ELSE EncodeByte(e[i - 1], s[i])]
  <2>. HIDE DEF e, F
  <2>. QED
    BY <1>5, <1>6
<1>. HIDE DEF e, F
<1>8. e[0] = EncodeStart /\ \A i \in 1 .. Len(s) : e[i] = EncodeByte(e[i - 1], s[i])
  BY <1>7
<1>9. \A i \in 0 .. Len(s) : e[i] = f[i]
  <2>1. \A i \in 1 .. Len(s) : e[i - 1] = f[i - 1] => e[i] = f[i]
    BY <1>4, <1>8
  <2>2. e[0] = f[0] /\ Len(s) \in Nat
    BY <1>3, <1>8 DEF IsRun
  <2>. QED
    BY <2>1, <2>2, RunsAgree
<1>10. e = f
  BY <1>5, <1>7, <1>9
<1>. QED
  BY <1>3, <1>8, <1>10 DEF e, IsRun

LEMMA StuffRun ==
  ASSUME NEW s \in Seq(Byte)
  PROVE  /\ Stuffing(s) \in [0 .. Len(s) -> StuffState]
         /\ Stuffing(s)[0] = StuffStart
         /\ \A i \in 1 .. Len(s) : Stuffing(s)[i] = StuffByte(Stuffing(s)[i - 1], s[i])
<1>. DEFINE F == [x \in StuffState |-> [b \in Byte |-> StuffByte(x, b)]]
<1>1. StuffStart \in StuffState
  BY DEF StuffStart, StuffState
<1>2. F \in [StuffState -> [Byte -> StuffState]]
  BY StuffType
<1>3. PICK f : IsRun(f, StuffState, StuffStart, F, s)
  <2>. HIDE DEF F
  <2>. QED
    BY <1>1, <1>2, RunExists
<1>4. ASSUME NEW i \in 1 .. Len(s)
      PROVE  f[i - 1] \in StuffState /\ f[i] = StuffByte(f[i - 1], s[i])
  <2>1. f[i - 1] \in StuffState /\ s[i] \in Byte /\ f[i] = F[f[i - 1]][s[i]]
    BY <1>3 DEF IsRun
  <2>. QED
    BY <2>1
<1>. DEFINE e == Stuffing(s)
<1>5. f = [i \in 0 .. Len(s) |-> IF i = 0 THEN StuffStart ELSE StuffByte(f[i - 1], s[i])]
  BY <1>3, <1>4 DEF IsRun
<1>6. e = CHOOSE g : g = [i \in 0 .. Len(s) |-> IF i = 0 THEN StuffStart ELSE StuffByte(g[i - 1], s[i])]
  BY DEF Stuffing, Folding
<1>7. e = [i \in 0 .. Len(s) |-> IF i = 0 THEN StuffStart ELSE StuffByte(e[i - 1], s[i])]
  <2>. HIDE DEF e, F
  <2>. QED
    BY <1>5, <1>6
<1>. HIDE DEF e, F
<1>8. e[0] = StuffStart /\ \A i \in 1 .. Len(s) : e[i] = StuffByte(e[i - 1], s[i])
  BY <1>7
<1>9. \A i \in 0 .. Len(s) : e[i] = f[i]
  <2>1. \A i \in 1 .. Len(s) : e[i - 1] = f[i - 1] => e[i] = f[i]
    BY <1>4, <1>8
  <2>2. e[0] = f[0] /\ Len(s) \in Nat
    BY <1>3, <1>8 DEF IsRun
  <2>. QED
    BY <2>1, <2>2, RunsAgree
<1>10. e = f
  BY <1>5, <1>7, <1>9
<1>. QED
  BY <1>3, <1>8, <1>10 DEF e, IsRun

LEMMA UnstuffRun ==
  ASSUME NEW s \in Seq(NonZero)
  PROVE  /\ Unstuffing(s) \in [0 .. Len(s) -> UnstuffState]
         /\ Unstuffing(s)[0] = UnstuffStart
         /\ \A i \in 1 .. Len(s) : Unstuffing(s)[i] = UnstuffByte(Unstuffing(s)[i - 1], s[i])
<1>. DEFINE F == [x \in UnstuffState |-> [b \in NonZero |-> UnstuffByte(x, b)]]
<1>1. UnstuffStart \in UnstuffState
  BY EmptySeq DEF UnstuffStart, UnstuffState
<1>2. F \in [UnstuffState -> [NonZero -> UnstuffState]]
  BY UnstuffType
<1>3. PICK f : IsRun(f, UnstuffState, UnstuffStart, F, s)
  <2>. HIDE DEF F
  <2>. QED
    BY <1>1, <1>2, RunExists
<1>4. ASSUME NEW i \in 1 .. Len(s)
      PROVE  f[i - 1] \in UnstuffState /\ f[i] = UnstuffByte(f[i - 1], s[i])
  <2>1. f[i - 1] \in UnstuffState /\ s[i] \in NonZero /\ f[i] = F[f[i - 1]][s[i]]
    BY <1>3 DEF IsRun
  <2>. QED
    BY <2>1
<1>. DEFINE e == Unstuffing(s)
<1>5. f = [i \in 0 .. Len(s) |-> IF i = 0 THEN UnstuffStart ELSE UnstuffByte(f[i - 1], s[i])]
  BY <1>3, <1>4 DEF IsRun
<1>6. e = CHOOSE g : g = [i \in 0 .. Len(s) |-> IF i = 0 THEN UnstuffStart ELSE UnstuffByte(g[i - 1], s[i])]
  BY DEF Unstuffing, Folding
<1>7. e = [i \in 0 .. Len(s) |-> IF i = 0 THEN UnstuffStart ELSE UnstuffByte(e[i - 1], s[i])]
  <2>. HIDE DEF e, F
  <2>. QED
    BY <1>5, <1>6
<1>. HIDE DEF e, F
<1>8. e[0] = UnstuffStart /\ \A i \in 1 .. Len(s) : e[i] = UnstuffByte(e[i - 1], s[i])
  BY <1>7
<1>9. \A i \in 0 .. Len(s) : e[i] = f[i]
  <2>1. \A i \in 1 .. Len(s) : e[i - 1] = f[i - 1] => e[i] = f[i]
    BY <1>4, <1>8
  <2>2. e[0] = f[0] /\ Len(s) \in Nat
    BY <1>3, <1>8 DEF IsRun
  <2>. QED
    BY <2>1, <2>2, RunsAgree
<1>10. e = f
  BY <1>5, <1>7, <1>9
<1>. QED
  BY <1>3, <1>8, <1>10 DEF e, IsRun

LEMMA DecodeRun ==
  ASSUME NEW s \in Seq(NonZero)
  PROVE  /\ HostBlocks(s) \in [0 .. Len(s) -> DecodeState(s)]
         /\ HostBlocks(s)[0] = DecodeStart
         /\ \A i \in 1 .. Len(s) : HostBlocks(s)[i] = DecodeBlock(s, HostBlocks(s)[i - 1])
<1>. DEFINE F == [x \in DecodeState(s) |-> [b \in NonZero |-> DecodeBlock(s, x)]]
<1>1. DecodeStart \in DecodeState(s)
  BY EmptySeq DEF DecodeStart, DecodeState
<1>2. F \in [DecodeState(s) -> [NonZero -> DecodeState(s)]]
  BY DecodeType
<1>3. PICK f : IsRun(f, DecodeState(s), DecodeStart, F, s)
  <2>. HIDE DEF F
  <2>. QED
    BY <1>1, <1>2, RunExists
<1>4. ASSUME NEW i \in 1 .. Len(s)
      PROVE  f[i - 1] \in DecodeState(s) /\ f[i] = DecodeBlock(s, f[i - 1])
  <2>1. f[i - 1] \in DecodeState(s) /\ s[i] \in NonZero /\ f[i] = F[f[i - 1]][s[i]]
    BY <1>3 DEF IsRun
  <2>. QED
    BY <2>1
<1>. DEFINE e == HostBlocks(s)
<1>5. f = [i \in 0 .. Len(s) |-> IF i = 0 THEN DecodeStart ELSE DecodeBlock(s, f[i - 1])]
  BY <1>3, <1>4 DEF IsRun
<1>6. e = CHOOSE g : g = [i \in 0 .. Len(s) |-> IF i = 0 THEN DecodeStart ELSE DecodeBlock(s, g[i - 1])]
  BY DEF HostBlocks, Folding
<1>7. e = [i \in 0 .. Len(s) |-> IF i = 0 THEN DecodeStart ELSE DecodeBlock(s, e[i - 1])]
  <2>. HIDE DEF e, F
  <2>. QED
    BY <1>5, <1>6
<1>. HIDE DEF e, F
<1>8. e[0] = DecodeStart /\ \A i \in 1 .. Len(s) : e[i] = DecodeBlock(s, e[i - 1])
  BY <1>7
<1>9. \A i \in 0 .. Len(s) : e[i] = f[i]
  <2>1. \A i \in 1 .. Len(s) : e[i - 1] = f[i - 1] => e[i] = f[i]
    BY <1>4, <1>8
  <2>2. e[0] = f[0] /\ Len(s) \in Nat
    BY <1>3, <1>8 DEF IsRun
  <2>. QED
    BY <2>1, <2>2, RunsAgree
<1>10. e = f
  BY <1>5, <1>7, <1>9
<1>. QED
  BY <1>3, <1>8, <1>10 DEF e, IsRun

-----------------------------------------------------------------------------
(* cobs.c against cobs.ex: the encoders.                                    *)

LEMMA Associative ==
  \A x, y, z \in Seq(Byte) : (x \o y) \o z = x \o (y \o z)
BY ConcatAssociative

\* The hub writes a block's code into the place it left for it.
LEMMA Patched ==
  ASSUME NEW o \in Seq(Nat), NEW c \in Seq(Nat), NEW k \in Nat
  PROVE  /\ (o \o <<0>>) \o c \in Seq(Nat)
         /\ Len((o \o <<0>>) \o c) = Len(o) + 1 + Len(c)
         /\ [((o \o <<0>>) \o c) EXCEPT ![Len(o) + 1] = k] = o \o (<<k>> \o c)
<1>. DEFINE s == (o \o <<0>>) \o c
            t == o \o (<<k>> \o c)
<1>1. /\ Len(o) \in Nat /\ Len(c) \in Nat
      /\ <<0>> \in Seq(Nat) /\ Len(<<0>>) = 1 /\ <<k>> \in Seq(Nat) /\ Len(<<k>>) = 1
      /\ <<k>>[1] = k
  OBVIOUS
<1>2. /\ o \o <<0>> \in Seq(Nat) /\ Len(o \o <<0>>) = Len(o) + 1
      /\ \A i \in 1 .. Len(o) : (o \o <<0>>)[i] = o[i]
  BY <1>1, ConcatProperties
<1>3. /\ s \in Seq(Nat) /\ Len(s) = Len(o) + 1 + Len(c)
      /\ \A i \in 1 .. Len(o) : s[i] = o[i]
      /\ \A i \in 1 .. Len(c) : s[Len(o) + 1 + i] = c[i]
  BY <1>1, <1>2, ConcatProperties
<1>4. /\ <<k>> \o c \in Seq(Nat) /\ Len(<<k>> \o c) = 1 + Len(c)
      /\ (<<k>> \o c)[1] = k /\ \A i \in 1 .. Len(c) : (<<k>> \o c)[i + 1] = c[i]
  BY <1>1, ConcatProperties
<1>5. /\ t \in Seq(Nat) /\ Len(t) = Len(o) + 1 + Len(c)
      /\ \A i \in 1 .. Len(o) : t[i] = o[i]
      /\ t[Len(o) + 1] = k
      /\ \A i \in 1 .. Len(c) : t[Len(o) + 1 + i] = c[i]
  <2>1. \A i \in 1 .. Len(o) + (1 + Len(c)) :
          t[i] = IF i <= Len(o) THEN o[i] ELSE (<<k>> \o c)[i - Len(o)]
    BY <1>4, ConcatProperties
  <2>2. t \in Seq(Nat) /\ Len(t) = Len(o) + (1 + Len(c))
    BY <1>4, ConcatProperties
  <2>3. t[Len(o) + 1] = k
    BY <1>1, <1>4, <2>1
  <2>4. ASSUME NEW i \in 1 .. Len(c) PROVE t[Len(o) + 1 + i] = c[i]
    <3>1. t[Len(o) + 1 + i] = (<<k>> \o c)[i + 1]
      BY <1>1, <2>1
    <3>. QED
      BY <3>1, <1>4
  <2>. QED
    BY <1>1, <2>1, <2>2, <2>3, <2>4
<1>. HIDE DEF s, t
<1>. DEFINE p == [s EXCEPT ![Len(o) + 1] = k]
<1>6. /\ p \in Seq(Nat) /\ Len(p) = Len(s)
      /\ \A j \in 1 .. Len(s) : p[j] = IF j = Len(o) + 1 THEN k ELSE s[j]
  <2>1. Len(o) + 1 \in 1 .. Len(s)
    BY <1>1, <1>3
  <2>. QED
    BY <1>3, <2>1, ExceptSeq
<1>. HIDE DEF p
<1>7. ASSUME NEW j \in 1 .. Len(p) PROVE p[j] = t[j]
  <2>1. CASE j <= Len(o)
    BY <1>1, <1>3, <1>5, <1>6, <2>1
  <2>2. CASE j = Len(o) + 1
    BY <1>1, <1>3, <1>5, <1>6, <2>2
  <2>3. CASE j > Len(o) + 1
    <3>1. j - Len(o) - 1 \in 1 .. Len(c) /\ j = Len(o) + 1 + (j - Len(o) - 1)
      BY <1>1, <1>3, <1>6, <2>3
    <3>2. s[j] = c[j - Len(o) - 1] /\ t[j] = c[j - Len(o) - 1]
      BY <1>3, <1>5, <3>1
    <3>. QED
      BY <1>6, <2>3, <3>2, <1>1
  <2>. QED
    BY <1>1, <2>1, <2>2, <2>3
<1>8. p = t
  BY <1>3, <1>5, <1>6, <1>7, SeqEqual
<1>. QED
  BY <1>3, <1>8 DEF s, t, p

\* What the hub's encoder has when the host's has e.
Mirror(e) == [out |-> (e.out \o <<0>>) \o e.cur,
              at |-> Len(e.out) + 1, code |-> Len(e.cur) + 1]

LEMMA CloseMirrors ==
  ASSUME NEW o \in Seq(NonZero), NEW c \in Seq(NonZero), Len(c) < Full
  PROVE  Close(Mirror([out |-> o, cur |-> c])) = Mirror([out |-> o \o Block(c), cur |-> <<>>])
<1>1. o \in Seq(Nat) /\ c \in Seq(Nat) /\ Len(o) \in Nat /\ Len(c) \in Nat
  <2>1. NonZero \subseteq Nat
    BY SizeAssumption DEF NonZero, Byte
  <2>2. o \in Seq(Nat) /\ c \in Seq(Nat)
    BY <2>1, SeqMonotonic
  <2>. QED
    BY <2>2, LenProperties
<1>2. /\ (o \o <<0>>) \o c \in Seq(Nat)
      /\ Len((o \o <<0>>) \o c) = Len(o) + 1 + Len(c)
      /\ [((o \o <<0>>) \o c) EXCEPT ![Len(o) + 1] = Len(c) + 1] = o \o Block(c)
  <2>1. Len(c) + 1 \in Nat
    BY <1>1
  <2>2. /\ (o \o <<0>>) \o c \in Seq(Nat)
        /\ Len((o \o <<0>>) \o c) = Len(o) + 1 + Len(c)
        /\ [((o \o <<0>>) \o c) EXCEPT ![Len(o) + 1] = Len(c) + 1]
             = o \o (<<Len(c) + 1>> \o c)
    BY <1>1, <2>1, Patched, Zenon
  <2>. QED
    BY <2>2, Zenon DEF Block
<1>3. o \o Block(c) \in Seq(Nat) /\ Len(o \o Block(c)) = Len(o) + 1 + Len(c)
  <2>1. <<Len(c) + 1>> \in Seq(Nat) /\ Len(<<Len(c) + 1>>) = 1
    BY <1>1
  <2>2. Block(c) \in Seq(Nat) /\ Len(Block(c)) = 1 + Len(c)
    BY <1>1, <2>1, ConcatProperties DEF Block
  <2>3. o \o Block(c) \in Seq(Nat) /\ Len(o \o Block(c)) = Len(o) + Len(Block(c))
    BY <1>1, <2>2, ConcatProperties
  <2>. QED
    BY <1>1, <2>2, <2>3
<1>4. Append(o \o Block(c), 0) = ((o \o Block(c)) \o <<0>>) \o <<>>
  <2>1. (o \o Block(c)) \o <<0>> \in Seq(Nat)
    BY <1>3
  <2>2. Append(o \o Block(c), 0) = (o \o Block(c)) \o <<0>>
    BY <1>3, AppendIsConcat
  <2>. QED
    BY <2>1, <2>2, ConcatEmptySeq
<1>5. Close(Mirror([out |-> o, cur |-> c]))
        = [out |-> Append([((o \o <<0>>) \o c) EXCEPT ![Len(o) + 1] = Len(c) + 1], 0),
           at |-> Len((o \o <<0>>) \o c) + 1, code |-> 1]
  BY DEF Close, Mirror
<1>6. Mirror([out |-> o \o Block(c), cur |-> <<>>])
        = [out |-> ((o \o Block(c)) \o <<0>>) \o <<>>,
           at |-> Len(o \o Block(c)) + 1, code |-> 1]
  BY EmptySeq DEF Mirror
<1>. QED
  BY <1>2, <1>3, <1>4, <1>5, <1>6

LEMMA StuffMirrors ==
  ASSUME NEW e \in EncodeState, NEW b \in Byte
  PROVE  StuffByte(Mirror(e), b) = Mirror(EncodeByte(e, b))
<1>1. /\ e.out \in Seq(NonZero) /\ e.cur \in Seq(NonZero)
      /\ Len(e.cur) \in Nat /\ Len(e.cur) <= Full - 2 /\ Full \in Nat
      /\ Len(e.cur) < Full /\ e = [out |-> e.out, cur |-> e.cur]
  BY SizeAssumption DEF EncodeState
<1>2. CASE b = 0
  <2>1. StuffByte(Mirror(e), b) = Close(Mirror(e))
    BY <1>2 DEF StuffByte
  <2>2. EncodeByte(e, b) = [out |-> e.out \o Block(e.cur), cur |-> <<>>]
    BY <1>2 DEF EncodeByte
  <2>3. Close(Mirror([out |-> e.out, cur |-> e.cur]))
          = Mirror([out |-> e.out \o Block(e.cur), cur |-> <<>>])
    BY <1>1, CloseMirrors
  <2>. QED
    BY <1>1, <2>1, <2>2, <2>3
<1>3. CASE b # 0
  <2>. DEFINE c == Append(e.cur, b)
              put == [out |-> Append(Mirror(e).out, b), at |-> Mirror(e).at,
                      code |-> Mirror(e).code + 1]
  <2>1. c \in Seq(NonZero) /\ Len(c) = Len(e.cur) + 1
    BY <1>1, <1>3 DEF NonZero
  <2>2. put = Mirror([out |-> e.out, cur |-> c])
    <3>1. Append((e.out \o <<0>>) \o e.cur, b) = (e.out \o <<0>>) \o c
      <4>1. 0 \in Byte /\ e.out \in Seq(Byte) /\ e.cur \in Seq(Byte)
        BY <1>1, SizeAssumption DEF NonZero, Byte
      <4>2. e.out \o <<0>> \in Seq(Byte)
        BY <4>1
      <4>. HIDE DEF c
      <4>3. c = e.cur \o <<b>> /\ <<b>> \in Seq(Byte)
        BY <4>1, AppendIsConcat DEF c
      <4>4. (e.out \o <<0>>) \o e.cur \in Seq(Byte)
        BY <4>1, <4>2
      <4>5. Append((e.out \o <<0>>) \o e.cur, b) = ((e.out \o <<0>>) \o e.cur) \o <<b>>
        BY <4>4, AppendIsConcat
      <4>6. ((e.out \o <<0>>) \o e.cur) \o <<b>> = (e.out \o <<0>>) \o (e.cur \o <<b>>)
        BY <4>1, <4>2, <4>3, Associative
      <4>. QED
        BY <4>3, <4>5, <4>6
    <3>2. Mirror(e).out = (e.out \o <<0>>) \o e.cur /\ Mirror(e).at = Len(e.out) + 1
          /\ Mirror(e).code = Len(e.cur) + 1
      BY DEF Mirror
    <3>3. Mirror([out |-> e.out, cur |-> c]) = [out |-> (e.out \o <<0>>) \o c,
             at |-> Len(e.out) + 1, code |-> Len(c) + 1]
      BY DEF Mirror
    <3>. QED
      BY <2>1, <3>1, <3>2, <3>3
  <2>3. put.code = Len(e.cur) + 2
    BY <1>1 DEF Mirror
  <2>4. StuffByte(Mirror(e), b) = IF put.code = Full THEN Close(put) ELSE put
    BY <1>3 DEF StuffByte
  <2>5. EncodeByte(e, b) = IF Len(e.cur) = Full - 2
                           THEN [out |-> e.out \o Block(c), cur |-> <<>>]
                           ELSE [out |-> e.out, cur |-> c]
    <3>1. [e EXCEPT !.cur = c] = [out |-> e.out, cur |-> c]
      <4>1. e \in [out : Seq(NonZero), cur : Seq(NonZero)]
        BY DEF EncodeState
      <4>. HIDE DEF c
      <4>. QED
        BY <4>1
    <3>2. EncodeByte(e, b) = IF Len(e.cur) = Full - 2
                             THEN [out |-> e.out \o Block(c), cur |-> <<>>]
                             ELSE [e EXCEPT !.cur = c]
      BY <1>3 DEF EncodeByte
    <3>. QED
      BY <3>1, <3>2
  <2>. HIDE DEF put, c
  <2>6. CASE Len(e.cur) = Full - 2
    <3>1. Len(c) < Full /\ put.code = Full
      BY <1>1, <2>1, <2>3, <2>6
    <3>2. Close(put) = Mirror([out |-> e.out \o Block(c), cur |-> <<>>])
      BY <1>1, <2>1, <2>2, <3>1, CloseMirrors
    <3>. QED
      BY <2>4, <2>5, <2>6, <3>1, <3>2
  <2>7. CASE Len(e.cur) # Full - 2
    BY <1>1, <2>2, <2>3, <2>4, <2>5, <2>7
  <2>. QED
    BY <2>6, <2>7
<1>. QED
  BY <1>2, <1>3

LEMMA EncodersMirror ==
  ASSUME NEW s \in Seq(Byte), NEW i \in 0 .. Len(s)
  PROVE  Stuffing(s)[i] = Mirror(Encoding(s)[i])
<1>. DEFINE P == {j \in 0 .. Len(s) : Stuffing(s)[j] = Mirror(Encoding(s)[j])}
<1>1. 0 \in P
  <2>1. Stuffing(s)[0] = StuffStart /\ Encoding(s)[0] = EncodeStart
    BY StuffRun, EncodeRun
  <2>2. Mirror(EncodeStart) = StuffStart
    <3>1. (<<>> \o <<0>>) \o <<>> = <<0>> /\ Len(<<>>) = 0
      <4>1. <<0>> \in Seq(Nat)
        OBVIOUS
      <4>. QED
        BY <4>1, ConcatEmptySeq, EmptySeq
    <3>. QED
      BY <3>1 DEF Mirror, EncodeStart, StuffStart
  <2>. QED
    BY <2>1, <2>2
<1>2. ASSUME NEW j \in 1 .. Len(s), j - 1 \in P PROVE j \in P
  <2>1. s[j] \in Byte /\ Encoding(s)[j - 1] \in EncodeState /\ j \in 0 .. Len(s)
    <3>1. Encoding(s) \in [0 .. Len(s) -> EncodeState] /\ j - 1 \in 0 .. Len(s)
      BY EncodeRun
    <3>. QED
      BY <3>1
  <2>2. /\ Stuffing(s)[j] = StuffByte(Stuffing(s)[j - 1], s[j])
        /\ Encoding(s)[j] = EncodeByte(Encoding(s)[j - 1], s[j])
    BY StuffRun, EncodeRun
  <2>. QED
    BY <1>2, <2>1, <2>2, StuffMirrors
<1>. HIDE DEF P
<1>3. 0 .. Len(s) \subseteq P
  <2>1. Len(s) \in Nat
    OBVIOUS
  <2>. QED
    BY <1>1, <1>2, <2>1, Along
<1>. QED
  BY <1>3 DEF P

\* A block that is closed because it is full costs one byte more than it holds.
Spent(e) == Len(e.out) + Len(e.cur)

LEMMA EncodeSpends ==
  ASSUME NEW e \in EncodeState, NEW b \in Byte
  PROVE  \/ /\ Spent(EncodeByte(e, b)) = Spent(e) + 1
            /\ Len(EncodeByte(e, b).cur) \in {0, Len(e.cur) + 1}
         \/ /\ Spent(EncodeByte(e, b)) = Spent(e) + 2
            /\ Len(EncodeByte(e, b).cur) = 0 /\ Len(e.cur) = Full - 2
<1>. DEFINE o == e.out
            c == e.cur
            d == Append(e.cur, b)
<1>1. /\ o \in Seq(NonZero) /\ c \in Seq(NonZero) /\ Len(c) <= Full - 2
      /\ Full \in Nat /\ Spent(e) = Len(o) + Len(c)
      /\ EncodeByte(e, b) = IF b = 0 THEN [out |-> o \o Block(c), cur |-> <<>>]
                            ELSE IF Len(c) = Full - 2
                              THEN [out |-> o \o Block(d), cur |-> <<>>]
                            ELSE [out |-> o, cur |-> d]
  <2>1. e \in [out : Seq(NonZero), cur : Seq(NonZero)] /\ Len(e.cur) <= Full - 2
    BY DEF EncodeState
  <2>2. [e EXCEPT !.cur = d] = [out |-> o, cur |-> d]
    <3>. HIDE DEF d
    <3>. QED
      BY <2>1
  <2>. QED
    BY <2>1, <2>2, SizeAssumption DEF EncodeByte, Spent
<1>2. b # 0 => d \in Seq(NonZero) /\ Len(d) = Len(c) + 1
  BY <1>1 DEF NonZero
<1>. HIDE DEF o, c, d
<1>3. Len(o) \in Nat /\ Len(c) \in Nat
  BY <1>1
<1>4. ASSUME NEW x \in Seq(NonZero), Len(x) < Full
      PROVE  Len(o \o Block(x)) = Len(o) + Len(x) + 1
  <2>1. Block(x) \in Seq(NonZero) /\ Len(Block(x)) = Len(x) + 1
    BY <1>4, BlockType
  <2>2. Len(o \o Block(x)) = Len(o) + Len(Block(x))
    BY <1>1, <2>1, ConcatProperties
  <2>. QED
    BY <1>3, <2>1, <2>2
<1>5. CASE b = 0
  <2>1. EncodeByte(e, b) = [out |-> o \o Block(c), cur |-> <<>>]
    BY <1>1, <1>5
  <2>2. Len(o \o Block(c)) = Len(o) + Len(c) + 1
    BY <1>1, <1>3, <1>4
  <2>3. Spent(EncodeByte(e, b)) = Len(o) + Len(c) + 1 /\ Len(EncodeByte(e, b).cur) = 0
    BY <1>3, <2>1, <2>2, EmptySeq DEF Spent
  <2>. QED
    BY <1>1, <2>3
<1>6. CASE b # 0 /\ Len(c) = Full - 2
  <2>1. EncodeByte(e, b) = [out |-> o \o Block(d), cur |-> <<>>]
    BY <1>1, <1>6
  <2>2. Len(o \o Block(d)) = Len(o) + (Len(c) + 1) + 1
    <3>1. d \in Seq(NonZero) /\ Len(d) = Len(c) + 1 /\ Len(d) < Full
      BY <1>1, <1>2, <1>3, <1>6
    <3>. QED
      BY <1>3, <1>4, <3>1
  <2>3. Spent(EncodeByte(e, b)) = Len(o) + Len(c) + 2 /\ Len(EncodeByte(e, b).cur) = 0
    BY <1>3, <2>1, <2>2, EmptySeq DEF Spent
  <2>. QED
    BY <1>1, <1>3, <1>6, <2>3 DEF c
<1>7. CASE b # 0 /\ Len(c) # Full - 2
  <2>1. EncodeByte(e, b) = [out |-> o, cur |-> d]
    BY <1>1, <1>7
  <2>2. Spent(EncodeByte(e, b)) = Len(o) + Len(c) + 1 /\ Len(EncodeByte(e, b).cur) = Len(c) + 1
    BY <1>2, <1>3, <1>7, <2>1 DEF Spent
  <2>. QED
    BY <1>1, <2>2 DEF c
<1>. QED
  BY <1>5, <1>6, <1>7

\* Each such block stands for Full - 1 bytes of the data.
Within(e, i) ==
    /\ Spent(e) - i \in Nat
    /\ (Spent(e) - i) * (Full - 1) + Len(e.cur) <= i

LEMMA EncodeWithin ==
  ASSUME NEW e \in EncodeState, NEW b \in Byte, NEW i \in Nat, Within(e, i)
  PROVE  Within(EncodeByte(e, b), i + 1)
<1>. DEFINE k == Full - 1
            x == Spent(e) - i
            l == Len(e.cur)
            s == Spent(EncodeByte(e, b))
            m == Len(EncodeByte(e, b).cur)
<1>1. x \in Nat /\ k \in Nat /\ x * k + l <= i
  BY SizeAssumption DEF Within
<1>2. l \in Nat /\ Spent(e) = x + i
  <2>1. e.out \in Seq(NonZero) /\ e.cur \in Seq(NonZero)
    BY DEF EncodeState
  <2>. DEFINE o == e.out
  <2>2. Len(o) \in Nat /\ l \in Nat
    BY <2>1, LenProperties
  <2>3. Spent(e) = Len(o) + l
    BY DEF Spent
  <2>. HIDE DEF o, l
  <2>. QED
    BY <2>2, <2>3
<1>3. \/ s = Spent(e) + 1 /\ m \in {0, l + 1}
      \/ s = Spent(e) + 2 /\ m = 0 /\ l = k - 1
  <2>1. Full - 2 = k - 1
    BY SizeAssumption
  <2>. QED
    BY <2>1, EncodeSpends
<1>4. Within(EncodeByte(e, b), i + 1) <=> s - (i + 1) \in Nat /\ (s - (i + 1)) * k + m <= i + 1
  BY DEF Within
<1>. HIDE DEF k, x, l, s, m
<1>5. x * k \in Nat /\ (x + 1) * k = x * k + k
  BY <1>1
<1>6. CASE s = Spent(e) + 1 /\ m \in {0, l + 1}
  <2>1. s - (i + 1) = x
    BY <1>1, <1>2, <1>6
  <2>2. x * k + m <= i + 1
    BY <1>1, <1>2, <1>5, <1>6
  <2>. QED
    BY <1>1, <1>4, <2>1, <2>2
<1>7. CASE s = Spent(e) + 2 /\ m = 0 /\ l = k - 1
  <2>1. s - (i + 1) = x + 1
    BY <1>1, <1>2, <1>7
  <2>2. (x + 1) * k + m <= i + 1
    BY <1>1, <1>2, <1>5, <1>7
  <2>. QED
    BY <1>1, <1>4, <2>1, <2>2
<1>. QED
  BY <1>3, <1>6, <1>7

LEMMA EncodingWithin ==
  ASSUME NEW s \in Seq(Byte)
  PROVE  Within(Encoding(s)[Len(s)], Len(s)) /\ Encoding(s)[Len(s)] \in EncodeState
<1>. DEFINE P == {j \in 0 .. Len(s) : Within(Encoding(s)[j], j)}
<1>0. /\ Len(s) \in Nat /\ Encoding(s) \in [0 .. Len(s) -> EncodeState]
      /\ Encoding(s)[0] = EncodeStart
  BY EncodeRun
<1>1. 0 \in P
  <2>1. Spent(EncodeStart) = 0 /\ Len(EncodeStart.cur) = 0
    BY EmptySeq DEF EncodeStart, Spent
  <2>2. 0 * (Full - 1) = 0
    BY SizeAssumption
  <2>3. Within(EncodeStart, 0)
    BY <2>1, <2>2 DEF Within
  <2>. QED
    BY <1>0, <2>3
<1>2. ASSUME NEW j \in 1 .. Len(s), j - 1 \in P PROVE j \in P
  <2>1. s[j] \in Byte /\ Encoding(s)[j - 1] \in EncodeState /\ j - 1 \in Nat
    BY <1>0
  <2>2. Encoding(s)[j] = EncodeByte(Encoding(s)[j - 1], s[j])
    BY EncodeRun
  <2>3. Within(Encoding(s)[j], (j - 1) + 1)
    BY <1>2, <2>1, <2>2, EncodeWithin
  <2>. QED
    BY <2>1, <2>3
<1>. HIDE DEF P
<1>3. 0 .. Len(s) \subseteq P
  BY <1>0, <1>1, <1>2, Along
<1>4. Len(s) \in P /\ Len(s) \in 0 .. Len(s)
  BY <1>0, <1>3
<1>. QED
  BY <1>0, <1>4 DEF P

LEMMA Quotients ==
  ASSUME NEW x \in Nat, NEW k \in Nat \ {0}, NEW n \in Nat, x * k <= n
  PROVE  x <= n \div k
<1>. DEFINE q == n \div k
<1>1. q \in Int /\ n < (q + 1) * k
  OBVIOUS
<1>. HIDE DEF q
<1>2. ASSUME q + 1 <= x PROVE FALSE
  <2>1. (q + 1) * k <= x * k
    BY <1>1, <1>2
  <2>. QED
    BY <1>1, <2>1
<1>. QED
  BY <1>1, <1>2 DEF q

\* One frame, without a zero, and no longer than frame.h has room for.
LEMMA HostEncodes ==
  ASSUME NEW s \in Seq(Byte)
  PROVE  /\ HostEncode(s) \in Seq(NonZero)
         /\ Len(HostEncode(s)) \in 1 .. Len(s) + (Len(s) \div (Full - 1)) + 1
<1>. DEFINE e == Encoding(s)[Len(s)]
            o == e.out
            c == e.cur
            n == Len(s)
            x == Spent(e) - n
            k == Full - 1
<1>1. HostEncode(s) = o \o Block(c)
  BY DEF HostEncode, Folded, Encoding
<1>2. /\ x \in Nat /\ x * k + Len(c) <= n /\ n \in Nat /\ k \in Nat \ {0}
      /\ e \in EncodeState
  BY EncodingWithin, SizeAssumption DEF Within
<1>. HIDE DEF e
<1>3. /\ o \in Seq(NonZero) /\ c \in Seq(NonZero) /\ Len(c) < Full
      /\ x = Len(o) + Len(c) - n
  <2>1. o \in Seq(NonZero) /\ c \in Seq(NonZero) /\ Len(c) <= Full - 2
    BY <1>2 DEF EncodeState
  <2>2. Len(c) < Full
    BY <2>1, SizeAssumption
  <2>. QED
    BY <2>1, <2>2 DEF Spent
<1>. HIDE DEF o, c, n, x, k
<1>4. Block(c) \in Seq(NonZero) /\ Len(Block(c)) = Len(c) + 1
  BY <1>3, BlockType
<1>5. /\ HostEncode(s) \in Seq(NonZero)
      /\ Len(HostEncode(s)) = Len(o) + (Len(c) + 1)
      /\ Len(o) \in Nat /\ Len(c) \in Nat
  <2>1. o \o Block(c) \in Seq(NonZero) /\ Len(o \o Block(c)) = Len(o) + Len(Block(c))
    BY <1>3, <1>4, ConcatProperties
  <2>2. Len(o) \in Nat /\ Len(c) \in Nat
    BY <1>3
  <2>. QED
    BY <1>1, <1>4, <2>1, <2>2
<1>6. x * k \in Nat /\ x * k <= n
  <2>1. x * k \in Nat
    BY <1>2
  <2>. QED
    BY <1>2, <1>5, <2>1
<1>7. x <= n \div k /\ n \div k \in Int
  BY <1>2, <1>6, Quotients
<1>8. Len(HostEncode(s)) = n + x + 1
  BY <1>2, <1>3, <1>5
<1>9. Len(HostEncode(s)) \in 1 .. n + (n \div k) + 1
  BY <1>2, <1>7, <1>8
<1>. USE DEF n, k
<1>10. Len(HostEncode(s)) \in 1 .. Len(s) + (Len(s) \div (Full - 1)) + 1
  BY ONLY <1>9
<1>. QED
  BY ONLY <1>5, <1>10

LEMMA HubEncodes ==
  ASSUME NEW s \in Seq(Byte), NEW cap \in Nat
  PROVE  HubEncode(s, cap) = IF Len(HostEncode(s)) > cap THEN <<>> ELSE HostEncode(s)
<1>. DEFINE e == Encoding(s)[Len(s)]
            o == e.out
            c == e.cur
            m == Stuffing(s)[Len(s)]
            h == (o \o <<0>>) \o c
<1>1. HostEncode(s) = o \o Block(c)
  BY DEF HostEncode, Folded, Encoding
<1>2. HubEncode(s, cap) = IF Len(m.out) > cap THEN <<>> ELSE [m.out EXCEPT ![m.at] = m.code]
  BY DEF HubEncode, Folded, Stuffing
<1>3. m = Mirror(e) /\ e \in EncodeState
  <2>1. Len(s) \in 0 .. Len(s)
    BY LenProperties
  <2>. QED
    BY <2>1, EncodersMirror, EncodingWithin
<1>4. m.out = h /\ m.at = Len(o) + 1 /\ m.code = Len(c) + 1
  <2>. HIDE DEF e, m
  <2>. QED
    BY <1>3 DEF Mirror
<1>5. o \in Seq(Nat) /\ c \in Seq(Nat)
  <2>. HIDE DEF e, m
  <2>1. NonZero \subseteq Nat
    BY SizeAssumption DEF NonZero, Byte
  <2>2. o \in Seq(NonZero) /\ c \in Seq(NonZero)
    BY <1>3 DEF EncodeState
  <2>. QED
    BY <2>1, <2>2, SeqMonotonic
<1>. HIDE DEF e, m, o, c
<1>6. Len(o) \in Nat /\ Len(c) \in Nat /\ Len(c) + 1 \in Nat
  BY <1>5
<1>7. Len(h) = Len(o) + 1 + Len(c) /\ [h EXCEPT ![Len(o) + 1] = Len(c) + 1] = o \o Block(c)
  BY <1>5, <1>6, Patched DEF Block
<1>8. Len(o \o Block(c)) = Len(o) + 1 + Len(c)
  <2>1. <<Len(c) + 1>> \in Seq(Nat) /\ Len(<<Len(c) + 1>>) = 1
    BY <1>6
  <2>2. Block(c) \in Seq(Nat) /\ Len(Block(c)) = 1 + Len(c)
    BY <1>5, <2>1, ConcatProperties DEF Block
  <2>3. Len(o \o Block(c)) = Len(o) + Len(Block(c))
    BY <1>5, <2>2, ConcatProperties
  <2>. QED
    BY <1>6, <2>2, <2>3
<1>. HIDE DEF h
<1>. QED
  BY <1>1, <1>2, <1>4, <1>7, <1>8

-----------------------------------------------------------------------------
(* The decoders: the host's takes a block at a time, the hub's a byte.      *)

Ended(run) == Folded(UnstuffByte, UnstuffStart, run)

\* What has been decoded when the next block begins.
Plain(d) == IF d.implied THEN d.out ELSE Append(d.out, 0)

LEMMA UnstuffTypes ==
  ASSUME NEW run \in Seq(NonZero), NEW i \in 0 .. Len(run)
  PROVE  /\ Unstuffing(run)[i] \in UnstuffState
         /\ Plain(Unstuffing(run)[i]) \in Seq(Byte)
<1>1. Unstuffing(run)[i] \in UnstuffState
  BY UnstuffRun
<1>2. ASSUME NEW d \in UnstuffState PROVE Plain(d) \in Seq(Byte)
  <2>1. d.out \in Seq(Byte) /\ 0 \in Byte
    BY SizeAssumption DEF UnstuffState, Byte
  <2>2. Append(d.out, 0) \in Seq(Byte)
    BY <2>1
  <2>. QED
    BY <2>1, <2>2 DEF Plain
<1>. QED
  BY <1>1, <1>2

LEMMA SamePrefix ==
  ASSUME NEW s \in Seq(NonZero), NEW t \in Seq(NonZero)
  PROVE  /\ Unstuffing(s \o t)[Len(s)] = Ended(s)
         /\ Ended(s \o t) = Unstuffing(s \o t)[Len(s) + Len(t)]
<1>. DEFINE f == Unstuffing(s \o t)
            g == Unstuffing(s)
<1>1. /\ s \o t \in Seq(NonZero) /\ Len(s \o t) = Len(s) + Len(t)
      /\ Len(s) \in Nat /\ Len(t) \in Nat
      /\ \A i \in 1 .. Len(s) + Len(t) : (s \o t)[i] = IF i <= Len(s) THEN s[i] ELSE t[i - Len(s)]
  BY ConcatProperties, LenProperties
<1>2. /\ f[0] = UnstuffStart /\ g[0] = UnstuffStart
      /\ \A i \in 1 .. Len(s \o t) : f[i] = UnstuffByte(f[i - 1], (s \o t)[i])
      /\ \A i \in 1 .. Len(s) : g[i] = UnstuffByte(g[i - 1], s[i])
  BY <1>1, UnstuffRun
<1>. HIDE DEF f, g
<1>3. ASSUME NEW i \in 1 .. Len(s), f[i - 1] = g[i - 1] PROVE f[i] = g[i]
  <2>1. i \in 1 .. Len(s \o t) /\ (s \o t)[i] = s[i]
    BY <1>1
  <2>. QED
    BY <1>2, <1>3, <2>1
<1>4. \A i \in 0 .. Len(s) : f[i] = g[i]
  <2>1. f[0] = g[0] /\ Len(s) \in Nat
    BY <1>1, <1>2
  <2>. QED
    BY <1>3, <2>1, RunsAgree
<1>5. f[Len(s)] = g[Len(s)]
  BY <1>1, <1>4
<1>. QED
  BY <1>1, <1>5 DEF f, g, Ended, Folded, Unstuffing

\* The hub's decoder within a block.
LEMMA BlockFed ==
  ASSUME NEW run \in Seq(NonZero), NEW p \in 0 .. Len(run) - 1,
         Unstuffing(run)[p].left = 0,
         NEW m \in Nat, m < run[p + 1], p + 1 + m <= Len(run)
  PROVE  Unstuffing(run)[p + 1 + m]
           = [out |-> Plain(Unstuffing(run)[p]) \o SubSeq(run, p + 2, p + 1 + m),
              left |-> run[p + 1] - 1 - m, implied |-> run[p + 1] = Full]
<1>. DEFINE u == Unstuffing(run)
            z == Plain(u[p])
            code == run[p + 1]
            Fed(j) == [out |-> z \o SubSeq(run, p + 2, p + 1 + j),
                       left |-> code - 1 - j, implied |-> code = Full]
            P == {j \in 0 .. m : u[p + 1 + j] = Fed(j)}
<1>1. /\ Len(run) \in Nat /\ p \in Nat /\ p + 1 \in 1 .. Len(run)
      /\ code \in NonZero /\ code \in Nat /\ m < code
  <2>1. Len(run) \in Nat /\ p + 1 \in 1 .. Len(run)
    OBVIOUS
  <2>2. code \in NonZero
    BY <2>1
  <2>. QED
    BY <2>1, <2>2, SizeAssumption DEF NonZero, Byte
<1>2. z \in Seq(Byte) /\ u[p] \in UnstuffState /\ u[p].left = 0
  BY <1>1, UnstuffTypes
<1>3. \A i \in 1 .. Len(run) : u[i] = UnstuffByte(u[i - 1], run[i])
  BY UnstuffRun
<1>4. ASSUME NEW j \in 0 .. m
      PROVE  SubSeq(run, p + 2, p + 1 + j) \in Seq(Byte)
  <2>1. \A i \in p + 2 .. p + 1 + j : run[i] \in Byte
    <3>1. ASSUME NEW i \in p + 2 .. p + 1 + j PROVE i \in 1 .. Len(run)
      BY <1>1
    <3>. QED
      BY <3>1 DEF NonZero
  <2>. QED
    BY <1>1, <2>1, SubSeqProperties
<1>5. 0 \in P
  <2>1. u[p + 1] = UnstuffByte(u[p], code)
    BY <1>1, <1>3
  <2>2. UnstuffByte(u[p], code) = [out |-> z, left |-> code - 1, implied |-> code = Full]
    <3>1. ~(u[p].left > 0)
      BY <1>2
    <3>. QED
      BY <3>1 DEF UnstuffByte, Plain
  <2>3. z \o SubSeq(run, p + 2, p + 1 + 0) = z
    <3>1. SubSeq(run, p + 2, p + 1 + 0) = <<>>
      BY <1>1, SubSeqEmpty
    <3>. QED
      BY <1>2, <3>1, ConcatEmptySeq
  <2>. HIDE DEF u, z, code
  <2>4. u[p + 1 + 0] = u[p + 1] /\ code - 1 - 0 = code - 1
    BY <1>1
  <2>. QED
    BY <2>1, <2>2, <2>3, <2>4
<1>6. ASSUME NEW j \in 1 .. m, j - 1 \in P PROVE j \in P
  <2>. DEFINE a == SubSeq(run, p + 2, p + 1 + (j - 1))
              b == run[p + 1 + j]
  <2>1. /\ p + 1 + j \in 1 .. Len(run) /\ (p + 1 + j) - 1 = p + 1 + (j - 1)
        /\ p + 2 \in 1 .. Len(run) /\ p + 1 + j \in p + 2 .. Len(run)
        /\ j - 1 \in 0 .. m /\ j \in 0 .. m
    <3>1. j \in Nat /\ j >= 1 /\ j <= m /\ Len(run) \in Nat /\ p \in Nat
          /\ p + 1 + m <= Len(run)
      BY <1>1
    <3>. QED
      BY ONLY <3>1
  <2>2. u[p + 1 + j] = UnstuffByte(u[p + 1 + (j - 1)], b)
    BY <1>3, <2>1
  <2>3. u[p + 1 + (j - 1)] = [out |-> z \o a, left |-> code - 1 - (j - 1), implied |-> code = Full]
    BY <1>6
  <2>4. code - 1 - (j - 1) > 0 /\ code - 1 - (j - 1) - 1 = code - 1 - j
    BY <1>1
  <2>5. SubSeq(run, p + 2, p + 1 + j) = a \o <<b>>
    <3>1. SubSeq(run, p + 2, p + 1 + j) = SubSeq(run, p + 2, (p + 1 + j) - 1) \o <<b>>
      BY <2>1, SubSeqRecursiveSecond
    <3>. QED
      BY <2>1, <3>1
  <2>6. b \in Byte /\ a \in Seq(Byte)
    BY <1>4, <2>1 DEF NonZero
  <2>. HIDE DEF u, z, code, a, b
  <2>7. Append(z \o a, b) = z \o (a \o <<b>>)
    <3>1. z \o a \in Seq(Byte) /\ <<b>> \in Seq(Byte)
      BY <1>2, <2>6
    <3>2. Append(z \o a, b) = (z \o a) \o <<b>>
      BY <2>6, <3>1, AppendIsConcat
    <3>. QED
      BY <1>2, <2>6, <3>1, <3>2, Associative
  <2>8. UnstuffByte(u[p + 1 + (j - 1)], b)
          = [out |-> Append(z \o a, b), left |-> code - 1 - (j - 1) - 1, implied |-> code = Full]
    BY <2>3, <2>4 DEF UnstuffByte
  <2>9. u[p + 1 + j] = Fed(j)
    BY <2>2, <2>4, <2>5, <2>7, <2>8
  <2>. QED
    BY <2>1, <2>9
<1>. HIDE DEF P
<1>7. m \in P
  <2>1. 0 .. m \subseteq P
    BY <1>5, <1>6, Along
  <2>. QED
    BY <2>1
<1>. QED
  BY <1>7 DEF P

\* Where the host's decoder is after some blocks, the hub's is after their bytes.
InStep(run, d) ==
    IF d.cut THEN Ended(run).left > 0
    ELSE Unstuffing(run)[d.at - 1] = [out |-> d.out, left |-> 0, implied |-> d.implied]

LEMMA DecodesCut ==
  ASSUME NEW run, NEW d, ~d.cut, ~(d.at > Len(run)), (d.at + run[d.at]) - 1 > Len(run)
  PROVE  DecodeBlock(run, d) = [d EXCEPT !.cut = TRUE]
BY Zenon DEF DecodeBlock

LEMMA DecodesBlock ==
  ASSUME NEW run, NEW d, ~d.cut, ~(d.at > Len(run)), ~((d.at + run[d.at]) - 1 > Len(run))
  PROVE  DecodeBlock(run, d)
           = [at |-> d.at + run[d.at], cut |-> FALSE, implied |-> run[d.at] = Full,
              out |-> Plain(d) \o SubSeq(run, d.at + 1, (d.at + run[d.at]) - 1)]
BY Zenon DEF DecodeBlock, Plain

LEMMA BlockInStep ==
  ASSUME NEW run \in Seq(NonZero), NEW d \in DecodeState(run), InStep(run, d)
  PROVE  InStep(run, DecodeBlock(run, d))
<1>. DEFINE f == DecodeBlock(run, d)
            a == d.at
            code == run[a]
            n == Len(run)
            u == Unstuffing(run)[a - 1]
<1>1. a \in 1 .. n + 1 /\ n \in Nat /\ d.out \in Seq(Byte) /\ d.implied \in BOOLEAN
  BY DEF DecodeState
<1>2. CASE d.cut \/ a > n
  BY <1>2 DEF DecodeBlock
<1>3. CASE ~d.cut /\ ~(a > n)
  <2>1. a \in 1 .. n /\ a - 1 \in 0 .. n - 1 /\ (a - 1) + 1 = a /\ (a - 1) + 2 = a + 1
    BY <1>1, <1>3
  <2>2. code \in Nat /\ code >= 1
    <3>1. code \in NonZero
      BY <2>1
    <3>. QED
      BY <3>1, SizeAssumption DEF NonZero, Byte
  <2>3. u = [out |-> d.out, left |-> 0, implied |-> d.implied]
    BY <1>3 DEF InStep
  <2>4. u.left = 0 /\ Plain(u) = Plain(d)
    <3>. HIDE DEF u
    <3>. QED
      BY <2>3 DEF Plain
  <2>5. ASSUME NEW m \in Nat, m < code, a + m <= n
        PROVE  Unstuffing(run)[a + m]
                 = [out |-> Plain(u) \o SubSeq(run, a + 1, a + m),
                    left |-> code - 1 - m, implied |-> code = Full]
    <3>. DEFINE p == a - 1
    <3>1. /\ p \in 0 .. Len(run) - 1 /\ Unstuffing(run)[p].left = 0
          /\ m < run[p + 1] /\ p + 1 + m <= Len(run) /\ p + 1 = a /\ p + 2 = a + 1
      BY <2>1, <2>4, <2>5
    <3>. HIDE DEF p
    <3>2. Unstuffing(run)[p + 1 + m]
            = [out |-> Plain(Unstuffing(run)[p]) \o SubSeq(run, p + 2, p + 1 + m),
               left |-> run[p + 1] - 1 - m, implied |-> run[p + 1] = Full]
      BY <3>1, BlockFed
    <3>. QED
      BY <3>1, <3>2 DEF p
  <2>6. CASE (a + code) - 1 > n
    <3>1. f.cut
      <4>1. f = [d EXCEPT !.cut = TRUE]
        BY <1>3, <2>6, DecodesCut
      <4>. QED
        BY <4>1 DEF DecodeState
    <3>2. n - a \in Nat /\ n - a < code /\ a + (n - a) = n /\ code - 1 - (n - a) > 0
      <4>. HIDE DEF a, code, n
      <4>. QED
        BY <1>1, <2>1, <2>2, <2>6
    <3>3. Unstuffing(run)[n].left = code - 1 - (n - a)
      <4>1. Unstuffing(run)[a + (n - a)]
              = [out |-> Plain(u) \o SubSeq(run, a + 1, a + (n - a)),
                 left |-> code - 1 - (n - a), implied |-> code = Full]
        <5>. DEFINE m == n - a
        <5>1. m \in Nat /\ m < code /\ a + m <= n
          BY <1>1, <3>2
        <5>. HIDE DEF a, code, n, u, m
        <5>2. Unstuffing(run)[a + m]
                = [out |-> Plain(u) \o SubSeq(run, a + 1, a + m),
                   left |-> code - 1 - m, implied |-> code = Full]
          BY <2>5, <5>1
        <5>. QED
          BY <5>2 DEF m
      <4>. QED
        BY <3>2, <4>1
    <3>4. Ended(run).left > 0
      BY <3>2, <3>3 DEF Ended, Folded, Unstuffing
    <3>. QED
      BY <3>1, <3>4 DEF InStep
  <2>7. CASE ~((a + code) - 1 > n)
    <3>1. f = [at |-> a + code, cut |-> FALSE, implied |-> code = Full,
               out |-> Plain(u) \o SubSeq(run, a + 1, (a + code) - 1)]
      <4>1. f = [at |-> a + code, cut |-> FALSE, implied |-> code = Full,
                 out |-> Plain(d) \o SubSeq(run, a + 1, (a + code) - 1)]
        BY <1>3, <2>7, DecodesBlock
      <4>. HIDE DEF a, f, code, u
      <4>. QED
        BY <2>4, <4>1
    <3>2. /\ code - 1 \in Nat /\ code - 1 < code /\ a + (code - 1) = (a + code) - 1
          /\ a + (code - 1) <= n /\ code - 1 - (code - 1) = 0
      <4>. HIDE DEF a, f, code, u, n
      <4>. QED
        BY <1>1, <2>1, <2>2, <2>7
    <3>3. Unstuffing(run)[a + (code - 1)]
            = [out |-> Plain(u) \o SubSeq(run, a + 1, a + (code - 1)),
               left |-> code - 1 - (code - 1), implied |-> code = Full]
      BY <2>5, <3>2
    <3>. HIDE DEF f, u, code, a, n
    <3>4. ~f.cut /\ f.at - 1 = a + (code - 1) /\ f.implied = (code = Full)
          /\ f.out = Plain(u) \o SubSeq(run, a + 1, a + (code - 1))
      <4>1. (a + code) - 1 = a + (code - 1)
        BY <2>1, <2>2
      <4>. QED
        BY <3>1, <4>1
    <3>. QED
      BY <3>2, <3>3, <3>4 DEF InStep, f
  <2>. QED
    BY <2>6, <2>7
<1>. QED
  BY <1>2, <1>3

\* Each block takes a byte or more, so Len(run) rounds are enough.
Onward(run, d, k) == d.cut \/ d.at > Len(run) \/ d.at > k

LEMMA DecodersInStep ==
  ASSUME NEW run \in Seq(NonZero)
  PROVE  LET d == HostDecode(run) IN
         /\ d \in DecodeState(run) /\ InStep(run, d)
         /\ d.cut \/ d.at = Len(run) + 1
<1>. DEFINE d == HostBlocks(run)
            n == Len(run)
            P == {k \in 0 .. n : InStep(run, d[k]) /\ Onward(run, d[k], k)}
<1>1. /\ d \in [0 .. n -> DecodeState(run)] /\ d[0] = DecodeStart /\ n \in Nat
      /\ \A k \in 1 .. n : d[k] = DecodeBlock(run, d[k - 1])
  BY DecodeRun
<1>. HIDE DEF d
<1>2. 0 \in P
  <2>1. Unstuffing(run)[0] = UnstuffStart
    BY UnstuffRun
  <2>2. InStep(run, DecodeStart)
    BY <2>1 DEF InStep, DecodeStart, UnstuffStart
  <2>3. Onward(run, DecodeStart, 0)
    BY DEF Onward, DecodeStart
  <2>. QED
    BY <1>1, <2>2, <2>3
<1>3. ASSUME NEW k \in 1 .. n, k - 1 \in P PROVE k \in P
  <2>. DEFINE c == d[k - 1]
  <2>1. c \in DecodeState(run) /\ d[k] = DecodeBlock(run, c)
    BY <1>1
  <2>2. InStep(run, c) /\ Onward(run, c, k - 1)
    BY <1>3
  <2>. HIDE DEF c
  <2>3. InStep(run, d[k])
    BY <2>1, <2>2, BlockInStep
  <2>4. Onward(run, d[k], k)
    <3>. DEFINE a == c.at
    <3>1. a \in 1 .. n + 1
      BY <2>1 DEF DecodeState
    <3>2. CASE c.cut \/ a > n
      <4>1. d[k] = c
        BY <2>1, <3>2 DEF DecodeBlock
      <4>. QED
        BY <3>2, <4>1 DEF Onward
    <3>3. CASE ~c.cut /\ ~(a > n) /\ (a + run[a]) - 1 > n
      <4>1. d[k] = [c EXCEPT !.cut = TRUE]
        BY <2>1, <3>3, DecodesCut
      <4>2. d[k].cut
        BY <2>1, <4>1 DEF DecodeState
      <4>. QED
        BY <4>2 DEF Onward
    <3>4. CASE ~c.cut /\ ~(a > n) /\ ~((a + run[a]) - 1 > n)
      <4>1. d[k].at = a + run[a]
        BY <2>1, <3>4, DecodesBlock
      <4>2. run[a] \in NonZero
        BY <1>1, <3>1, <3>4
      <4>3. run[a] \in Nat /\ run[a] >= 1
        BY <4>2, SizeAssumption DEF NonZero, Byte
      <4>4. a > k - 1
        BY <2>2, <3>4 DEF Onward
      <4>. HIDE DEF a
      <4>5. a + run[a] > k
        BY <3>1, <4>3, <4>4
      <4>. QED
        BY <4>1, <4>5 DEF Onward
    <3>. QED
      BY <3>2, <3>3, <3>4
  <2>. QED
    BY <2>3, <2>4
<1>. HIDE DEF P
<1>4. n \in P
  <2>1. 0 .. n \subseteq P
    BY <1>1, <1>2, <1>3, Along
  <2>. QED
    BY <1>1, <2>1
<1>5. InStep(run, d[n]) /\ Onward(run, d[n], n) /\ d[n] \in DecodeState(run)
  BY <1>1, <1>4 DEF P
<1>6. HostDecode(run) = d[n]
  BY DEF HostDecode, d
<1>7. d[n].cut \/ d[n].at = n + 1
  <2>1. d[n].at \in 1 .. n + 1
    BY <1>5 DEF DecodeState
  <2>. QED
    BY <1>1, <1>5, <2>1 DEF Onward
<1>. QED
  BY <1>5, <1>6, <1>7

\* The two decoders agree on every run, the broken ones included.
LEMMA DecodersMirror ==
  ASSUME NEW run \in Seq(NonZero)
  PROVE  /\ HostDecode(run).cut \in BOOLEAN /\ HostDecode(run).out \in Seq(Byte)
         /\ HostDecode(run).cut <=> Ended(run).left > 0
         /\ ~HostDecode(run).cut => HostDecode(run).out = Ended(run).out
<1>. DEFINE d == HostDecode(run)
<1>1. /\ d \in DecodeState(run) /\ InStep(run, d)
      /\ d.cut \/ d.at = Len(run) + 1
  BY DecodersInStep
<1>. HIDE DEF d
<1>2. d.cut \in BOOLEAN /\ d.out \in Seq(Byte)
  BY <1>1 DEF DecodeState
<1>3. CASE d.cut
  BY <1>1, <1>2, <1>3 DEF InStep, d
<1>4. CASE ~d.cut
  <2>1. d.at - 1 = Len(run)
    BY <1>1, <1>4
  <2>2. Ended(run) = [out |-> d.out, left |-> 0, implied |-> d.implied]
    BY <1>1, <1>4, <2>1 DEF InStep, Ended, Folded, Unstuffing
  <2>. QED
    BY <1>2, <1>4, <2>2 DEF d
<1>. QED
  BY <1>2, <1>3, <1>4

-----------------------------------------------------------------------------
(* The round trip.                                                          *)

\* After a block has closed, the hub's decoder has its bytes.
LEMMA BlockEnds ==
  ASSUME NEW o \in Seq(NonZero), NEW c \in Seq(NonZero), Len(c) < Full,
         Ended(o).left = 0
  PROVE  Ended(o \o Block(c))
           = [out |-> Plain(Ended(o)) \o c, left |-> 0, implied |-> Len(c) + 1 = Full]
<1>. DEFINE p == Len(o)
            m == Len(c)
            t == Block(c)
            run == o \o t
            u == Unstuffing(run)
<1>1. p \in Nat /\ m \in Nat /\ m + 1 \in NonZero
  BY SizeAssumption DEF NonZero, Byte
<1>2. t \in Seq(NonZero) /\ Len(t) = m + 1 /\ t[1] = m + 1 /\ \A i \in 1 .. m : t[i + 1] = c[i]
  <2>1. <<m + 1>> \in Seq(NonZero) /\ Len(<<m + 1>>) = 1 /\ <<m + 1>>[1] = m + 1
    BY <1>1
  <2>2. /\ t \in Seq(NonZero) /\ Len(t) = 1 + m
        /\ \A i \in 1 .. 1 + m : t[i] = IF i <= 1 THEN <<m + 1>>[i] ELSE c[i - 1]
    BY <2>1, ConcatProperties DEF Block
  <2>. HIDE DEF t, m
  <2>. QED
    BY <1>1, <2>1, <2>2
<1>3. /\ run \in Seq(NonZero) /\ Len(run) = p + (m + 1)
      /\ \A i \in 1 .. p + (m + 1) : run[i] = IF i <= p THEN o[i] ELSE t[i - p]
  <2>. HIDE DEF t
  <2>1. run \in Seq(NonZero)
    BY <1>2, ConcatProperties
  <2>2. Len(run) = p + Len(t)
    BY <1>2, ConcatProperties
  <2>3. \A i \in 1 .. p + Len(t) : run[i] = IF i <= p THEN o[i] ELSE t[i - p]
    BY <1>2, ConcatProperties
  <2>. QED
    BY <1>2, <2>1, <2>2, <2>3
<1>4. u[p] = Ended(o) /\ Ended(run) = u[p + (m + 1)]
  BY <1>2, SamePrefix
<1>. HIDE DEF p, t, m, run, u
<1>5. run[p + 1] = m + 1
  <2>1. p + 1 \in 1 .. p + (m + 1) /\ ~(p + 1 <= p) /\ (p + 1) - p = 1
    BY <1>1
  <2>. QED
    BY <1>2, <1>3, <2>1
<1>6. SubSeq(run, p + 2, p + 1 + m) = c
  <2>1. /\ SubSeq(run, p + 2, p + 1 + m) \in Seq(NonZero)
        /\ Len(SubSeq(run, p + 2, p + 1 + m)) = m
        /\ \A i \in 1 .. m : SubSeq(run, p + 2, p + 1 + m)[i] = run[p + 1 + i]
    <3>1. \A i \in p + 2 .. p + 1 + m : run[i] \in NonZero
      BY <1>1, <1>3
    <3>2. SubSeq(run, p + 2, p + 1 + m) \in Seq(NonZero)
      BY <1>1, <3>1, SubSeqProperties
    <3>3. /\ Len(SubSeq(run, p + 2, p + 1 + m)) = IF p + 2 <= p + 1 + m THEN ((p + 1 + m) - (p + 2)) + 1 ELSE 0
          /\ \A i \in 1 .. ((p + 1 + m) - (p + 2)) + 1 : SubSeq(run, p + 2, p + 1 + m)[i] = run[(p + 2) + i - 1]
      BY <1>1, <1>3, SubSeqProperties
    <3>4. ((p + 1 + m) - (p + 2)) + 1 = m /\ (p + 2 <= p + 1 + m <=> m # 0)
      BY <1>1
    <3>5. Len(SubSeq(run, p + 2, p + 1 + m)) = m
      BY <1>1, <3>3, <3>4
    <3>6. ASSUME NEW i \in 1 .. m PROVE SubSeq(run, p + 2, p + 1 + m)[i] = run[p + 1 + i]
      <4>1. (p + 2) + i - 1 = p + 1 + i
        BY <1>1
      <4>. QED
        BY <3>3, <3>4, <4>1
    <3>. QED
      BY <3>2, <3>5, <3>6
  <2>2. ASSUME NEW i \in 1 .. m PROVE run[p + 1 + i] = c[i]
    <3>1. p + 1 + i \in 1 .. p + (m + 1) /\ ~(p + 1 + i <= p) /\ (p + 1 + i) - p = i + 1
      BY <1>1
    <3>. QED
      BY <1>2, <1>3, <3>1
  <2>. QED
    BY <2>1, <2>2, SeqEqual DEF m
<1>7. u[p + 1 + m] = [out |-> Plain(u[p]) \o SubSeq(run, p + 2, p + 1 + m),
                      left |-> run[p + 1] - 1 - m, implied |-> run[p + 1] = Full]
  <2>1. p \in 0 .. Len(run) - 1 /\ m < run[p + 1] /\ p + 1 + m <= Len(run)
    BY <1>1, <1>3, <1>5
  <2>. QED
    BY <1>1, <1>3, <1>4, <2>1, BlockFed DEF u
<1>8. p + 1 + m = p + (m + 1) /\ (m + 1) - 1 - m = 0
  BY <1>1
<1>9. Ended(run) = [out |-> Plain(Ended(o)) \o c, left |-> 0, implied |-> m + 1 = Full]
  BY <1>4, <1>5, <1>6, <1>7, <1>8
<1>. QED
  BY <1>9 DEF run, t, m

\* What the encoder has closed decodes to what it has read, but for the open
\* block.
Trip(e, t) == Ended(e.out).left = 0 /\ Plain(Ended(e.out)) \o e.cur = t

LEMMA TripOf ==
  ASSUME NEW o, NEW c, NEW t, Ended(o).left = 0, Plain(Ended(o)) \o c = t
  PROVE  Trip([out |-> o, cur |-> c], t)
BY DEF Trip

LEMMA TripByte ==
  ASSUME NEW e \in EncodeState, NEW b \in Byte, NEW t, Trip(e, t)
  PROVE  Trip(EncodeByte(e, b), Append(t, b))
<1>. DEFINE o == e.out
            c == e.cur
            z == Plain(Ended(o))
            d == Append(c, b)
<1>1. /\ o \in Seq(NonZero) /\ c \in Seq(NonZero) /\ Len(c) <= Full - 2
      /\ e = [out |-> o, cur |-> c]
  BY DEF EncodeState
<1>2. z \in Seq(Byte) /\ z \o c = t /\ Ended(o).left = 0
  <2>1. Plain(Unstuffing(o)[Len(o)]) \in Seq(Byte)
    <3>1. Len(o) \in 0 .. Len(o)
      BY <1>1, LenProperties
    <3>. QED
      BY <1>1, <3>1, UnstuffTypes
  <2>. QED
    BY <2>1 DEF Trip, Ended, Folded, Unstuffing
<1>3. EncodeByte(e, b) = IF b = 0 THEN [out |-> o \o Block(c), cur |-> <<>>]
                         ELSE IF Len(c) = Full - 2
                           THEN [out |-> o \o Block(d), cur |-> <<>>]
                         ELSE [out |-> o, cur |-> d]
  <2>1. [e EXCEPT !.cur = d] = [out |-> o, cur |-> d]
    <3>. HIDE DEF d, o
    <3>. QED
      BY <1>1
  <2>. QED
    BY <2>1 DEF EncodeByte
<1>. HIDE DEF o, c, z, d
<1>4. c \in Seq(Byte) /\ t \in Seq(Byte) /\ Append(t, b) \in Seq(Byte) /\ Len(c) \in Nat
  <2>1. c \in Seq(Byte)
    BY <1>1 DEF NonZero
  <2>2. t \in Seq(Byte)
    <3>1. z \o c \in Seq(Byte)
      BY <1>2, <2>1, ConcatProperties
    <3>. QED
      BY <1>2, <3>1
  <2>. QED
    BY <2>1, <2>2
<1>5. z \o d = Append(t, b)
  <2>1. <<b>> \in Seq(Byte) /\ d = c \o <<b>> /\ Append(t, b) = t \o <<b>>
    BY <1>4, AppendIsConcat DEF d
  <2>. QED
    BY <1>2, <1>4, <2>1, Associative
<1>6. CASE b = 0
  <2>1. Ended(o \o Block(c)) = [out |-> t, left |-> 0, implied |-> FALSE]
    <3>1. Len(c) < Full /\ Len(c) + 1 # Full
      BY <1>1, <1>4, SizeAssumption
    <3>2. Ended(o \o Block(c)) = [out |-> z \o c, left |-> 0, implied |-> Len(c) + 1 = Full]
      BY <1>1, <1>2, <3>1, BlockEnds DEF z
    <3>. QED
      BY <1>2, <3>1, <3>2
  <2>2. Plain(Ended(o \o Block(c))) = Append(t, 0)
    BY <2>1 DEF Plain
  <2>3. Append(t, 0) \o <<>> = Append(t, b)
    BY <1>4, <1>6, ConcatEmptySeq
  <2>4. EncodeByte(e, b) = [out |-> o \o Block(c), cur |-> <<>>]
    BY <1>3, <1>6
  <2>. DEFINE y == o \o Block(c)
  <2>5. Ended(y).left = 0 /\ Plain(Ended(y)) \o <<>> = Append(t, b)
    <3>1. Ended(y).left = 0
      BY <2>1
    <3>2. Plain(Ended(y)) \o <<>> = Append(t, b)
      BY <2>2, <2>3, Zenon
    <3>. QED
      BY <3>1, <3>2
  <2>. HIDE DEF y
  <2>6. Trip([out |-> y, cur |-> <<>>], Append(t, b))
    BY <2>5, TripOf
  <2>. QED
    BY <2>4, <2>6 DEF y
<1>7. CASE b # 0 /\ Len(c) = Full - 2
  <2>0. d \in Seq(NonZero) /\ Len(d) = Len(c) + 1
    BY <1>1, <1>7 DEF d, NonZero
  <2>1. Ended(o \o Block(d)) = [out |-> Append(t, b), left |-> 0, implied |-> TRUE]
    <3>1. Len(d) < Full /\ Len(d) + 1 = Full
      BY <1>4, <1>7, <2>0, SizeAssumption
    <3>2. Ended(o \o Block(d)) = [out |-> z \o d, left |-> 0, implied |-> Len(d) + 1 = Full]
      BY <1>1, <1>2, <2>0, <3>1, BlockEnds DEF z
    <3>. QED
      BY <1>5, <3>1, <3>2
  <2>2. Plain(Ended(o \o Block(d))) = Append(t, b)
    BY <2>1 DEF Plain
  <2>3. Append(t, b) \o <<>> = Append(t, b)
    BY <1>4, ConcatEmptySeq
  <2>4. EncodeByte(e, b) = [out |-> o \o Block(d), cur |-> <<>>]
    BY <1>3, <1>7
  <2>. DEFINE y == o \o Block(d)
  <2>5. Ended(y).left = 0 /\ Plain(Ended(y)) \o <<>> = Append(t, b)
    <3>1. Ended(y).left = 0
      BY <2>1
    <3>2. Plain(Ended(y)) \o <<>> = Append(t, b)
      BY <2>2, <2>3, Zenon
    <3>. QED
      BY <3>1, <3>2
  <2>. HIDE DEF y
  <2>6. Trip([out |-> y, cur |-> <<>>], Append(t, b))
    BY <2>5, TripOf
  <2>. QED
    BY <2>4, <2>6 DEF y
<1>8. CASE b # 0 /\ Len(c) # Full - 2
  <2>1. EncodeByte(e, b) = [out |-> o, cur |-> d]
    BY <1>3, <1>8
  <2>2. Ended(o).left = 0 /\ Plain(Ended(o)) \o d = Append(t, b)
    BY <1>2, <1>5 DEF z
  <2>. QED
    BY <2>1, <2>2, TripOf
<1>. QED
  BY <1>6, <1>7, <1>8

LEMMA EncodingTrips ==
  ASSUME NEW s \in Seq(Byte)
  PROVE  Trip(Encoding(s)[Len(s)], s)
<1>. DEFINE P == {j \in 0 .. Len(s) : Trip(Encoding(s)[j], SubSeq(s, 1, j))}
<1>0. /\ Len(s) \in Nat /\ Encoding(s) \in [0 .. Len(s) -> EncodeState]
      /\ Encoding(s)[0] = EncodeStart
  BY EncodeRun
<1>1. 0 \in P
  <2>1. Unstuffing(<<>>)[0] = UnstuffStart
    BY EmptySeq, UnstuffRun
  <2>2. Ended(<<>>) = UnstuffStart
    <3>1. Len(<<>>) = 0
      OBVIOUS
    <3>2. Ended(<<>>) = Unstuffing(<<>>)[Len(<<>>)]
      BY DEF Ended, Folded, Unstuffing
    <3>. QED
      BY <2>1, <3>1, <3>2
  <2>3. SubSeq(s, 1, 0) = <<>> /\ <<>> \o <<>> = <<>>
    <3>1. SubSeq(s, 1, 0) = <<>>
      BY SubSeqEmpty
    <3>2. <<>> \in Seq(Byte)
      OBVIOUS
    <3>. QED
      BY <3>1, <3>2, ConcatEmptySeq
  <2>4. Ended(EncodeStart.out) = UnstuffStart /\ EncodeStart.cur = <<>>
    BY <2>2 DEF EncodeStart
  <2>5. UnstuffStart.left = 0 /\ Plain(UnstuffStart) = <<>>
    BY DEF UnstuffStart, Plain
  <2>6. Trip(EncodeStart, SubSeq(s, 1, 0))
    BY <2>3, <2>4, <2>5, Zenon DEF Trip
  <2>. QED
    BY <1>0, <2>6
<1>2. ASSUME NEW j \in 1 .. Len(s), j - 1 \in P PROVE j \in P
  <2>1. /\ s[j] \in Byte /\ Encoding(s)[j - 1] \in EncodeState
        /\ Trip(Encoding(s)[j - 1], SubSeq(s, 1, j - 1))
    BY <1>0, <1>2
  <2>2. Encoding(s)[j] = EncodeByte(Encoding(s)[j - 1], s[j])
    BY EncodeRun
  <2>3. SubSeq(s, 1, j) = Append(SubSeq(s, 1, j - 1), s[j])
    <3>1. SubSeq(s, 1, j) = SubSeq(s, 1, j - 1) \o <<s[j]>>
      <4>1. 1 \in 1 .. Len(s) /\ j \in 1 .. Len(s)
        BY <1>0
      <4>. QED
        BY <4>1, SubSeqRecursiveSecond
    <3>2. SubSeq(s, 1, j - 1) \in Seq(Byte)
      <4>1. \A i \in 1 .. j - 1 : s[i] \in Byte
        BY <1>0
      <4>. QED
        BY <1>0, <4>1, SubSeqProperties
    <3>. QED
      BY <2>1, <3>1, <3>2, AppendIsConcat
  <2>4. Trip(Encoding(s)[j], SubSeq(s, 1, j))
    BY <2>1, <2>2, <2>3, TripByte
  <2>. QED
    BY <2>4
<1>. HIDE DEF P
<1>3. 0 .. Len(s) \subseteq P
  BY <1>0, <1>1, <1>2, Along
<1>4. Trip(Encoding(s)[Len(s)], SubSeq(s, 1, Len(s)))
  <2>1. Len(s) \in P
    BY <1>0, <1>3
  <2>. QED
    BY <2>1 DEF P
<1>. QED
  BY <1>4, SubSeqFull

\* Both decoders give back what either encoder was given.
LEMMA RoundTrip ==
  ASSUME NEW s \in Seq(Byte)
  PROVE  Ended(HostEncode(s)).left = 0 /\ Ended(HostEncode(s)).out = s
<1>. DEFINE e == Encoding(s)[Len(s)]
            o == e.out
            c == e.cur
<1>1. HostEncode(s) = o \o Block(c)
  BY DEF HostEncode, Folded, Encoding
<1>2. Trip(e, s) /\ e \in EncodeState
  BY EncodingTrips, EncodingWithin
<1>. HIDE DEF e
<1>3. /\ o \in Seq(NonZero) /\ c \in Seq(NonZero) /\ Len(c) < Full
      /\ Ended(o).left = 0 /\ Plain(Ended(o)) \o c = s
  <2>1. o \in Seq(NonZero) /\ c \in Seq(NonZero) /\ Len(c) <= Full - 2
    BY <1>2 DEF EncodeState
  <2>2. Len(c) < Full
    BY <2>1, SizeAssumption
  <2>. QED
    BY <1>2, <2>1, <2>2 DEF Trip
<1>. HIDE DEF o, c
<1>4. Ended(o \o Block(c)) = [out |-> s, left |-> 0, implied |-> Len(c) + 1 = Full]
  <2>1. Ended(o \o Block(c)) = [out |-> Plain(Ended(o)) \o c, left |-> 0, implied |-> Len(c) + 1 = Full]
    BY <1>3, BlockEnds
  <2>. QED
    BY <1>3, <2>1, Zenon
<1>. QED
  BY <1>1, <1>4

-----------------------------------------------------------------------------
(* The frame: what CRC and sizes add to it.                                 *)

\* What MaxWire leaves room for.
LEMMA WireRoom ==
  ASSUME NEW n \in Nat, n <= MaxBody + CrcLen
  PROVE  n + (n \div (Full - 1)) + 1 <= MaxWire - 1 /\ MaxWire - 1 \in Nat /\ MaxWire \in Nat
<1>. DEFINE k == Full - 1
            m == MaxBody + CrcLen
            q == n \div k
            w == m \div k
<1>1. k \in Nat \ {0} /\ m \in Nat
  BY SizeAssumption
<1>2. MaxWire = m + w + 2
  BY DEF MaxWire
<1>. HIDE DEF k, m
<1>3. q \in Nat /\ w \in Nat /\ q * k <= n /\ q * k \in Nat
  BY <1>1
<1>. HIDE DEF q
<1>4. q <= w
  <2>1. q * k <= m
    BY <1>1, <1>3 DEF m
  <2>. QED
    BY <1>1, <1>3, <2>1, Quotients
<1>. HIDE DEF w
<1>5. n <= m
  BY DEF m
<1>6. n + q + 1 <= MaxWire - 1 /\ MaxWire - 1 \in Nat /\ MaxWire \in Nat
  BY ONLY <1>1, <1>2, <1>3, <1>4, <1>5, n \in Nat
<1>. QED
  BY <1>6 DEF q, k

LEMMA BodyWithCrc ==
  ASSUME NEW b \in Body
  PROVE  LET data == b \o Crc(b) IN
         /\ b \in Seq(Byte) /\ Len(b) \in Nat /\ data \in Seq(Byte)
         /\ Len(data) = Len(b) + CrcLen
         /\ SubSeq(data, 1, Len(b)) = b
         /\ SubSeq(data, Len(b) + 1, Len(b) + CrcLen) = Crc(b)
<1>. DEFINE c == Crc(b)
            n == Len(b)
            data == b \o c
<1>1. b \in Seq(Byte) /\ c \in Seq(Byte) /\ Len(c) = CrcLen /\ n \in Nat /\ CrcLen \in Nat
  BY BodyAssumption, CrcAssumption, SizeAssumption
<1>. HIDE DEF c
<1>2. data \in Seq(Byte)
  BY <1>1, ConcatProperties
<1>3. Len(data) = n + CrcLen
  BY <1>1, ConcatProperties
<1>4. \A i \in 1 .. n + CrcLen : data[i] = IF i <= n THEN b[i] ELSE c[i - n]
  BY <1>1, ConcatProperties
<1>. HIDE DEF data, n
<1>5. SubSeq(data, 1, n) = b
  <2>1. /\ SubSeq(data, 1, n) \in Seq(Byte) /\ Len(SubSeq(data, 1, n)) = n
        /\ \A i \in 1 .. n : SubSeq(data, 1, n)[i] = data[i]
    <3>1. \A i \in 1 .. n : data[i] \in Byte
      BY <1>1, <1>2, <1>3
    <3>2. SubSeq(data, 1, n) \in Seq(Byte)
      BY <1>1, <3>1, SubSeqProperties
    <3>3. /\ Len(SubSeq(data, 1, n)) = IF 1 <= n THEN (n - 1) + 1 ELSE 0
          /\ \A i \in 1 .. (n - 1) + 1 : SubSeq(data, 1, n)[i] = data[1 + i - 1]
      BY <1>1, <3>1, SubSeqProperties
    <3>. QED
      BY <1>1, <3>2, <3>3
  <2>2. \A i \in 1 .. n : data[i] = b[i]
    BY <1>1, <1>4
  <2>. QED
    BY <1>1, <2>1, <2>2, SeqEqual DEF n
<1>6. SubSeq(data, n + 1, n + CrcLen) = c
  <2>1. /\ SubSeq(data, n + 1, n + CrcLen) \in Seq(Byte)
        /\ Len(SubSeq(data, n + 1, n + CrcLen)) = CrcLen
        /\ \A i \in 1 .. CrcLen : SubSeq(data, n + 1, n + CrcLen)[i] = data[n + i]
    <3>1. \A i \in n + 1 .. n + CrcLen : data[i] \in Byte
      BY <1>1, <1>2, <1>3
    <3>2. SubSeq(data, n + 1, n + CrcLen) \in Seq(Byte)
      BY <1>1, <3>1, SubSeqProperties
    <3>3. /\ Len(SubSeq(data, n + 1, n + CrcLen)) = IF n + 1 <= n + CrcLen THEN ((n + CrcLen) - (n + 1)) + 1 ELSE 0
          /\ \A i \in 1 .. ((n + CrcLen) - (n + 1)) + 1 :
               SubSeq(data, n + 1, n + CrcLen)[i] = data[(n + 1) + i - 1]
      BY <1>1, <3>1, SubSeqProperties
    <3>4. ((n + CrcLen) - (n + 1)) + 1 = CrcLen /\ (n + 1 <= n + CrcLen <=> CrcLen # 0)
      BY <1>1
    <3>5. Len(SubSeq(data, n + 1, n + CrcLen)) = CrcLen
      BY <1>1, <3>3, <3>4
    <3>6. ASSUME NEW i \in 1 .. CrcLen PROVE SubSeq(data, n + 1, n + CrcLen)[i] = data[n + i]
      <4>1. (n + 1) + i - 1 = n + i
        BY <1>1
      <4>. QED
        BY <3>3, <3>4, <4>1
    <3>. QED
      BY <3>2, <3>5, <3>6
  <2>2. ASSUME NEW i \in 1 .. CrcLen PROVE data[n + i] = c[i]
    <3>1. n + i \in 1 .. n + CrcLen /\ ~(n + i <= n) /\ (n + i) - n = i
      BY <1>1
    <3>. QED
      BY <1>4, <3>1
  <2>. QED
    BY <1>1, <2>1, <2>2, SeqEqual
<1>. QED
  BY <1>1, <1>2, <1>3, <1>5, <1>6 DEF data, n, c

\* What either end puts on the line for a body.
LEMMA Frames ==
  ASSUME NEW b \in Body
  PROVE  /\ HostFrame(b) \in Seq(NonZero) /\ HostFrame(b) # <<>>
         /\ HubFrame(b) \in {HostFrame(b), <<>>}
         /\ Legal(b) => HubFrame(b) = HostFrame(b) /\ Len(HostFrame(b)) < MaxWire
<1>. DEFINE data == b \o Crc(b)
            frame == HostEncode(data)
            l == Len(data)
<1>1. /\ b \in Seq(Byte) /\ data \in Seq(Byte) /\ l = Len(b) + CrcLen
      /\ Len(b) \in Nat /\ MaxBody \in Nat /\ CrcLen \in Nat /\ HostFrame(b) = frame
  BY BodyWithCrc, SizeAssumption DEF HostFrame
<1>2. MaxWire - 1 \in Nat /\ MaxWire \in Nat
  BY <1>1, WireRoom
<1>3. frame \in Seq(NonZero) /\ Len(frame) \in 1 .. l + (l \div (Full - 1)) + 1
  BY <1>1, HostEncodes
<1>4. HubFrame(b) = IF Len(b) > MaxBody THEN <<>>
                    ELSE IF Len(frame) > MaxWire - 1 THEN <<>> ELSE frame
  BY <1>1, <1>2, HubEncodes DEF HubFrame
<1>. HIDE DEF frame, l
<1>5. frame # <<>>
  BY <1>3, EmptySeq
<1>6. ASSUME Legal(b)
      PROVE  ~(Len(b) > MaxBody) /\ ~(Len(frame) > MaxWire - 1) /\ Len(frame) < MaxWire
  <2>1. Len(b) <= MaxBody /\ l \in Nat /\ l <= MaxBody + CrcLen
    BY <1>1, <1>6 DEF Legal
  <2>2. l + (l \div (Full - 1)) + 1 <= MaxWire - 1
    BY <2>1, WireRoom
  <2>3. l \div (Full - 1) \in Int
    BY <2>1, SizeAssumption
  <2>. DEFINE r == l + (l \div (Full - 1)) + 1
  <2>4. r \in Int /\ Len(frame) \in 1 .. r /\ r <= MaxWire - 1
    BY <1>3, <2>1, <2>2, <2>3
  <2>. HIDE DEF r
  <2>5. Len(frame) < MaxWire /\ ~(Len(frame) > MaxWire - 1) /\ ~(Len(b) > MaxBody)
    BY <1>1, <1>2, <2>1, <2>4
  <2>. QED
    BY <2>5
<1>. QED
  BY <1>1, <1>3, <1>4, <1>5, <1>6

LEMMA FramesBytes ==
  ASSUME NEW b \in Body
  PROVE  HostFrame(b) \in Seq(Byte) /\ HubFrame(b) \in Seq(Byte)
<1>1. HostFrame(b) \in Seq(Byte) /\ <<>> \in Seq(Byte)
  BY Frames DEF NonZero
<1>. QED
  BY <1>1, Frames

\* The two codecs are sound for every body that fits.
LEMMA CodecsSound ==
  ASSUME NEW b \in Body, Legal(b)
  PROVE  Sound(b)
<1>. DEFINE data == b \o Crc(b)
            frame == HostFrame(b)
            d == HostDecode(frame)
            n == Len(b)
            cap == MaxBody + CrcLen
<1>1. /\ data \in Seq(Byte) /\ Len(data) = n + CrcLen /\ n \in Nat
      /\ SubSeq(data, 1, n) = b /\ SubSeq(data, n + 1, n + CrcLen) = Crc(b)
      /\ CrcLen \in Nat /\ MaxBody \in Nat /\ frame = HostEncode(data)
  BY BodyWithCrc, SizeAssumption DEF HostFrame
<1>2. /\ frame \in Seq(NonZero) /\ frame # <<>>
      /\ HubFrame(b) = frame /\ Len(frame) < MaxWire
  BY Frames
<1>3. Ended(frame).left = 0 /\ Ended(frame).out = data
  BY <1>1, RoundTrip
<1>4. ~d.cut /\ d.out = data
  <2>. HIDE DEF frame
  <2>1. (d.cut <=> Ended(frame).left > 0) /\ (~d.cut => d.out = Ended(frame).out)
    BY <1>2, DecodersMirror
  <2>2. ~(Ended(frame).left > 0)
    BY <1>3
  <2>. HIDE DEF d, data
  <2>. QED
    BY <1>3, <2>1, <2>2
<1>5. n \in 1 .. MaxBody
  BY DEF Legal
<1>. HIDE DEF n
<1>6. Len(data) - CrcLen = n /\ ~(n < 1) /\ ~(n < 0) /\ ~(Len(data) > cap)
  BY <1>1, <1>5
<1>7. HubVerify(frame) = b
  <2>1. HubDecode(frame, cap) = data
    <3>1. HubDecode(frame, cap) = IF Ended(frame).left > 0 \/ Len(Ended(frame).out) > cap THEN <<>> ELSE Ended(frame).out
      BY DEF HubDecode, Ended
    <3>2. ~(Ended(frame).left > 0)
      BY <1>3
    <3>3. ~(Len(Ended(frame).out) > cap)
      BY <1>3, <1>6
    <3>. HIDE DEF cap, frame, data
    <3>. QED
      BY <1>3, <3>1, <3>2, <3>3
  <2>. DEFINE m == Len(data) - CrcLen
  <2>2. HubVerify(frame) = IF m < 1 THEN <<>>
          ELSE IF Crc(SubSeq(data, 1, m)) # SubSeq(data, m + 1, m + CrcLen) THEN <<>>
          ELSE SubSeq(data, 1, m)
    BY <2>1 DEF HubVerify
  <2>3. m = n
    BY <1>6
  <2>. HIDE DEF m, data, frame
  <2>. QED
    BY <1>1, <1>6, <2>2, <2>3
<1>8. HostVerify(frame) = Delivered(b)
  <2>. DEFINE m == Len(data) - CrcLen
  <2>2. HostVerify(frame) = IF d.cut THEN Dropped("cobs_truncated")
          ELSE IF m < 0 THEN Dropped("rx_drop")
          ELSE IF Crc(SubSeq(data, 1, m)) # SubSeq(data, m + 1, m + CrcLen) THEN Dropped("crc_fail")
          ELSE Delivered(SubSeq(data, 1, m))
    BY <1>4 DEF HostVerify
  <2>3. m = n
    BY <1>6
  <2>. HIDE DEF m, data, frame, d
  <2>. QED
    BY <1>1, <1>4, <1>6, <2>2, <2>3
<1>. QED
  BY <1>2, <1>7, <1>8 DEF Sound, NonZero

-----------------------------------------------------------------------------
(* The verdicts, and the runs that a receiver cuts the bytes into.          *)

LEMMA VerifyCases ==
  ASSUME NEW run \in Seq(NonZero)
  PROVE  LET data == HostDecode(run).out
             n == Len(data) - CrcLen
             good == Crc(SubSeq(data, 1, n)) = SubSeq(data, n + 1, n + CrcLen)
         IN  /\ data \in Seq(Byte) /\ n \in Int
             /\ HostVerify(run) =
                  IF HostDecode(run).cut THEN Dropped("cobs_truncated")
                  ELSE IF n < 0 THEN Dropped("rx_drop")
                  ELSE IF ~good THEN Dropped("crc_fail")
                  ELSE Delivered(SubSeq(data, 1, n))
             /\ HubVerify(run) =
                  IF HostDecode(run).cut \/ n > MaxBody \/ n < 1 \/ ~good THEN <<>>
                  ELSE SubSeq(data, 1, n)
             /\ n >= 0 => /\ SubSeq(data, 1, n) \in Seq(Byte)
                          /\ Len(SubSeq(data, 1, n)) = n
<1>. DEFINE cut == HostDecode(run).cut
            data == HostDecode(run).out
            l == Len(data)
            n == l - CrcLen
            good == Crc(SubSeq(data, 1, n)) = SubSeq(data, n + 1, n + CrcLen)
            got == HubDecode(run, MaxBody + CrcLen)
            m == Len(got) - CrcLen
<1>1. data \in Seq(Byte) /\ l \in Nat /\ n \in Int /\ CrcLen \in Nat \ {0} /\ MaxBody \in Nat
  BY DecodersMirror, SizeAssumption
<1>2. HostVerify(run) =
        IF cut THEN Dropped("cobs_truncated")
        ELSE IF n < 0 THEN Dropped("rx_drop")
        ELSE IF ~good THEN Dropped("crc_fail")
        ELSE Delivered(SubSeq(data, 1, n))
  BY Zenon DEF HostVerify
<1>3. got = IF cut \/ l > MaxBody + CrcLen THEN <<>> ELSE data
  <2>1. got = IF Ended(run).left > 0 \/ Len(Ended(run).out) > MaxBody + CrcLen THEN <<>> ELSE Ended(run).out
    BY DEF HubDecode, Ended
  <2>2. cut <=> Ended(run).left > 0
    BY DecodersMirror
  <2>3. ~cut => data = Ended(run).out
    BY DecodersMirror
  <2>. HIDE DEF got, cut, data
  <2>. QED
    BY <2>1, <2>2, <2>3
<1>4. HubVerify(run) =
        IF m < 1 THEN <<>>
        ELSE IF Crc(SubSeq(got, 1, m)) # SubSeq(got, m + 1, m + CrcLen) THEN <<>>
        ELSE SubSeq(got, 1, m)
  BY Zenon DEF HubVerify
<1>5. n >= 0 => SubSeq(data, 1, n) \in Seq(Byte) /\ Len(SubSeq(data, 1, n)) = n
  <2>. SUFFICES ASSUME n >= 0 PROVE SubSeq(data, 1, n) \in Seq(Byte) /\ Len(SubSeq(data, 1, n)) = n
    OBVIOUS
  <2>. HIDE DEF data
  <2>0. n <= l
    BY <1>1
  <2>1. \A i \in 1 .. n : data[i] \in Byte
    BY <1>1, <2>0
  <2>. HIDE DEF n
  <2>2. Len(SubSeq(data, 1, n)) = IF 1 <= n THEN (n - 1) + 1 ELSE 0
    BY <1>1, <2>1, SubSeqProperties
  <2>3. SubSeq(data, 1, n) \in Seq(Byte)
    BY <1>1, <2>1, SubSeqProperties
  <2>. QED
    BY <1>1, <2>2, <2>3
<1>6. HubVerify(run) = IF cut \/ n > MaxBody \/ n < 1 \/ ~good THEN <<>> ELSE SubSeq(data, 1, n)
  <2>1. CASE cut \/ n > MaxBody
    <3>1. got = <<>>
      <4>1. n > MaxBody => l > MaxBody + CrcLen
        <5>. HIDE DEF l
        <5>. QED
          BY <1>1
      <4>. HIDE DEF got, cut, n, l
      <4>. QED
        BY <1>3, <2>1, <4>1
    <3>2. m < 1
      <4>. HIDE DEF got
      <4>1. Len(got) = 0
        BY <3>1
      <4>. QED
        BY <1>1, <4>1
    <3>. HIDE DEF got, m, cut, n, good
    <3>. QED
      BY <1>4, <2>1, <3>2
  <2>2. CASE ~cut /\ ~(n > MaxBody)
    <3>1. got = data
      <4>1. ~(l > MaxBody + CrcLen)
        <5>. HIDE DEF l, cut
        <5>. QED
          BY <1>1, <2>2
      <4>. HIDE DEF got, cut, data, l
      <4>. QED
        BY <1>3, <2>2, <4>1
    <3>2. m = n
      <4>. HIDE DEF got, data
      <4>. QED
        BY <3>1
    <3>. HIDE DEF got, data, m, cut, n
    <3>. QED
      BY <1>4, <2>2, <3>1, <3>2
  <2>. QED
    BY <2>1, <2>2
<1>. QED
  BY <1>1, <1>2, <1>5, <1>6

\* Both ends come to the same verdict on a run, for the lengths a hub can take.
LEMMA VerdictsAgree ==
  ASSUME NEW run \in Seq(NonZero)
  PROVE  /\ HostVerify(run) \in Verdict /\ HubVerify(run) \in Seq(Byte)
         /\ HubVerify(run) =
              IF HostVerify(run).is = "body" /\ Legal(HostVerify(run).body)
                THEN HostVerify(run).body ELSE <<>>
         /\ Legal(HostVerify(run).body) => HostVerify(run).body # <<>>
<1>. DEFINE data == HostDecode(run).out
            n == Len(data) - CrcLen
            body == SubSeq(data, 1, n)
            good == Crc(SubSeq(data, 1, n)) = SubSeq(data, n + 1, n + CrcLen)
            cut == HostDecode(run).cut
            v == HostVerify(run)
            h == HubVerify(run)
<1>1. /\ n \in Int
      /\ v = IF cut THEN Dropped("cobs_truncated")
             ELSE IF n < 0 THEN Dropped("rx_drop")
             ELSE IF ~good THEN Dropped("crc_fail")
             ELSE Delivered(body)
      /\ h = IF cut \/ n > MaxBody \/ n < 1 \/ ~good THEN <<>> ELSE body
      /\ n >= 0 => body \in Seq(Byte) /\ Len(body) = n
  BY VerifyCases
<1>2. MaxBody \in Nat /\ <<>> \in Seq(Byte) /\ Len(<<>>) = 0
  BY SizeAssumption, EmptySeq
<1>. HIDE DEF n, body, good, cut, v, h
<1>3. CASE cut \/ n < 0 \/ ~good
  <2>1. v.is # "body" /\ v \in Verdict /\ v.body = <<>>
    BY <1>1, <1>2, <1>3 DEF Dropped, Verdict
  <2>2. h = <<>>
    BY <1>1, <1>3
  <2>. QED
    BY <1>2, <2>1, <2>2 DEF Legal, v, h
<1>4. CASE ~cut /\ n >= 0 /\ good
  <2>1. v = [is |-> "body", body |-> body] /\ body \in Seq(Byte) /\ Len(body) = n
    BY <1>1, <1>4 DEF Delivered
  <2>2. v.is = "body" /\ v.body = body /\ v \in Verdict
    BY <2>1 DEF Verdict
  <2>3. Legal(body) <=> ~(n > MaxBody \/ n < 1)
    BY <1>1, <1>2, <2>1 DEF Legal
  <2>4. Legal(body) => body # <<>>
    BY <1>2 DEF Legal
  <2>5. h = IF Legal(body) THEN body ELSE <<>>
    BY <1>1, <1>4, <2>3
  <2>. QED
    BY <1>2, <2>1, <2>2, <2>4, <2>5 DEF v, h
<1>. QED
  BY <1>1, <1>3, <1>4

LEMMA ScanType ==
  ASSUME NEW s \in ScanState, NEW b \in Byte
  PROVE  ScanByte(s, b) \in ScanState
<1>1. s.verdicts \in Seq(Verdict) /\ s.rest \in Seq(NonZero)
      /\ s = [verdicts |-> s.verdicts, rest |-> s.rest]
  BY DEF ScanState
<1>2. CASE b # 0
  <2>1. ScanByte(s, b) = [verdicts |-> s.verdicts, rest |-> Append(s.rest, b)]
    BY <1>1, <1>2 DEF ScanByte
  <2>2. Append(s.rest, b) \in Seq(NonZero)
    BY <1>1, <1>2 DEF NonZero
  <2>. QED
    BY <1>1, <2>1, <2>2 DEF ScanState
<1>3. CASE b = 0
  <2>. DEFINE v == IF s.rest = <<>> THEN s.verdicts ELSE Append(s.verdicts, HostVerify(s.rest))
  <2>1. ScanByte(s, b) = [rest |-> <<>>, verdicts |-> v]
    BY <1>3 DEF ScanByte
  <2>2. v \in Seq(Verdict)
    <3>1. HostVerify(s.rest) \in Verdict
      BY <1>1, VerdictsAgree
    <3>2. Append(s.verdicts, HostVerify(s.rest)) \in Seq(Verdict)
      BY <1>1, <3>1, AppendProperties
    <3>. QED
      BY <1>1, <3>2
  <2>. HIDE DEF v
  <2>. QED
    BY <2>1, <2>2, EmptySeq DEF ScanState
<1>. QED
  BY <1>2, <1>3

Bodies == Seq(Seq(Byte))

LEMMA TakeType ==
  ASSUME NEW bodies \in Bodies, NEW v \in Verdict
  PROVE  TakeLegal(bodies, v) \in Bodies
<1>1. v.body \in Seq(Byte)
  BY DEF Verdict
<1>2. Append(bodies, v.body) \in Bodies
  BY <1>1, AppendProperties DEF Bodies
<1>. QED
  BY <1>2 DEF TakeLegal

LEMMA ScanRun ==
  ASSUME NEW s \in Seq(Byte)
  PROVE  /\ Scanning(s) \in [0 .. Len(s) -> ScanState]
         /\ Scanning(s)[0] = ScanStart
         /\ \A i \in 1 .. Len(s) : Scanning(s)[i] = ScanByte(Scanning(s)[i - 1], s[i])
<1>. DEFINE F == [x \in ScanState |-> [b \in Byte |-> ScanByte(x, b)]]
<1>1. ScanStart \in ScanState
  BY EmptySeq DEF ScanStart, ScanState
<1>2. F \in [ScanState -> [Byte -> ScanState]]
  BY ScanType
<1>3. PICK f : IsRun(f, ScanState, ScanStart, F, s)
  <2>. HIDE DEF F
  <2>. QED
    BY <1>1, <1>2, RunExists
<1>4. ASSUME NEW i \in 1 .. Len(s)
      PROVE  f[i - 1] \in ScanState /\ f[i] = ScanByte(f[i - 1], s[i])
  <2>. HIDE DEF F
  <2>1. f[i - 1] \in ScanState /\ f[i] = F[f[i - 1]][s[i]]
    BY <1>3 DEF IsRun
  <2>2. s[i] \in Byte
    BY LenProperties
  <2>. USE DEF F
  <2>. QED
    BY <2>1, <2>2
<1>. DEFINE e == Scanning(s)
<1>5. f = [i \in 0 .. Len(s) |-> IF i = 0 THEN ScanStart ELSE ScanByte(f[i - 1], s[i])]
  BY <1>3, <1>4 DEF IsRun
<1>6. e = CHOOSE g : g = [i \in 0 .. Len(s) |-> IF i = 0 THEN ScanStart ELSE ScanByte(g[i - 1], s[i])]
  BY DEF Scanning, Folding
<1>7. e = [i \in 0 .. Len(s) |-> IF i = 0 THEN ScanStart ELSE ScanByte(e[i - 1], s[i])]
  <2>. HIDE DEF e, F
  <2>. QED
    BY <1>5, <1>6
<1>. HIDE DEF e, F
<1>8. e[0] = ScanStart /\ \A i \in 1 .. Len(s) : e[i] = ScanByte(e[i - 1], s[i])
  BY <1>7
<1>9. \A i \in 0 .. Len(s) : e[i] = f[i]
  <2>1. \A i \in 1 .. Len(s) : e[i - 1] = f[i - 1] => e[i] = f[i]
    BY <1>4, <1>8
  <2>2. e[0] = f[0] /\ Len(s) \in Nat
    BY <1>3, <1>8 DEF IsRun
  <2>. QED
    BY <2>1, <2>2, RunsAgree
<1>10. e = f
  BY <1>5, <1>7, <1>9
<1>. QED
  BY <1>3, <1>8, <1>10 DEF e, IsRun

LEMMA TakeRun ==
  ASSUME NEW s \in Seq(Verdict)
  PROVE  /\ Taking(s) \in [0 .. Len(s) -> Bodies]
         /\ Taking(s)[0] = <<>>
         /\ \A i \in 1 .. Len(s) : Taking(s)[i] = TakeLegal(Taking(s)[i - 1], s[i])
<1>. DEFINE F == [x \in Bodies |-> [b \in Verdict |-> TakeLegal(x, b)]]
<1>1. <<>> \in Bodies
  BY EmptySeq DEF Bodies
<1>2. F \in [Bodies -> [Verdict -> Bodies]]
  BY TakeType
<1>3. PICK f : IsRun(f, Bodies, <<>>, F, s)
  <2>. HIDE DEF F
  <2>. QED
    BY <1>1, <1>2, RunExists
<1>4. ASSUME NEW i \in 1 .. Len(s)
      PROVE  f[i - 1] \in Bodies /\ f[i] = TakeLegal(f[i - 1], s[i])
  <2>. HIDE DEF F
  <2>1. f[i - 1] \in Bodies /\ f[i] = F[f[i - 1]][s[i]]
    BY <1>3 DEF IsRun
  <2>2. s[i] \in Verdict
    BY LenProperties
  <2>. USE DEF F
  <2>. QED
    BY <2>1, <2>2
<1>. DEFINE e == Taking(s)
<1>5. f = [i \in 0 .. Len(s) |-> IF i = 0 THEN <<>> ELSE TakeLegal(f[i - 1], s[i])]
  BY <1>3, <1>4 DEF IsRun
<1>6. e = CHOOSE g : g = [i \in 0 .. Len(s) |-> IF i = 0 THEN <<>> ELSE TakeLegal(g[i - 1], s[i])]
  BY DEF Taking, Folding
<1>7. e = [i \in 0 .. Len(s) |-> IF i = 0 THEN <<>> ELSE TakeLegal(e[i - 1], s[i])]
  <2>. HIDE DEF e, F
  <2>. QED
    BY <1>5, <1>6
<1>. HIDE DEF e, F
<1>8. e[0] = <<>> /\ \A i \in 1 .. Len(s) : e[i] = TakeLegal(e[i - 1], s[i])
  BY <1>7
<1>9. \A i \in 0 .. Len(s) : e[i] = f[i]
  <2>1. \A i \in 1 .. Len(s) : e[i - 1] = f[i - 1] => e[i] = f[i]
    BY <1>4, <1>8
  <2>2. e[0] = f[0] /\ Len(s) \in Nat
    BY <1>3, <1>8 DEF IsRun
  <2>. QED
    BY <2>1, <2>2, RunsAgree
<1>10. e = f
  BY <1>5, <1>7, <1>9
<1>. QED
  BY <1>3, <1>8, <1>10 DEF e, IsRun

Taken(v) == Folded(TakeLegal, <<>>, v)

\* One byte more, one step of the loop more.
LEMMA ScanAppend ==
  ASSUME NEW s \in Seq(Byte), NEW b \in Byte
  PROVE  Scan(s) \in ScanState /\ Scan(Append(s, b)) = ScanByte(Scan(s), b)
<1>. DEFINE t == Append(s, b)
            f == Scanning(t)
            g == Scanning(s)
<1>1. /\ t \in Seq(Byte) /\ Len(t) = Len(s) + 1 /\ Len(s) \in Nat
      /\ t[Len(s) + 1] = b /\ \A i \in 1 .. Len(s) : t[i] = s[i]
  BY AppendProperties, LenProperties
<1>2. Scan(s) = g[Len(s)] /\ Scan(t) = f[Len(t)]
  BY DEF Scan, Scanning, Folded
<1>3. f[0] = ScanStart /\ \A i \in 1 .. Len(t) : f[i] = ScanByte(f[i - 1], t[i])
  BY <1>1, ScanRun
<1>4. g[0] = ScanStart /\ \A i \in 1 .. Len(s) : g[i] = ScanByte(g[i - 1], s[i])
  BY ScanRun
<1>5. g[Len(s)] \in ScanState
  BY <1>1, ScanRun
<1>. HIDE DEF t, f, g
<1>6. ASSUME NEW i \in 1 .. Len(s), f[i - 1] = g[i - 1] PROVE f[i] = g[i]
  <2>1. i \in 1 .. Len(t) /\ t[i] = s[i]
    BY <1>1
  <2>. QED
    BY <1>3, <1>4, <1>6, <2>1
<1>7. f[Len(s)] = g[Len(s)]
  <2>1. f[0] = g[0] /\ Len(s) \in Nat /\ Len(s) \in 0 .. Len(s)
    BY <1>1, <1>3, <1>4
  <2>2. \A i \in 1 .. Len(s) : f[i - 1] = g[i - 1] => f[i] = g[i]
    BY <1>6
  <2>3. \A i \in 0 .. Len(s) : f[i] = g[i]
    BY <2>1, <2>2, RunsAgree
  <2>. QED
    BY <2>1, <2>3
<1>8. f[Len(s) + 1] = ScanByte(f[Len(s)], b)
  <2>1. Len(s) + 1 \in 1 .. Len(t) /\ (Len(s) + 1) - 1 = Len(s)
    BY <1>1
  <2>. QED
    BY <1>1, <1>3, <2>1
<1>. QED
  BY <1>1, <1>2, <1>5, <1>7, <1>8 DEF t

LEMMA TakeAppend ==
  ASSUME NEW s \in Seq(Verdict), NEW b \in Verdict
  PROVE  Taken(s) \in Bodies /\ Taken(Append(s, b)) = TakeLegal(Taken(s), b)
<1>. DEFINE t == Append(s, b)
            f == Taking(t)
            g == Taking(s)
<1>1. /\ t \in Seq(Verdict) /\ Len(t) = Len(s) + 1 /\ Len(s) \in Nat
      /\ t[Len(s) + 1] = b /\ \A i \in 1 .. Len(s) : t[i] = s[i]
  BY AppendProperties, LenProperties
<1>2. Taken(s) = g[Len(s)] /\ Taken(t) = f[Len(t)]
  BY DEF Taken, Taking, Folded
<1>3. f[0] = <<>> /\ \A i \in 1 .. Len(t) : f[i] = TakeLegal(f[i - 1], t[i])
  BY <1>1, TakeRun
<1>4. g[0] = <<>> /\ \A i \in 1 .. Len(s) : g[i] = TakeLegal(g[i - 1], s[i])
  BY TakeRun
<1>5. g[Len(s)] \in Bodies
  BY <1>1, TakeRun
<1>. HIDE DEF t, f, g
<1>6. ASSUME NEW i \in 1 .. Len(s), f[i - 1] = g[i - 1] PROVE f[i] = g[i]
  <2>1. i \in 1 .. Len(t) /\ t[i] = s[i]
    BY <1>1
  <2>. QED
    BY <1>3, <1>4, <1>6, <2>1
<1>7. f[Len(s)] = g[Len(s)]
  <2>1. f[0] = g[0] /\ Len(s) \in Nat /\ Len(s) \in 0 .. Len(s)
    BY <1>1, <1>3, <1>4
  <2>2. \A i \in 1 .. Len(s) : f[i - 1] = g[i - 1] => f[i] = g[i]
    BY <1>6
  <2>3. \A i \in 0 .. Len(s) : f[i] = g[i]
    BY <2>1, <2>2, RunsAgree
  <2>. QED
    BY <2>1, <2>3
<1>8. f[Len(s) + 1] = TakeLegal(f[Len(s)], b)
  <2>1. Len(s) + 1 \in 1 .. Len(t) /\ (Len(s) + 1) - 1 = Len(s)
    BY <1>1
  <2>. QED
    BY <1>1, <1>3, <2>1
<1>. QED
  BY <1>1, <1>2, <1>5, <1>7, <1>8 DEF t

LEMMA NothingScanned == Scan(<<>>) = ScanStart
<1>1. <<>> \in Seq(Byte) /\ Len(<<>>) = 0
  OBVIOUS
<1>2. Scan(<<>>) = Scanning(<<>>)[Len(<<>>)]
  BY DEF Scan, Scanning, Folded
<1>. QED
  BY <1>1, <1>2, ScanRun

LEMMA NothingTaken == Taken(<<>>) = <<>>
<1>1. <<>> \in Seq(Verdict) /\ Len(<<>>) = 0
  OBVIOUS
<1>2. Taken(<<>>) = Taking(<<>>)[Len(<<>>)]
  BY DEF Taken, Taking, Folded
<1>. QED
  BY <1>1, <1>2, TakeRun

\* A run that has not ended gives no verdict: it waits for its zero.
LEMMA RunWaits ==
  ASSUME NEW r \in Seq(NonZero)
  PROVE  Scan(r) = [verdicts |-> <<>>, rest |-> r]
<1>. DEFINE Waiting(k) == [verdicts |-> <<>>, rest |-> SubSeq(r, 1, k)]
            P == {k \in 0 .. Len(r) : Scanning(r)[k] = Waiting(k)}
<1>1. /\ Len(r) \in Nat /\ r \in Seq(Byte) /\ Scanning(r)[0] = ScanStart
      /\ \A i \in 1 .. Len(r) : Scanning(r)[i] = ScanByte(Scanning(r)[i - 1], r[i])
  <2>1. r \in Seq(Byte) /\ Len(r) \in Nat
    BY DEF NonZero
  <2>. QED
    BY <2>1, ScanRun
<1>2. 0 \in P
  <2>1. SubSeq(r, 1, 0) = <<>>
    BY SubSeqEmpty
  <2>. QED
    BY <1>1, <2>1 DEF ScanStart
<1>3. ASSUME NEW k \in 1 .. Len(r), k - 1 \in P PROVE k \in P
  <2>1. Scanning(r)[k - 1] = Waiting(k - 1) /\ r[k] \in NonZero
    BY <1>3
  <2>2. Scanning(r)[k] = ScanByte(Waiting(k - 1), r[k])
    BY <1>1, <2>1
  <2>3. SubSeq(r, 1, k) = Append(SubSeq(r, 1, k - 1), r[k])
    <3>1. SubSeq(r, 1, k) = SubSeq(r, 1, k - 1) \o <<r[k]>>
      <4>1. 1 \in 1 .. Len(r) /\ k \in 1 .. Len(r)
        BY <1>1
      <4>. QED
        BY <4>1, SubSeqRecursiveSecond
    <3>2. SubSeq(r, 1, k - 1) \in Seq(NonZero)
      <4>1. \A i \in 1 .. k - 1 : r[i] \in NonZero
        BY <1>1
      <4>. QED
        BY <1>1, <4>1, SubSeqProperties
    <3>. QED
      BY <2>1, <3>1, <3>2, AppendIsConcat
  <2>4. ScanByte(Waiting(k - 1), r[k]) = [verdicts |-> <<>>, rest |-> Append(SubSeq(r, 1, k - 1), r[k])]
    <3>1. r[k] # 0
      BY <2>1 DEF NonZero
    <3>. QED
      BY <3>1 DEF ScanByte
  <2>5. Scanning(r)[k] = Waiting(k)
    BY <2>2, <2>3, <2>4
  <2>. QED
    BY <2>5
<1>. HIDE DEF P
<1>4. Len(r) \in P
  <2>1. 0 .. Len(r) \subseteq P
    BY <1>1, <1>2, <1>3, Along
  <2>. QED
    BY <1>1, <2>1
<1>5. Scanning(r)[Len(r)] = [verdicts |-> <<>>, rest |-> SubSeq(r, 1, Len(r))]
  BY <1>4 DEF P
<1>. QED
  BY <1>5, SubSeqFull DEF Scan, Scanning, Folded

-----------------------------------------------------------------------------
\* The types of what the two receivers have.
EndsType ==
    /\ hostRun \in Seq(NonZero) /\ unread \in Seq(Byte) /\ buf \in Seq(NonZero)
    /\ onBody \in Bodies /\ drops \in Nat /\ runs \in Nat
    /\ sync \in BOOLEAN /\ over \in BOOLEAN

\* If the host read now: the same run waits at both ends, and what the host
\* would hand up is what the hub has handed up.
Caught == Scan(hostRun \o unread)
InStepInv ==
    /\ Len(Caught.verdicts) = runs
    /\ sync <=> Caught.rest = <<>>
    /\ sync => buf = <<>>
    /\ over \/ /\ Caught.rest = buf
               /\ Taken(Caught.verdicts) = onBody
               /\ Len(onBody) + drops = runs

EndsInv == EndsType /\ InStepInv

LEMMA InitEnds == UartInit => EndsInv
<1>. SUFFICES ASSUME UartInit PROVE EndsInv
  OBVIOUS
<1>1. /\ hostRun = <<>> /\ unread = <<>> /\ buf = <<>> /\ onBody = <<>>
      /\ drops = 0 /\ runs = 0 /\ sync = TRUE /\ over = FALSE
  BY DEF UartInit
<1>2. EndsType
  BY <1>1, EmptySeq DEF EndsType, Bodies
<1>3. <<>> \o <<>> = <<>>
  BY EmptySeq, ConcatEmptySeq
<1>4. Caught = ScanStart
  BY <1>1, <1>3, NothingScanned DEF Caught
<1>5. Caught.verdicts = <<>> /\ Caught.rest = <<>>
  BY <1>4 DEF ScanStart
<1>6. Len(<<>>) = 0
  OBVIOUS
<1>7. InStepInv
  BY <1>1, <1>5, <1>6, NothingTaken DEF InStepInv
<1>. QED
  BY <1>2, <1>7 DEF EndsInv

\* What the host sees of the byte.
LEMMA TakeCaught ==
  ASSUME EndsType, NEW b \in Byte, Take(b)
  PROVE  /\ Caught \in ScanState /\ Caught' = ScanByte(Caught, b)
         /\ unread' \in Seq(Byte) /\ hostRun' = hostRun
<1>1. /\ hostRun \in Seq(Byte) /\ unread \in Seq(Byte)
      /\ hostRun' = hostRun /\ unread' = Append(unread, b)
  BY DEF EndsType, Take, NonZero
<1>2. hostRun \o Append(unread, b) = Append(hostRun \o unread, b)
  <2>1. <<b>> \in Seq(Byte) /\ Append(unread, b) = unread \o <<b>>
    BY <1>1, AppendIsConcat
  <2>2. hostRun \o unread \in Seq(Byte)
    BY <1>1, ConcatProperties
  <2>3. Append(hostRun \o unread, b) = (hostRun \o unread) \o <<b>>
    BY <2>2, AppendIsConcat
  <2>. QED
    BY <1>1, <2>1, <2>3, Associative
<1>3. hostRun \o unread \in Seq(Byte) /\ Append(unread, b) \in Seq(Byte)
  BY <1>1, ConcatProperties, AppendProperties
<1>. QED
  BY <1>1, <1>2, <1>3, ScanAppend DEF Caught

LEMMA FeedType ==
  ASSUME EndsType, NEW b \in Byte, Feed(b)
  PROVE  buf' \in Seq(NonZero) /\ onBody' \in Bodies /\ drops' \in Nat /\ over' \in BOOLEAN
<1>1. /\ <<>> \in Seq(NonZero) /\ buf \in Seq(NonZero) /\ onBody \in Bodies
      /\ drops \in Nat /\ drops + 1 \in Nat /\ over \in BOOLEAN
  BY EmptySeq DEF EndsType
<1>2. b # 0 => Append(buf, b) \in Seq(NonZero)
  <2>1. b # 0 => b \in NonZero
    BY DEF NonZero
  <2>. QED
    BY <1>1, <2>1, AppendProperties
<1>3. Append(onBody, HubVerify(buf)) \in Bodies
  BY <1>1, VerdictsAgree, AppendProperties DEF Bodies
<1>. QED
  BY <1>1, <1>2, <1>3, Zenon DEF Feed

LEMMA TakeEnds ==
  ASSUME EndsInv, NEW b \in Byte, Take(b)
  PROVE  EndsInv'
<1>. DEFINE v == Caught.verdicts
            r == Caught.rest
<1>1. /\ EndsType /\ InStepInv /\ Feed(b) /\ sync' = (b = 0)
      /\ runs' = IF b = 0 /\ ~sync THEN runs + 1 ELSE runs
  BY DEF EndsInv, Take
<1>2. /\ Caught \in ScanState /\ Caught' = ScanByte(Caught, b)
      /\ unread' \in Seq(Byte) /\ hostRun' = hostRun
  BY <1>1, TakeCaught
<1>3. EndsType'
  <2>1. runs' \in Nat
    BY <1>1 DEF EndsType
  <2>2. sync' \in BOOLEAN
    BY <1>1
  <2>3. hostRun' \in Seq(NonZero)
    BY <1>1, <1>2 DEF EndsType
  <2>4. buf' \in Seq(NonZero) /\ onBody' \in Bodies /\ drops' \in Nat /\ over' \in BOOLEAN
    BY <1>1, FeedType
  <2>. QED
    BY <1>2, <2>1, <2>2, <2>3, <2>4 DEF EndsType
<1>4. v \in Seq(Verdict) /\ r \in Seq(NonZero)
  BY <1>2 DEF ScanState
<1>5. /\ Len(v) = runs
      /\ sync <=> r = <<>>
      /\ sync => buf = <<>>
      /\ over \/ (r = buf /\ Taken(v) = onBody /\ Len(onBody) + drops = runs)
  BY <1>1 DEF InStepInv
<1>6. /\ onBody \in Bodies /\ drops \in Nat /\ runs \in Nat /\ buf \in Seq(NonZero)
      /\ Len(onBody) \in Nat
  BY <1>1 DEF EndsType, Bodies
<1>7. CASE b # 0
  <2>1. /\ Caught'.verdicts = v /\ Caught'.rest = Append(r, b) /\ Append(r, b) # <<>>
    <3>1. Caught' = [verdicts |-> v, rest |-> Append(r, b)]
      BY <1>2, <1>7 DEF ScanByte, ScanState
    <3>2. b \in NonZero
      BY <1>7 DEF NonZero
    <3>. HIDE DEF v, r
    <3>. QED
      BY <1>4, <3>1, <3>2, AppendProperties
  <2>2. ~sync' /\ runs' = runs
    BY <1>1, <1>7
  <2>. HIDE DEF v, r
  <2>3. \/ buf' = Append(buf, b) /\ onBody' = onBody /\ drops' = drops /\ over' = over
        \/ over' = TRUE
    BY <1>1, <1>7, Zenon DEF Feed
  <2>4. \/ over'
        \/ Append(r, b) = buf' /\ Taken(v) = onBody' /\ Len(onBody') + drops' = runs'
    BY <1>5, <2>2, <2>3, Zenon
  <2>5. InStepInv'
    BY <1>5, <2>1, <2>2, <2>4, Zenon DEF InStepInv
  <2>. QED
    BY <1>3, <2>5 DEF EndsInv
<1>8. CASE b = 0
  <2>. DEFINE w == IF r = <<>> THEN v ELSE Append(v, HostVerify(r))
  <2>1. Caught'.verdicts = w /\ Caught'.rest = <<>>
    <3>1. Caught' = [rest |-> <<>>, verdicts |-> w]
      BY <1>2, <1>8 DEF ScanByte
    <3>. HIDE DEF w
    <3>. QED
      BY <3>1
  <2>2. sync' /\ buf' = <<>> /\ over' = over
    BY <1>1, <1>8 DEF Feed
  <2>3. HostVerify(r) \in Verdict
    BY <1>4, VerdictsAgree
  <2>. HIDE DEF v, r
  <2>4. Len(w) = runs'
    <3>1. Len(Append(v, HostVerify(r))) = Len(v) + 1
      BY <1>4, <2>3, AppendProperties
    <3>2. runs' = IF r = <<>> THEN runs ELSE runs + 1
      BY <1>1, <1>5, <1>8
    <3>. QED
      BY <1>5, <3>1, <3>2
  <2>5. ASSUME ~over
        PROVE  Taken(w) = onBody' /\ Len(onBody') + drops' = runs'
    <3>1. r = buf /\ Taken(v) = onBody /\ Len(onBody) + drops = runs
      BY <1>5, <2>5
    <3>2. CASE r = <<>>
      <4>1. w = v /\ runs' = runs
        BY <1>1, <1>5, <3>2
      <4>2. onBody' = onBody /\ drops' = drops
        BY <1>1, <1>8, <3>1, <3>2 DEF Feed
      <4>. QED
        BY <3>1, <4>1, <4>2
    <3>3. CASE r # <<>>
      <4>1. Taken(w) = TakeLegal(onBody, HostVerify(r))
        BY <1>4, <2>3, <3>1, <3>3, TakeAppend
      <4>2. runs' = runs + 1
        BY <1>1, <1>5, <1>8, <3>3
      <4>3. IF HubVerify(r) = <<>> THEN drops' = drops + 1 /\ onBody' = onBody
            ELSE onBody' = Append(onBody, HubVerify(r)) /\ drops' = drops
        BY <1>1, <1>8, <3>1, <3>3, Zenon DEF Feed
      <4>. DEFINE x == HostVerify(r)
      <4>4. /\ HubVerify(r) = IF x.is = "body" /\ Legal(x.body) THEN x.body ELSE <<>>
            /\ Legal(x.body) => x.body # <<>>
            /\ HubVerify(r) \in Seq(Byte)
        BY <1>4, VerdictsAgree
      <4>. HIDE DEF x
      <4>5. CASE x.is = "body" /\ Legal(x.body)
        <5>1. HubVerify(r) = x.body /\ x.body # <<>> /\ x.body \in Seq(Byte)
          BY <4>4, <4>5
        <5>2. onBody' = Append(onBody, x.body) /\ drops' = drops
          BY <4>3, <5>1
        <5>3. Len(onBody') = Len(onBody) + 1
          BY <1>6, <5>1, <5>2, AppendProperties DEF Bodies
        <5>4. Taken(w) = onBody'
          BY <4>1, <4>5, <5>2 DEF TakeLegal, x
        <5>. QED
          BY <1>6, <3>1, <4>2, <5>2, <5>3, <5>4
      <4>6. CASE ~(x.is = "body" /\ Legal(x.body))
        <5>1. drops' = drops + 1 /\ onBody' = onBody
          BY <4>3, <4>4, <4>6
        <5>2. Taken(w) = onBody'
          BY <4>1, <4>6, <5>1 DEF TakeLegal, x
        <5>. QED
          BY <1>6, <3>1, <4>2, <5>1, <5>2
      <4>. QED
        BY <4>5, <4>6
    <3>. QED
      BY <3>2, <3>3
  <2>. HIDE DEF w
  <2>6. InStepInv'
    BY <2>1, <2>2, <2>4, <2>5 DEF InStepInv
  <2>. QED
    BY <1>3, <2>6 DEF EndsInv
<1>. QED
  BY <1>7, <1>8

LEMMA ReadEnds ==
  ASSUME EndsInv, HostRead
  PROVE  EndsInv'
<1>1. /\ unread' = <<>> /\ hostRun' = Caught.rest /\ onBody' = <<>> /\ drops' = 0
      /\ runs' = 0 /\ over' = (over /\ ~sync) /\ buf' = buf /\ sync' = sync
  BY DEF HostRead, Caught
<1>2. EndsType /\ InStepInv
  BY DEF EndsInv
<1>3. Caught.rest \in Seq(NonZero)
  <2>1. hostRun \o unread \in Seq(Byte)
    <3>1. hostRun \in Seq(Byte) /\ unread \in Seq(Byte)
      BY <1>2 DEF EndsType, NonZero
    <3>. QED
      BY <3>1, ConcatProperties
  <2>2. 0 \in Byte
    BY SizeAssumption DEF Byte
  <2>3. Caught \in ScanState
    BY <2>1, <2>2, ScanAppend DEF Caught
  <2>. QED
    BY <2>3 DEF ScanState
<1>4. EndsType'
  BY <1>1, <1>2, <1>3, EmptySeq DEF EndsType, Bodies
<1>5. Caught'.verdicts = <<>> /\ Caught'.rest = Caught.rest
  <2>. DEFINE r == Caught.rest
  <2>1. r \o <<>> = r
    BY <1>3, ConcatEmptySeq
  <2>2. Caught' = Scan(r)
    BY <1>1, <2>1 DEF Caught
  <2>. HIDE DEF r
  <2>3. Scan(r) = [verdicts |-> <<>>, rest |-> r]
    BY <1>3, RunWaits DEF r
  <2>4. Caught'.verdicts = <<>> /\ Caught'.rest = r
    BY <2>2, <2>3
  <2>. QED
    BY <2>4 DEF r
<1>6. Len(<<>>) = 0 /\ Taken(<<>>) = <<>>
  BY NothingTaken
<1>7. InStepInv'
  <2>1. (sync <=> Caught.rest = <<>>) /\ (sync => buf = <<>>) /\ (~over => Caught.rest = buf)
    BY <1>2 DEF InStepInv
  <2>2. ~over' => Caught.rest = buf
    BY <1>1, <2>1
  <2>. QED
    BY <1>1, <1>5, <1>6, <2>1, <2>2 DEF InStepInv
<1>. QED
  BY <1>4, <1>7 DEF EndsInv

LEMMA StillEnds ==
  ASSUME EndsInv, UNCHANGED <<hubVars, hostVars>>
  PROVE  EndsInv'
BY DEF EndsInv, EndsType, InStepInv, Caught, hubVars, hostVars

-----------------------------------------------------------------------------
\* What the hub has of an intact frame and what is still to come of it.
Intact ==
    /\ cur \in Body
    /\ buf \in Seq(Byte) /\ toCome \in Seq(Byte) /\ toCome # <<>>
    /\ buf \o toCome = Append(HostFrame(cur), 0)

\* After a zero the buffer is empty: that is why a frame that begins there is
\* alone in it.
FrameInv ==
    /\ sync => buf = <<>>
    /\ whole /\ Legal(cur) => Intact

LEMMA MaxWireInt == MaxWire \in Int
BY SizeAssumption DEF MaxWire

LEMMA NextByteMoves ==
  ASSUME NEW S, NEW s \in Seq(S), NEW t \in Seq(S), t # <<>>
  PROVE  /\ Head(t) \in S /\ Tail(t) \in Seq(S)
         /\ Append(s, Head(t)) \in Seq(S)
         /\ Append(s, Head(t)) \o Tail(t) = s \o t
<1>1. Len(t) \in Nat /\ Len(t) > 0 /\ Len(s) \in Nat
  BY EmptySeq
<1>2. Head(t) \in S /\ Tail(t) \in Seq(S) /\ Len(Tail(t)) = Len(t) - 1
  BY <1>1
<1>3. Append(s, Head(t)) \in Seq(S) /\ Len(Append(s, Head(t))) = Len(s) + 1
  BY <1>2
<1>4. Len(Append(s, Head(t)) \o Tail(t)) = Len(s \o t)
  BY <1>1, <1>2, <1>3
<1>5. ASSUME NEW i \in 1 .. Len(s \o t)
      PROVE  (Append(s, Head(t)) \o Tail(t))[i] = (s \o t)[i]
  BY <1>1, <1>2, <1>3
<1>6. Append(s, Head(t)) \o Tail(t) \in Seq(S) /\ s \o t \in Seq(S)
  BY <1>2, <1>3
<1>. QED
  BY <1>2, <1>3, <1>4, <1>5, <1>6, SeqEqual

\* Within an intact frame: its last byte is the zero, and no other is one.
LEMMA NextByte ==
  ASSUME Intact, Legal(cur)
  PROVE  /\ HostFrame(cur) \in Seq(Byte \ {0}) /\ Sound(cur)
         /\ Tail(toCome) = <<>> => buf = HostFrame(cur) /\ Head(toCome) = 0
         /\ Tail(toCome) # <<>> =>
              /\ Head(toCome) \in Byte \ {0}
              /\ Len(buf) < MaxWire
<1>. DEFINE f == HostFrame(cur)
<1>1. Sound(cur) /\ f \in Seq(Byte \ {0}) /\ Len(f) < MaxWire /\ Len(f) \in Nat
  BY CodecsSound DEF Intact, Sound
<1>2. /\ Len(buf) \in Nat /\ Len(toCome) \in Nat /\ Len(toCome) > 0
      /\ Len(buf \o toCome) = Len(buf) + Len(toCome)
      /\ Len(Append(f, 0)) = Len(f) + 1
  BY <1>1, EmptySeq DEF Intact
<1>3. Len(buf) + Len(toCome) = Len(f) + 1
  BY <1>2 DEF Intact
<1>4. ASSUME NEW i \in 1 .. Len(f) + 1
      PROVE  (buf \o toCome)[i] = IF i <= Len(f) THEN f[i] ELSE 0
  BY <1>1 DEF Intact
<1>5. Head(toCome) = (buf \o toCome)[Len(buf) + 1]
  <2>1. buf \in Seq(Byte) /\ toCome \in Seq(Byte)
    BY DEF Intact
  <2>2. Head(toCome) = toCome[1] /\ Len(buf) + 1 \in 1 .. Len(buf) + Len(toCome)
    BY <1>2, <2>1
  <2>. QED
    BY <1>2, <2>1, <2>2
<1>6. Len(Tail(toCome)) = Len(toCome) - 1 /\ Tail(toCome) \in Seq(Byte)
  BY <1>2 DEF Intact
<1>7. CASE Tail(toCome) = <<>>
  <2>1. Len(toCome) = 1 /\ Len(buf) = Len(f)
    <3>. HIDE DEF f
    <3>1. Len(Tail(toCome)) = 0
      BY <1>6, <1>7, EmptySeq
    <3>2. Len(toCome) - 1 = 0
      BY <1>6, <3>1, Zenon
    <3>3. Len(toCome) = 1
      BY <1>2, <3>2
    <3>. QED
      BY <1>1, <1>2, <1>3, <3>3
  <2>2. Head(toCome) = 0
    <3>1. Len(f) + 1 \in 1 .. Len(f) + 1 /\ ~(Len(f) + 1 <= Len(f))
      BY <1>1
    <3>. QED
      BY <1>4, <1>5, <2>1, <3>1
  <2>3. ASSUME NEW i \in 1 .. Len(f)
        PROVE  buf[i] = f[i]
    <3>1. (buf \o toCome)[i] = buf[i]
      BY <2>1, <1>2 DEF Intact
    <3>. QED
      BY <3>1, <1>4, <1>1
  <2>4. buf = f
    BY <1>1, <2>1, <2>3, SeqEqual DEF Intact
  <2>. QED
    BY <1>1, <1>7, <2>2, <2>4
<1>8. CASE Tail(toCome) # <<>>
  <2>1. Len(toCome) > 1
    BY <1>2, <1>6, <1>8, EmptySeq
  <2>2. Len(buf) + 1 \in 1 .. Len(f)
    BY <1>1, <1>2, <1>3, <2>1
  <2>3. Head(toCome) = f[Len(buf) + 1]
    BY <1>1, <1>4, <1>5, <2>2
  <2>4. f[Len(buf) + 1] \in Byte \ {0}
    BY <1>1, <2>2
  <2>5. Len(buf) < MaxWire
    <3>. HIDE DEF f
    <3>. QED
      BY <1>1, <1>2, <2>2, MaxWireInt
  <2>. QED
    BY <1>1, <1>8, <2>3, <2>4, <2>5
<1>. QED
  BY <1>7, <1>8

LEMMA InitFrame == UartInit => FrameInv
BY DEF UartInit, FrameInv

LEMMA SendFrame ==
  ASSUME FrameInv, NEW b \in Body, HostSends(b) \/ HubSends(b)
  PROVE  FrameInv'
<1>1. PICK framed : framed \in {HostFrame(b), HubFrame(b)} /\ Send(b, framed)
  BY DEF HostSends, HubSends
<1>2. (sync => buf = <<>>)'
  BY <1>1 DEF Send, FrameInv, hubVars
<1>3. ASSUME whole', Legal(cur')
      PROVE  Intact'
  <2>1. CASE framed = <<>>
    BY <1>1, <1>3, <2>1 DEF Send, FrameInv, Intact, hubVars
  <2>2. CASE framed # <<>>
    <3>1. cur' = b /\ toCome' = Append(framed, 0) /\ buf' = <<>>
      BY <1>1, <1>3, <2>2 DEF Send, FrameInv, hubVars
    <3>2. framed = HostFrame(b) /\ framed \in Seq(Byte \ {0})
      BY <1>1, <1>3, <3>1, CodecsSound DEF Sound
    <3>3. 0 \in Byte
      BY SizeAssumption DEF Byte
    <3>4. framed \in Seq(Byte) /\ Append(framed, 0) \in Seq(Byte)
      BY <3>2, <3>3
    <3>5. Append(framed, 0) # <<>>
      <4>1. Len(Append(framed, 0)) = Len(framed) + 1 /\ Len(framed) \in Nat
        BY <3>2
      <4>. QED
        BY <4>1, <3>4, EmptySeq
    <3>6. <<>> \o Append(framed, 0) = Append(framed, 0)
      BY <3>4
    <3>. QED
      BY <3>1, <3>2, <3>4, <3>5, <3>6 DEF Intact
  <2>. QED
    BY <2>1, <2>2
<1>. QED
  BY <1>2, <1>3 DEF FrameInv

LEMMA FeedEmpties ==
  ASSUME NEW b, Feed(b), b = 0
  PROVE  buf' = <<>>
BY DEF Feed

LEMMA ArriveFrame ==
  ASSUME FrameInv, Arrive
  PROVE  FrameInv'
<1>1. (sync => buf = <<>>)'
  BY FeedEmpties DEF Arrive, Take
<1>2. ASSUME whole', Legal(cur')
      PROVE  Intact'
  <2>1. whole /\ toCome' = Tail(toCome) /\ toCome' # <<>> /\ cur' = cur
    BY <1>2 DEF Arrive, Gone
  <2>2. Legal(cur) /\ Intact
    BY <1>2, <2>1 DEF FrameInv, Legal
  <2>3. Head(toCome) \in Byte \ {0} /\ Len(buf) < MaxWire
    BY <2>1, <2>2, NextByte
  <2>4. buf' = Append(buf, Head(toCome))
    <3>1. Len(buf) \in Nat
      BY <2>2 DEF Intact
    <3>. QED
      BY <2>3, <3>1, MaxWireInt DEF Arrive, Take, Feed
  <2>5. /\ Tail(toCome) \in Seq(Byte) /\ Append(buf, Head(toCome)) \in Seq(Byte)
        /\ Append(buf, Head(toCome)) \o Tail(toCome) = buf \o toCome
    BY <2>2, NextByteMoves DEF Intact
  <2>. QED
    BY <2>1, <2>2, <2>4, <2>5 DEF Intact
<1>. QED
  BY <1>1, <1>2 DEF FrameInv

LEMMA NoiseFrame ==
  ASSUME FrameInv, NEW b \in Byte, Noise(b)
  PROVE  FrameInv'
<1>1. (sync => buf = <<>>)'
  BY FeedEmpties DEF Noise, Take
<1>2. ~whole'
  BY DEF Noise
<1>. QED
  BY <1>1, <1>2 DEF FrameInv

LEMMA LoseFrame ==
  ASSUME FrameInv, LoseByte
  PROVE  FrameInv'
<1>1. ~whole'
  BY DEF LoseByte, Gone
<1>2. (sync => buf = <<>>)'
  BY DEF FrameInv, LoseByte, hubVars
<1>. QED
  BY <1>1, <1>2 DEF FrameInv

LEMMA ReadFrame == FrameInv /\ HostRead => FrameInv'
BY DEF FrameInv, Intact, HostRead, Legal, lineVars

LEMMA StutterFrame == FrameInv /\ UNCHANGED uartVars => FrameInv'
BY DEF FrameInv, Intact, Legal, uartVars, lineVars, hubVars, hostVars

LEMMA NextFrame ==
  ASSUME FrameInv, [UartNext]_uartVars
  PROVE  FrameInv'
BY SendFrame, ArriveFrame, LoseFrame, NoiseFrame, ReadFrame, StutterFrame DEF UartNext

LEMMA FrameInvariant == UartSpec => []FrameInv
BY InitFrame, NextFrame, PTL DEF UartSpec

-----------------------------------------------------------------------------
\* The zero that ends an intact frame is taken by Arrive.
LEMMA LastByteArrives ==
  ASSUME UartNext, LastByte
  PROVE  Arrive
<1>1. toCome # toCome' /\ toCome # <<>>
  BY DEF LastByte
<1>2. ASSUME NEW b \in Body, HostSends(b) \/ HubSends(b) PROVE FALSE
  BY <1>1, <1>2 DEF HostSends, HubSends, Send
<1>3. ASSUME NEW b \in Byte, Noise(b) PROVE FALSE
  BY <1>1, <1>3 DEF Noise
<1>4. ~HostRead
  BY <1>1 DEF HostRead, lineVars
<1>5. ~LoseByte
  BY DEF LastByte, LoseByte, hostVars
<1>. QED
  BY <1>2, <1>3, <1>4, <1>5 DEF UartNext

LEMMA HearsStep ==
  ASSUME FrameInv, UartNext, LastByte, Legal(cur)
  PROVE  onBody' = Append(onBody, cur)
<1>1. Intact /\ toCome = <<0>>
  BY DEF FrameInv, LastByte
<1>2. Tail(toCome) = <<>> /\ Head(toCome) = 0
  BY <1>1
<1>3. buf = HostFrame(cur) /\ Sound(cur)
  BY <1>1, <1>2, NextByte
<1>4. buf # <<>> /\ HubVerify(buf) = cur
  BY <1>3 DEF Sound
<1>5. cur # <<>>
  BY DEF Legal
<1>6. Feed(0)
  BY <1>2, LastByteArrives DEF Arrive, Take
<1>. QED
  BY <1>4, <1>5, <1>6 DEF Feed

(* An intact frame gets to the hub's on_body, whatever came before it: for  *)
(* all bodies, sizes, check sums and faults.                                *)
THEOREM IntactFramesAreHeard == UartSpec => HubHearsIntact
<1>1. ASSUME FrameInv, [UartNext]_uartVars
      PROVE  [LastByte /\ Legal(cur) => onBody' = Append(onBody, cur)]_uartVars
  <2>1. CASE UartNext
    BY <1>1, <2>1, HearsStep
  <2>2. CASE UNCHANGED uartVars
    BY <2>2
  <2>. QED
    BY <1>1, <2>1, <2>2
<1>. QED
  BY <1>1, FrameInvariant, PTL DEF UartSpec, HubHearsIntact

-----------------------------------------------------------------------------
\* The buffer fits because what is fed to it is a byte.
BufferInv == BufferFits /\ toCome \in Seq(Byte)

LEMMA FeedFits ==
  ASSUME BufferFits, NEW b \in Byte, Feed(b)
  PROVE  BufferFits'
<1>1. /\ <<>> \in Seq(Byte \ {0}) /\ Len(<<>>) = 0
      /\ Len(buf) \in Nat /\ MaxWire \in Int /\ Len(buf) <= MaxWire
  BY MaxWireInt DEF BufferFits
<1>2. CASE buf' = <<>>
  BY <1>1, <1>2 DEF BufferFits
<1>3. CASE b # 0 /\ Len(buf) < MaxWire /\ buf' = Append(buf, b)
  <2>1. /\ buf' \in Seq(Byte \ {0})
        /\ Len(buf') = Len(buf) + 1
    BY <1>3 DEF BufferFits
  <2>. QED
    BY <1>1, <1>3, <2>1 DEF BufferFits
<1>4. CASE buf' = buf
  BY <1>4 DEF BufferFits
<1>. QED
  BY <1>2, <1>3, <1>4 DEF Feed

LEMMA HeadAndTail ==
  ASSUME NEW S, NEW s \in Seq(S), s # <<>>
  PROVE  Head(s) \in S /\ Tail(s) \in Seq(S)
BY EmptySeq

LEMMA InitFits ==
  ASSUME UartInit
  PROVE  BufferInv
<1>1. MaxWire >= 0
  <2>1. 0 \in Nat /\ 0 <= MaxBody + CrcLen
    BY SizeAssumption
  <2>2. MaxWire \in Nat
    BY <2>1, WireRoom
  <2>. QED
    BY <2>2
<1>. QED
  BY <1>1, MaxWireInt DEF UartInit, BufferInv, BufferFits

LEMMA SendFits ==
  ASSUME BufferInv, NEW b \in Body, HostSends(b) \/ HubSends(b)
  PROVE  BufferInv'
<1>1. PICK framed : framed \in {HostFrame(b), HubFrame(b)} /\ Send(b, framed)
  BY DEF HostSends, HubSends
<1>2. framed \in Seq(Byte) /\ 0 \in Byte
  BY <1>1, FramesBytes, SizeAssumption DEF Byte
<1>3. toCome' \in Seq(Byte)
  BY <1>1, <1>2 DEF Send, BufferInv
<1>4. BufferFits'
  BY <1>1 DEF Send, BufferInv, BufferFits, hubVars
<1>. QED
  BY <1>3, <1>4 DEF BufferInv

LEMMA LineFits ==
  ASSUME BufferInv, Arrive \/ LoseByte \/ HostRead \/ \E b \in Byte : Noise(b)
  PROVE  BufferInv'
<1>1. CASE Arrive
  <2>1. Head(toCome) \in Byte /\ Tail(toCome) \in Seq(Byte)
    BY <1>1, HeadAndTail DEF Arrive, Gone, BufferInv
  <2>. QED
    BY <1>1, <2>1, FeedFits DEF Arrive, Gone, Take, BufferInv
<1>2. CASE LoseByte
  <2>1. Tail(toCome) \in Seq(Byte)
    BY <1>2, HeadAndTail DEF LoseByte, Gone, BufferInv
  <2>. QED
    BY <1>2, <2>1 DEF LoseByte, Gone, BufferInv, BufferFits, hubVars
<1>3. CASE HostRead
  BY <1>3 DEF HostRead, BufferInv, BufferFits, lineVars
<1>4. CASE \E b \in Byte : Noise(b)
  BY <1>4, FeedFits DEF Noise, Take, BufferInv
<1>. QED
  BY <1>1, <1>2, <1>3, <1>4

LEMMA NextFits ==
  ASSUME BufferInv, [UartNext]_uartVars
  PROVE  BufferInv'
<1>1. CASE UNCHANGED uartVars
  BY <1>1 DEF BufferInv, BufferFits, uartVars, lineVars, hubVars
<1>. QED
  BY <1>1, SendFits, LineFits DEF UartNext

(* Whatever bytes are lost or added, transport_decoder_feed never writes    *)
(* past the end of the hub's buffer, for all sizes.                         *)
THEOREM BufferNeverOverflows == UartSpec => []BufferFits
<1>1. BufferInv => BufferFits
  BY DEF BufferInv
<1>. QED
  BY <1>1, InitFits, NextFits, PTL DEF UartSpec

-----------------------------------------------------------------------------
LEMMA NextEnds ==
  ASSUME EndsInv, BufferInv, [UartNext]_uartVars
  PROVE  EndsInv'
<1>1. CASE UNCHANGED uartVars
  BY <1>1, StillEnds DEF uartVars
<1>2. ASSUME NEW b \in Body, HostSends(b) \/ HubSends(b) PROVE EndsInv'
  BY <1>2, StillEnds DEF HostSends, HubSends, Send
<1>3. CASE Arrive
  <2>1. Head(toCome) \in Byte
    BY <1>3, HeadAndTail DEF Arrive, Gone, BufferInv
  <2>. QED
    BY <1>3, <2>1, TakeEnds DEF Arrive
<1>4. CASE LoseByte
  BY <1>4, StillEnds DEF LoseByte
<1>5. ASSUME NEW b \in Byte, Noise(b) PROVE EndsInv'
  BY <1>5, TakeEnds DEF Noise
<1>6. CASE HostRead
  BY <1>6, ReadEnds
<1>. QED
  BY <1>1, <1>2, <1>3, <1>4, <1>5, <1>6 DEF UartNext

LEMMA EndsInvariant == UartSpec => []EndsInv
<1>1. UartInit => EndsInv /\ BufferInv
  BY InitEnds, InitFits
<1>2. EndsInv /\ BufferInv /\ [UartNext]_uartVars => EndsInv' /\ BufferInv'
  BY NextEnds, NextFits
<1>. QED
  BY <1>1, <1>2, PTL DEF UartSpec

(* Whatever chunks the host reads the bytes in, whatever is lost or added,  *)
(* it hands up the bodies that the hub hands up, in their order, unless the *)
(* hub's buffer overflowed.                                                 *)
THEOREM EndsAgree == UartSpec => DecodersAgree
<1>1. EndsInv => [Reads => over \/ Folded(TakeLegal, <<>>, Heard) = onBody]_uartVars
  BY DEF EndsInv, InStepInv, Caught, Heard, Taken
<1>. QED
  BY <1>1, EndsInvariant, PTL DEF UartSpec, DecodersAgree

(* Every run that ends gets one verdict on the host and is a body or a      *)
(* counted drop on the hub.                                                 *)
THEOREM NothingIsLostSilently == UartSpec => NoSilentLoss
<1>1. EndsInv => [Reads => Len(Heard) = runs /\ (over \/ Len(onBody) + drops = runs)]_uartVars
  BY DEF EndsInv, InStepInv, Caught, Heard
<1>. QED
  BY <1>1, EndsInvariant, PTL DEF UartSpec, NoSilentLoss

-----------------------------------------------------------------------------
\* What is on the line.
LineType ==
    /\ cur \in Body \cup {<<>>} /\ whole \in BOOLEAN
    /\ faults \in 0 .. MaxFaults

LEMMA NextLine ==
  ASSUME LineType, EndsType, [UartNext]_uartVars
  PROVE  LineType'
<1>0. MaxFaults \in Nat /\ sync \in BOOLEAN /\ faults \in 0 .. MaxFaults /\ whole \in BOOLEAN
  BY SizeAssumption DEF LineType, EndsType
<1>1. CASE UNCHANGED uartVars
  BY <1>1 DEF uartVars, lineVars, LineType
<1>2. ASSUME NEW b \in Body, HostSends(b) \/ HubSends(b) PROVE LineType'
  <2>1. PICK framed : Send(b, framed)
    BY <1>2 DEF HostSends, HubSends
  <2>2. (cur' = b \/ cur' = cur) /\ (whole' = sync \/ whole' = whole) /\ faults' = faults
    BY <2>1 DEF Send
  <2>. QED
    BY <1>0, <2>2 DEF LineType
<1>3. CASE Arrive
  <2>1. (cur' = <<>> \/ cur' = cur) /\ whole' \in BOOLEAN /\ faults' = faults
    BY <1>3 DEF Arrive, Gone
  <2>. QED
    BY <1>0, <2>1 DEF LineType
<1>4. CASE LoseByte
  <2>1. (cur' = <<>> \/ cur' = cur) /\ whole' \in BOOLEAN
    BY <1>4 DEF LoseByte, Gone
  <2>2. faults' \in 0 .. MaxFaults
    BY <1>0, <1>4 DEF LoseByte
  <2>. QED
    BY <1>0, <2>1, <2>2 DEF LineType
<1>5. ASSUME NEW b \in Byte, Noise(b) PROVE LineType'
  <2>1. cur' = cur /\ whole' \in BOOLEAN
    BY <1>5 DEF Noise
  <2>2. faults' \in 0 .. MaxFaults
    BY <1>0, <1>5 DEF Noise
  <2>. QED
    BY <1>0, <2>1, <2>2 DEF LineType
<1>6. CASE HostRead
  BY <1>6 DEF HostRead, lineVars, LineType
<1>. QED
  BY <1>1, <1>2, <1>3, <1>4, <1>5, <1>6 DEF UartNext

(* The variables of the line and of both receivers keep their types.        *)
THEOREM UartTypes == UartSpec => []UartTypeOK
<1>1. UartInit => LineType
  <2>1. 0 \in 0 .. MaxFaults
    BY SizeAssumption
  <2>. QED
    BY <2>1 DEF UartInit, LineType
<1>2. EndsInv => EndsType
  BY DEF EndsInv
<1>3. LineType /\ EndsType /\ BufferInv => UartTypeOK
  BY DEF LineType, EndsType, BufferInv, UartTypeOK, NonZero, Bodies
<1>4. UartInit => BufferInv
  BY InitFits
<1>5. BufferInv /\ [UartNext]_uartVars => BufferInv'
  BY NextFits
<1>6. LineType /\ EndsType /\ [UartNext]_uartVars => LineType'
  BY NextLine
<1>. QED
  BY <1>1, <1>2, <1>3, <1>4, <1>5, <1>6, EndsInvariant, PTL DEF UartSpec

(* The hub's codec and the host's make one frame of every body that fits,   *)
(* without a zero and no longer than the hub's buffer, and both take it for *)
(* that body.                                                               *)
THEOREM CodecsAreOne == UartSpec => []CodecsMirror
<1>1. UartTypeOK => CodecsMirror
  <2>. SUFFICES ASSUME UartTypeOK, cur # <<>>, Legal(cur) PROVE Sound(cur)
    BY DEF CodecsMirror
  <2>1. cur \in Body
    BY DEF UartTypeOK
  <2>. QED
    BY <2>1, CodecsSound
<1>. QED
  BY <1>1, UartTypes, PTL

=============================================================================
