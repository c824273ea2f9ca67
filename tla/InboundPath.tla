----------------------------- MODULE InboundPath -----------------------------
(***************************************************************************)
(* The inbound half of the host: a hub samples its out ports, the link     *)
(* owner (host/link_owner.ex) writes every frame into the slot's registry  *)
(* row, and three kinds of reader look at the rows on beats of their own:  *)
(* sensor views (bb_hub/sensor.ex) publish a reading, observers            *)
(* (observer.ex) hand a sample to their sink, and actuator views           *)
(* (bb_hub/actuator.ex) answer live/1 from the hub's status.  Each trusts  *)
(* a row through a Monitor.                                                *)
(*                                                                         *)
(* The wire, the transport and the link owner's mailbox are one queue: it  *)
(* loses frames anywhere and never reorders them, which the point-to-point *)
(* links give.  Processes crash and are restarted by their supervisors.    *)
(***************************************************************************)
EXTENDS Monitor, Sequences

CONSTANTS
  Slot,       \* the {node, port} slots of the hub
  Value,      \* what a reading may say
  Driving,    \* a status value with floored: false, one of them
  NoValue,    \* the value of a slot that has no row
  Reader,     \* the processes that read slots
  Watches,    \* Watches[c]: the slot that reader c reads
  WireCap     \* how many frames fit between a hub and the link owner

ASSUME InboundAssumption ==
  /\ Driving \in Value /\ NoValue \notin Value
  /\ Watches \in [Reader -> Slot]
  /\ WireCap \in Nat

VARIABLES
  hubSeq,     \* g_seq_<port> and g_status_seq_<port> of the hub
  wire,       \* frames between the hub and the link owner, oldest first
  up,         \* the registry process, and so its ETS table, is there
  rows,       \* the registry's rows
  kind,       \* what each reader is: chosen at the start, for good
  mon,        \* the readers' monitors
  reading,    \* sensor views that are between check and the second read
  given,      \* the row that a reader last passed on as current, or NoRow
  age         \* history: the reader's beats since its slot was last written,
              \* counted to Old; Old too if not written since it started

link == <<hubSeq, wire>>
registry == <<up, rows>>
readers == <<mon, reading, given>>
Kind == {"sensor", "observer", "actuator"}
vars == <<link, registry, kind, readers, age>>

Frame == [slot : Slot, seq : Seqs, value : Value]
Row == [seq : Seqs, value : Value]
NoRow == [seq |-> NoSeq, value |-> NoValue]
Old == FreshFor + 2

Init ==
  /\ hubSeq = [s \in Slot |-> 0]
  /\ wire = <<>>
  /\ up = TRUE
  /\ rows = [s \in Slot |-> NoRow]
  /\ kind \in [Reader -> Kind]
  /\ mon = [c \in Reader |-> NewMonitor]
  /\ reading = {}
  /\ given = [c \in Reader |-> NoRow]
  /\ age = [c \in Reader |-> Old]

-----------------------------------------------------------------------------
(* The hub and the link.                                                    *)

(* <port>_sample_tick.  A read that fails returns before this. *)
Sample(s, v) ==
  LET seq == (hubSeq[s] + 1) % SeqMod
      f   == [slot |-> s, seq |-> seq, value |-> v]
  IN /\ hubSeq' = [hubSeq EXCEPT ![s] = seq]
     /\ wire' = IF Len(wire) < WireCap THEN Append(wire, f) ELSE wire
     /\ UNCHANGED <<registry, kind, readers, age>>

HubReset ==
  /\ hubSeq' = [s \in Slot |-> 0]
  /\ UNCHANGED <<wire, registry, kind, readers, age>>

Lose(i) ==
  /\ wire' = SubSeq(wire, 1, i - 1) \o SubSeq(wire, i + 1, Len(wire))
  /\ UNCHANGED <<hubSeq, registry, kind, readers, age>>

(* The link owner crashes: its mailbox is gone, the rows are not.  It keeps *)
(* nothing else that a row depends on.                                      *)
LinkCrash ==
  /\ wire' = <<>>
  /\ UNCHANGED <<hubSeq, registry, kind, readers, age>>

(* handle_info of the link owner: decode, and put the row. *)
Deliver ==
  /\ up /\ wire # <<>>
  /\ LET f == Head(wire) IN
       /\ rows' = [rows EXCEPT ![f.slot] = [seq |-> f.seq, value |-> f.value]]
       /\ age' = [c \in Reader |-> IF Watches[c] = f.slot THEN 0 ELSE age[c]]
  /\ wire' = Tail(wire)
  /\ UNCHANGED <<hubSeq, up, kind, readers>>

(* There is no table to put into: the link owner crashes. *)
DeliverDown == ~up /\ wire # <<>> /\ LinkCrash

-----------------------------------------------------------------------------
(* The registry: the table dies with the process that owns it.              *)

RegistryCrash ==
  /\ up /\ up' = FALSE
  /\ rows' = [s \in Slot |-> NoRow]
  /\ UNCHANGED <<link, kind, readers, age>>

RegistryRestart ==
  /\ ~up /\ up' = TRUE
  /\ UNCHANGED <<rows, link, kind, readers, age>>

-----------------------------------------------------------------------------
(* The readers.                                                             *)

(* A reader starts again from init: a new monitor, born stale. *)
Restart(c) ==
  /\ mon' = [mon EXCEPT ![c] = NewMonitor]
  /\ reading' = reading \ {c}
  /\ given' = [given EXCEPT ![c] = NoRow]
  /\ age' = [age EXCEPT ![c] = Old]
  /\ UNCHANGED <<link, registry, kind>>

RowOf(c) == rows[Watches[c]]
Checked(c) == Check(mon[c], RowOf(c).seq)
Beats(c) == age' = [age EXCEPT ![c] = IF @ < Old THEN @ + 1 ELSE Old]

(* :beat of a sensor view, up to the monitor's verdict. *)
SensorBeat(c) ==
  /\ up /\ c \notin reading
  /\ mon' = [mon EXCEPT ![c] = Checked(c)]
  /\ reading' = IF Checked(c).fresh THEN reading \cup {c} ELSE reading
  /\ given' = [given EXCEPT ![c] = NoRow]
  /\ Beats(c)
  /\ UNCHANGED <<link, registry, kind>>

(* The second read of the same beat is what gets published. *)
Publish(c) ==
  /\ c \in reading /\ up /\ RowOf(c) # NoRow
  /\ given' = [given EXCEPT ![c] = RowOf(c)]
  /\ reading' = reading \ {c}
  /\ UNCHANGED <<link, registry, kind, mon, age>>

(* The second read finds no row, or no table: the match or the lookup       *)
(* raises, and the view crashes.                                            *)
PublishCrash(c) ==
  /\ c \in reading /\ (~up \/ RowOf(c) = NoRow)
  /\ Restart(c)

(* :sample of an observer, for one slot: it hands over the row it judged. *)
ObserverBeat(c) ==
  /\ up /\ ~(Checked(c).fresh /\ RowOf(c) = NoRow)
  /\ mon' = [mon EXCEPT ![c] = Checked(c)]
  /\ given' = [given EXCEPT ![c] = IF Checked(c).fresh THEN RowOf(c) ELSE NoRow]
  /\ Beats(c)
  /\ UNCHANGED <<link, registry, kind, reading>>

(* Fresh with no row, which only a registry that restarted leaves behind: *)
(* the match on the row raises.                                           *)
ObserverCrash(c) ==
  /\ up /\ Checked(c).fresh /\ RowOf(c) = NoRow
  /\ Restart(c)

(* :status_beat of an actuator view.  An earlier answer of live/1 is over. *)
ActuatorBeat(c) ==
  /\ up
  /\ mon' = [mon EXCEPT ![c] = Checked(c)]
  /\ given' = [given EXCEPT ![c] = NoRow]
  /\ Beats(c)
  /\ UNCHANGED <<link, registry, kind, reading>>

(* Mutant: live/1 reads the raw slot. *)
LiveUngated(c) ==
  /\ up /\ kind[c] = "actuator"
  /\ given' = [given EXCEPT ![c] = IF RowOf(c).value = Driving
                                   THEN RowOf(c) ELSE NoRow]
  /\ UNCHANGED <<link, registry, kind, mon, reading, age>>

(* live/1, at any time between two beats: :driving passes the row on. *)
Live(c) ==
  /\ up /\ kind[c] = "actuator"
  /\ given' = [given EXCEPT ![c] = IF mon[c].fresh /\ RowOf(c).value = Driving
                                   THEN RowOf(c) ELSE NoRow]
  /\ UNCHANGED <<link, registry, kind, mon, reading, age>>

(* A beat without a table: the lookup raises. *)
BeatDown(c) == ~up /\ c \notin reading /\ Restart(c)

Beat(c) ==
  \/ kind[c] = "sensor" /\ (SensorBeat(c) \/ Publish(c) \/ PublishCrash(c))
  \/ kind[c] = "observer" /\ (ObserverBeat(c) \/ ObserverCrash(c))
  \/ kind[c] = "actuator" /\ ActuatorBeat(c)
  \/ BeatDown(c)

Next ==
  \/ \E s \in Slot, v \in Value : Sample(s, v)
  \/ HubReset
  \/ \E i \in DOMAIN wire : Lose(i)
  \/ Deliver
  \/ DeliverDown
  \/ LinkCrash
  \/ RegistryCrash
  \/ RegistryRestart
  \/ \E c \in Reader : Beat(c)
  \/ \E c \in Reader : Live(c)
  \/ \E c \in Reader : Restart(c)

Spec == Init /\ [][Next]_vars

(* The readers' timers go on firing and the supervisors restart what died.  *)
(* Nothing is assumed of the hub or the link.                               *)
Fairness == WF_vars(RegistryRestart) /\ \A c \in Reader : WF_vars(Beat(c))
FairSpec == Spec /\ Fairness

-----------------------------------------------------------------------------
(* The types of the variables. *)
TypeOK ==
  /\ hubSeq \in [Slot -> Seqs]
  /\ wire \in Seq(Frame)
  /\ up \in BOOLEAN
  /\ rows \in [Slot -> Row \cup {NoRow}]
  /\ mon \in [Reader -> MonitorState]
  /\ kind \in [Reader -> Kind]
  /\ reading \in SUBSET {c \in Reader : kind[c] = "sensor"}
  /\ given \in [Reader -> Row \cup {NoRow}]
  /\ age \in [Reader -> 0 .. Old]

(* "Born stale", and fresh for fresh_for beats (monitor.ex): whatever a     *)
(* reader passes on - a published reading, a sample, :driving - it has that *)
(* from a slot that was written since the reader started, and not more than *)
(* fresh_for of its beats before the one that judged it.  No leftover row,  *)
(* restart of a hub, a reader, the link or the registry gets around it.     *)
GivenIsRecent == \A c \in Reader : given[c] # NoRow => age[c] <= FreshFor + 1

(* A hub that no longer reports driving is not shown as driving for good,   *)
(* whether its status frames arrive or not ("a stale 'not floored' must     *)
(* never read as driving", actuator.ex).                                    *)
FlooredShows ==
  \A c \in Reader :
    kind[c] = "actuator" /\ <>[](\A i \in DOMAIN wire : wire[i].slot = Watches[c]
                                  => wire[i].value # Driving)
      => <>[](given[c] = NoRow)

(* A slot that falls silent stops being passed on, for every kind of        *)
(* reader.                                                                  *)
SilenceShows ==
  \A c \in Reader :
    <>[](\A i \in DOMAIN wire : wire[i].slot # Watches[c])
      => <>[](given[c] = NoRow)

(* The strengthening: only a slot written since the reader's last beat can  *)
(* show it an advance, so a monitor that trusts its slot has seen a write   *)
(* of it no longer ago than its idle beats and the beat that saw it.        *)
MonitorInv ==
  \A c \in Reader :
    /\ Advance(mon[c], RowOf(c).seq) => age[c] = 0
    /\ mon[c].witnessed => age[c] <= mon[c].idle + 1
    /\ mon[c].fresh => mon[c].witnessed /\ mon[c].idle <= FreshFor
    /\ c \in reading => mon[c].fresh

IInv == TypeOK /\ MonitorInv /\ GivenIsRecent
=============================================================================
