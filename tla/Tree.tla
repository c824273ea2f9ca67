-------------------------------- MODULE Tree --------------------------------
(***************************************************************************)
(* Frames in the tree of hubs: the router of router.c over the links that   *)
(* link_esp32.cpp realizes, driven by each hub's main loop.                 *)
(*                                                                         *)
(* A hub is known by its node id.  Link 0 leads up: from the root to the    *)
(* host UART, from any other hub to the backplane.  The root's link 1 is    *)
(* that same backplane; no board realizes another link.  The backplane is   *)
(* a UART pair, or a CAN bus on which every member takes in every frame     *)
(* (the acceptance filter of link_begin accepts all).  A frame here is a    *)
(* whole body: the medium loses it entirely or not at all.                  *)
(***************************************************************************)
EXTENDS Naturals, Sequences, FiniteSets

CONSTANTS
  Hub,         \* the node ids of the hubs
  Root,        \* the hub with the host UART
  Bus,         \* the hubs on the root's backplane, with the root
  Table,       \* hub -> node id -> link: the generated route tables
  Lossy,       \* whether a receiver may miss a frame
  RxCap,       \* frames a receive buffer holds; the next one is dropped
  MaxSend,     \* bound: commands sent by the host
  MaxDisarm,   \* bound: disarm broadcasts sent by the host
  MaxEmit      \* bound: samples emitted by each hub

Broadcast == 0
Local == 255
Node == Hub \cup {Broadcast}

ASSUME TreeAssumption ==
  /\ Hub \subseteq Nat \ {Broadcast} /\ Root \in Hub
  /\ Bus \subseteq Hub /\ Root \in Bus
  /\ Table \in [Hub -> [Node -> 0 .. 255]]
  /\ Lossy \in BOOLEAN
  /\ RxCap \in Nat /\ MaxSend \in Nat /\ MaxDisarm \in Nat
  /\ MaxEmit \in [Hub -> Nat]

(* What Topology shows of the tables of an accepted declaration: only a      *)
(* hub's own node is local to it, nothing leads to the broadcast node, the   *)
(* root sends no hub's frames up, and whatever it sends to its backplane is  *)
(* for a member or for a node that some member does not send back up.        *)
ASSUME TableAssumption ==
  /\ \A h \in Hub : Table[h][Broadcast] = 0
  /\ \A h, n \in Hub : Table[h][n] = Local <=> n = h
  /\ \A n \in Hub : Table[Root][n] # 0
  /\ \A n \in Hub :
       Table[Root][n] = 1 => \E h \in Bus \ {Root} : Table[h][n] # 0

VARIABLES
  pc,        \* where each hub's loop is: "host", "backplane" or "tasks"
  hostRx,    \* the root's host UART
  rx,        \* each hub's backplane receive buffer
  sent,      \* history: destinations of the commands sent; a command's id
             \* is its place here
  emitted,   \* samples emitted by each hub
  handed,    \* ids of the commands handed to each hub's ports
  heard,     \* frames that reached the host
  disarms,   \* disarm broadcasts sent
  missed     \* history: whether a receiver has missed a frame

vars == <<pc, hostRx, rx, sent, emitted, handed, heard, disarms, missed>>

(* Command ports and produced ports are told apart by "kind". *)
Frame ==
  [kind : {"command", "sample", "disarm"}, node : Node, id : Nat]

Init ==
  /\ pc = [h \in Hub |-> "tasks"]
  /\ hostRx = <<>> /\ rx = [h \in Hub |-> <<>>]
  /\ sent = <<>> /\ disarms = 0
  /\ emitted = [h \in Hub |-> 0] /\ handed = [h \in Hub |-> <<>>]
  /\ heard = {} /\ missed = FALSE

-----------------------------------------------------------------------------
Arrivals(from) == IF Lossy THEN SUBSET (Bus \ {from}) ELSE {Bus \ {from}}

(* A frame on the backplane reaches every other member with room for it. *)
Carry(q, from, f, got) ==
  [h \in Hub |->
     IF from \in Bus /\ h \in (Bus \ {from}) \cap got /\ Len(q[h]) < RxCap
       THEN Append(q[h], f) ELSE q[h]]

(* Some member did not take the frame in, or had no room for it. *)
Miss(q, from, got) ==
  \E h \in Bus \ {from} : from \in Bus /\ (h \in got => Len(q[h]) >= RxCap)

(* Mutant: the root's link index is dropped, so that it sends on link 0. *)
SendOnLinkUp(h, link, f, q) ==
  \/ /\ h = Root
     /\ heard' = heard \cup {f} /\ rx' = q /\ UNCHANGED missed
  \/ /\ h # Root /\ link = 0
     /\ \E got \in Arrivals(h) : rx' = Carry(q, h, f, got)
     /\ UNCHANGED <<heard, missed>>
  \/ /\ h # Root /\ link # 0
     /\ rx' = q /\ UNCHANGED <<heard, missed>>

(* link_send_on_link(link, f) at hub h, over the buffers q. *)
SendOnLink(h, link, f, q) ==
  \/ /\ link = 0 /\ h = Root
     /\ heard' = heard \cup {f} /\ rx' = q /\ UNCHANGED missed
  \/ /\ \/ link = 0 /\ h # Root
        \/ link = 1 /\ h = Root
     /\ \E got \in Arrivals(h) :
          /\ rx' = Carry(q, h, f, got)
          /\ missed' = (missed \/ Miss(q, h, got))
     /\ UNCHANGED heard
  \/ /\ link > 1 \/ (link = 1 /\ h # Root)
     /\ rx' = q /\ UNCHANGED <<heard, missed>>

(* deliver_local: only command ports have an on_command. *)
DeliverLocal(h, f) ==
  handed' = [handed EXCEPT ![h] =
               IF f.kind = "command" THEN Append(@, f.id) ELSE @]

(* Mutant: a frame that is not for this hub goes nowhere. *)
RouteLocalOnly(h, f, q) ==
  /\ IF f.node = h THEN DeliverLocal(h, f) ELSE UNCHANGED handed
  /\ rx' = q /\ UNCHANGED <<heard, missed>>

Route(h, f, q) ==
  \/ /\ f.node = h \/ Table[h][f.node] = Local
     /\ DeliverLocal(h, f) /\ rx' = q /\ UNCHANGED <<heard, missed>>
  \/ /\ f.node # h /\ Table[h][f.node] # Local
     /\ SendOnLink(h, Table[h][f.node], f, q) /\ UNCHANGED handed

-----------------------------------------------------------------------------
ToRoot(f) ==
  \/ /\ Len(hostRx) < RxCap /\ hostRx' = Append(hostRx, f)
     /\ UNCHANGED missed
  \/ /\ Lossy \/ Len(hostRx) >= RxCap
     /\ missed' = TRUE /\ UNCHANGED hostRx

(* LinkOwner drains a command slot onto the host UART. *)
HostSend(h) ==
  /\ Len(sent) < MaxSend
  /\ sent' = Append(sent, h)
  /\ ToRoot([kind |-> "command", node |-> h, id |-> Len(sent) + 1])
  /\ UNCHANGED <<pc, rx, emitted, handed, heard, disarms>>

(* LinkOwner.send_disarm: a bare header addressed to the broadcast node. *)
HostDisarm ==
  /\ disarms < MaxDisarm
  /\ disarms' = disarms + 1
  /\ ToRoot([kind |-> "disarm", node |-> Broadcast, id |-> 0])
  /\ UNCHANGED <<pc, rx, sent, emitted, handed, heard>>

(* Mutant: the newest buffered frame is taken first. *)
PumpHostNewest(h) ==
  /\ pc[h] = "host" /\ h = Root /\ hostRx # <<>>
  /\ hostRx' = SubSeq(hostRx, 1, Len(hostRx) - 1)
  /\ Route(h, hostRx[Len(hostRx)], rx)
  /\ UNCHANGED <<pc, sent, emitted, disarms>>

(* link_pump, first loop: the root takes the next frame off the host UART. *)
PumpHost(h) ==
  /\ pc[h] = "host" /\ h = Root /\ hostRx # <<>>
  /\ hostRx' = Tail(hostRx)
  /\ Route(h, Head(hostRx), rx)
  /\ UNCHANGED <<pc, sent, emitted, disarms>>

(* The host UART is empty, or there is none: on to the backplane. *)
HostDrained(h) ==
  /\ pc[h] = "host" /\ (h = Root => hostRx = <<>>)
  /\ pc' = [pc EXCEPT ![h] = "backplane"]
  /\ UNCHANGED <<hostRx, rx, sent, emitted, handed, heard, disarms, missed>>

(* link_pump, second loop: the next frame off the backplane. *)
PumpBackplane(h) ==
  /\ pc[h] = "backplane" /\ rx[h] # <<>>
  /\ Route(h, Head(rx[h]), [rx EXCEPT ![h] = Tail(@)])
  /\ UNCHANGED <<pc, hostRx, sent, emitted, disarms>>

BackplaneDrained(h) ==
  /\ pc[h] = "backplane" /\ rx[h] = <<>>
  /\ pc' = [pc EXCEPT ![h] = "tasks"]
  /\ UNCHANGED <<hostRx, rx, sent, emitted, handed, heard, disarms, missed>>

(* A sense or status tick: link_send_up of a sample under the hub's own node. *)
Emit(h) ==
  /\ pc[h] = "tasks" /\ emitted[h] < MaxEmit[h]
  /\ emitted' = [emitted EXCEPT ![h] = @ + 1]
  /\ SendOnLink(h, 0, [kind |-> "sample", node |-> h, id |-> emitted[h] + 1], rx)
  /\ UNCHANGED <<pc, hostRx, sent, handed, disarms>>

(* scheduler_run returns: loop() starts over. *)
TasksDone(h) ==
  /\ pc[h] = "tasks"
  /\ pc' = [pc EXCEPT ![h] = "host"]
  /\ UNCHANGED <<hostRx, rx, sent, emitted, handed, heard, disarms, missed>>

Loop(h) ==
  \/ PumpHost(h) \/ HostDrained(h)
  \/ PumpBackplane(h) \/ BackplaneDrained(h)
  \/ Emit(h) \/ TasksDone(h)

Next ==
  \/ \E h \in Hub : HostSend(h) \/ Loop(h)
  \/ HostDisarm

Spec == Init /\ [][Next]_vars

(* loop() runs for ever on every wired hub, and none of its steps waits. *)
LiveSpec == Spec /\ \A h \in Bus : WF_vars(Loop(h))

-----------------------------------------------------------------------------
TypeOK ==
  /\ pc \in [Hub -> {"host", "backplane", "tasks"}]
  /\ hostRx \in Seq(Frame) /\ Len(hostRx) <= RxCap
  /\ rx \in [Hub -> Seq(Frame)] /\ \A h \in Hub : Len(rx[h]) <= RxCap
  /\ sent \in Seq(Hub) /\ disarms \in Nat /\ missed \in BOOLEAN
  /\ emitted \in [Hub -> Nat] /\ handed \in [Hub -> Seq(Nat)]
  /\ heard \subseteq Frame

Increasing(s) == \A i, j \in 1 .. Len(s) : i < j => s[i] < s[j]

(* What the floor's seq != last_seq test rests on: whatever is lost, a hub   *)
(* gets its commands in the order they were sent, and none of them twice.    *)
InOrderOnce == \A h \in Hub : Increasing(handed[h])

(* No command comes back to the host.  Its link owner is the writer of no    *)
(* command slot, so a frame for one would take it down.                      *)
NoCommandEchoed == \A f \in heard : f.kind # "command"

InTransit == hostRx # <<>> \/ \E h \in Hub : rx[h] # <<>>

Arrived(i) ==
  sent[i] \in Bus => \E k \in DOMAIN handed[sent[i]] : handed[sent[i]][k] = i

(* Unless a receiver misses a frame, every command sent to a hub that is     *)
(* wired to the root gets there (the host sends MaxSend commands at most).   *)
CommandsArrive == []<>(missed \/ \A i \in DOMAIN sent : Arrived(i))

(* Whatever a hub has emitted is at the host once nothing is in transit.     *)
SamplesArrive ==
  ~InTransit =>
    \A h \in Bus : \A i \in 1 .. emitted[h] :
      [kind |-> "sample", node |-> h, id |-> i] \in heard

=============================================================================
