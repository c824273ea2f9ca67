----------------------------- MODULE CommandPath -----------------------------
(***************************************************************************)
(* The outbound half of the host: an actuator view (bb_hub/actuator.ex)    *)
(* writes a command into the registry row of its slot and casts a          *)
(* notification; the link owner (host/link_owner.ex) reads the row and, if *)
(* its seq is another than the one it drained last, encodes it and hands   *)
(* it to the transport; the link loses frames and keeps their order.       *)
(*                                                                         *)
(* Views, link owner and registry crash and are restarted.  A crash of the *)
(* registry and its restart are one step: whoever touches the missing      *)
(* table in between crashes, which is a step of its own here.              *)
(*                                                                         *)
(* Every write has an id, a history variable, by which the properties tell *)
(* what a frame at the hub goes back to.                                   *)
(***************************************************************************)
EXTENDS Integers, Sequences

CONSTANTS
  Slot,        \* command slots, each with an actuator view
  Floored,     \* those with has_safe_action, which host.ex has drained
  Value,       \* what a command may say
  Malformed,   \* the values whose encoding raises
  NoValue,     \* the value of a row that is not there
  SeqStart,    \* command_seq_start
  SeqMod,      \* number of wire seqs: 2^16
  WireCap,     \* how many frames fit between the transport and the hub
  MaxWrites    \* bound: how many commands each slot gets

ASSUME CommandAssumption ==
  /\ Floored \subseteq Slot
  /\ Malformed \subseteq Value /\ NoValue \notin Value
  /\ SeqStart \in Nat
  /\ SeqMod \in Nat \ {0}
  /\ WireCap \in Nat /\ MaxWrites \in [Slot -> Nat]

VARIABLES
  next,        \* the views' seq: what their next write carries
  told,        \* slots whose view has put a row and not yet cast the notify
  rows,        \* the registry rows of the slots
  alive,       \* the link owner is running
  casts,       \* the link owner's mailbox: notifications, oldest first
  drained,     \* command_slots of the link owner
  wire,        \* frames on their way to the hub, oldest first
  hub,         \* what the hub got last for each slot
  writes,      \* history: how many commands were written to each slot
  sent,        \* history: the newest write this link owner has handed over
  steady       \* history: slots whose last write was notified to a link
               \* owner that has not crashed since, by a view that never has

views == <<next, told>>
owner == <<alive, casts, drained>>
history == <<writes, sent, steady>>
vars == <<views, rows, owner, wire, hub, history>>

NoSeq == -1         \* :unseen, and the seq of a row that is not there
Unwatched == -2     \* not a key of command_slots
NoRow == [seq |-> NoSeq, value |-> NoValue, id |-> 0]
Row == [seq : Nat, value : Value, id : Nat \ {0}]
Frame == [slot : Slot, seq : 0 .. SeqMod - 1, id : Nat \ {0}]
Got == [seq : 0 .. SeqMod - 1, id : Nat \ {0}]
NoFrame == [seq |-> NoSeq, id |-> 0]

(* command_slots/1 of host.ex, put into the map at init. *)
DrainedAtStart == [s \in Slot |-> IF s \in Floored THEN NoSeq ELSE Unwatched]

Init ==
  /\ next = [s \in Slot |-> SeqStart] /\ told = {}
  /\ rows = [s \in Slot |-> NoRow]
  /\ alive = TRUE /\ casts = <<>> /\ drained = DrainedAtStart
  /\ wire = <<>>
  /\ hub = [s \in Slot |-> NoFrame]
  /\ writes = [s \in Slot |-> 0] /\ sent = [s \in Slot |-> 0]
  /\ steady = Slot

-----------------------------------------------------------------------------
(* The actuator view.                                                       *)

(* Mutant: the seq is not counted up. *)
PutSameSeq(s, v) ==
  /\ s \notin told /\ writes[s] < MaxWrites[s]
  /\ rows' = [rows EXCEPT ![s] =
                [seq |-> next[s], value |-> v, id |-> writes[s] + 1]]
  /\ writes' = [writes EXCEPT ![s] = @ + 1]
  /\ told' = told \cup {s}
  /\ UNCHANGED <<next, owner, wire, hub, sent, steady>>

(* write_command, up to the put. *)
Put(s, v) ==
  /\ s \notin told /\ writes[s] < MaxWrites[s]
  /\ rows' = [rows EXCEPT ![s] =
                [seq |-> next[s], value |-> v, id |-> writes[s] + 1]]
  /\ writes' = [writes EXCEPT ![s] = @ + 1]
  /\ next' = [next EXCEPT ![s] = @ + 1]
  /\ told' = told \cup {s}
  /\ UNCHANGED <<owner, wire, hub, sent, steady>>

(* The cast that follows.  With no process of that name it goes nowhere. *)
Notify(s) ==
  /\ s \in told
  /\ told' = told \ {s}
  /\ IF alive
     THEN /\ casts' = Append(casts, s)
          /\ steady' = IF next[s] = SeqStart + writes[s]
                       THEN steady \cup {s} ELSE steady
     ELSE /\ steady' = steady \ {s}
          /\ UNCHANGED casts
  /\ UNCHANGED <<next, rows, alive, drained, wire, hub, writes, sent>>

(* A view crashes and starts again from init: its seq starts over.  The     *)
(* row stays, and nobody is notified of it.                                 *)
ViewCrash(s) ==
  /\ next' = [next EXCEPT ![s] = SeqStart]
  /\ told' = told \ {s}
  /\ steady' = IF writes[s] > 0 THEN steady \ {s} ELSE steady
  /\ UNCHANGED <<rows, owner, wire, hub, writes, sent>>

-----------------------------------------------------------------------------
(* The link owner.                                                          *)

Watch(s) ==
  /\ alive
  /\ drained' = [drained EXCEPT ![s] = IF @ = Unwatched THEN NoSeq ELSE @]
  /\ UNCHANGED <<views, rows, alive, casts, wire, hub, history>>

Transmit(f) == wire' = IF Len(wire) < WireCap THEN Append(wire, f) ELSE wire

FrameOf(s) == [slot |-> s, seq |-> rows[s].seq % SeqMod, id |-> rows[s].id]

Drainable(s) ==
  /\ drained[s] # Unwatched
  /\ rows[s] # NoRow /\ rows[s].seq # drained[s]

(* Mutant: a notification is taken for a new value. *)
DrainAlways ==
  /\ alive /\ casts # <<>>
  /\ casts' = Tail(casts)
  /\ LET s == Head(casts) IN
       IF drained[s] # Unwatched /\ rows[s] # NoRow
       THEN /\ drained' = [drained EXCEPT ![s] = rows[s].seq]
            /\ IF rows[s].value \in Malformed
               THEN UNCHANGED <<wire, sent>>
               ELSE /\ Transmit(FrameOf(s))
                    /\ sent' = [sent EXCEPT ![s] = rows[s].id]
       ELSE UNCHANGED <<drained, wire, sent>>
  /\ UNCHANGED <<views, rows, alive, hub, writes, steady>>

(* Mutant: the link owner stamps what it sends with a count of its own. *)
DrainOwnSeq ==
  /\ alive /\ casts # <<>>
  /\ casts' = Tail(casts)
  /\ LET s == Head(casts) IN
       IF drained[s] # Unwatched /\ rows[s] # NoRow
       THEN /\ drained' = [drained EXCEPT ![s] = IF @ = NoSeq THEN 0 ELSE @ + 1]
            /\ Transmit([FrameOf(s) EXCEPT !.seq = drained'[s] % SeqMod])
            /\ sent' = [sent EXCEPT ![s] = rows[s].id]
       ELSE UNCHANGED <<drained, wire, sent>>
  /\ UNCHANGED <<views, rows, alive, hub, writes, steady>>

(* handle_cast of a notification.  A value that cannot be encoded is        *)
(* counted, and drained all the same.                                       *)
Drain ==
  /\ alive /\ casts # <<>>
  /\ casts' = Tail(casts)
  /\ LET s == Head(casts) IN
       IF Drainable(s)
       THEN /\ drained' = [drained EXCEPT ![s] = rows[s].seq]
            /\ IF rows[s].value \in Malformed
               THEN UNCHANGED <<wire, sent>>
               ELSE /\ Transmit(FrameOf(s))
                    /\ sent' = [sent EXCEPT ![s] = rows[s].id]
       ELSE UNCHANGED <<drained, wire, sent>>
  /\ UNCHANGED <<views, rows, alive, hub, writes, steady>>

OwnerCrash ==
  /\ alive
  /\ alive' = FALSE /\ casts' = <<>>
  /\ steady' = {s \in steady : writes[s] = 0}
  /\ UNCHANGED <<views, rows, drained, wire, hub, writes, sent>>

(* init: the slots of the child spec, all unseen.  What was watched by a    *)
(* call is forgotten, and no row is looked at until its view writes again.  *)
OwnerRestart ==
  /\ ~alive
  /\ alive' = TRUE /\ drained' = DrainedAtStart
  /\ sent' = [s \in Slot |-> 0]
  /\ UNCHANGED <<views, rows, casts, wire, hub, writes, steady>>

(* The registry crashes and is restarted: the rows are gone. *)
RegistryRestart ==
  /\ rows' = [s \in Slot |-> NoRow]
  /\ UNCHANGED <<views, owner, wire, hub, history>>

-----------------------------------------------------------------------------
(* The link, and what it brings to the hub.                                 *)

Lose(i) ==
  /\ wire' = SubSeq(wire, 1, i - 1) \o SubSeq(wire, i + 1, Len(wire))
  /\ UNCHANGED <<views, rows, owner, hub, history>>

Arrive ==
  /\ wire # <<>>
  /\ LET f == Head(wire) IN
       hub' = [hub EXCEPT ![f.slot] = [seq |-> f.seq, id |-> f.id]]
  /\ wire' = Tail(wire)
  /\ UNCHANGED <<views, rows, owner, history>>

Next ==
  \/ \E s \in Slot, v \in Value : Put(s, v)
  \/ \E s \in Slot : Notify(s)
  \/ \E s \in Slot : ViewCrash(s)
  \/ \E s \in Slot : Watch(s)
  \/ Drain
  \/ OwnerCrash
  \/ OwnerRestart
  \/ RegistryRestart
  \/ \E i \in DOMAIN wire : Lose(i)
  \/ Arrive

Spec == Init /\ [][Next]_vars

(* A running process goes on with its code and its mailbox. *)
Fairness == WF_vars(Drain) /\ \A s \in Slot : WF_vars(Notify(s))
FairSpec == Spec /\ Fairness

-----------------------------------------------------------------------------
(* The types of the variables. *)
TypeOK ==
  /\ next \in [Slot -> Nat] /\ told \subseteq Slot
  /\ rows \in [Slot -> Row \cup {NoRow}]
  /\ alive \in BOOLEAN /\ casts \in Seq(Slot)
  /\ drained \in [Slot -> Nat \cup {NoSeq, Unwatched}]
  /\ wire \in Seq(Frame)
  /\ hub \in [Slot -> Got \cup {NoFrame}]
  /\ writes \in [Slot -> Nat] /\ sent \in [Slot -> Nat]
  /\ steady \subseteq Slot

(* "It can never manufacture a seq advance" (link_owner.ex): whatever the   *)
(* hub takes for an advance is a command that the view wrote after the one  *)
(* the hub had, so commands reach it in the order they were written and no  *)
(* crash brings an old one back.  The dead-man of the floor rests on it: it *)
(* is held off by writes only.                                              *)
NoManufacturedAdvance ==
  [][\A s \in Slot :
       /\ hub'[s].id >= hub[s].id
       /\ hub'[s].seq # hub[s].seq => hub'[s].id > hub[s].id]_vars

(* "The seq-inequality test still dedups": a link owner hands no write to   *)
(* the transport twice, however often it is notified.                       *)
OncePerWrite ==
  [][Len(wire') > Len(wire) =>
       LET f == wire'[Len(wire')] IN f.id > sent[f.slot]]_vars

(* "The drain is event-driven - no poll": if the last write of a slot was   *)
(* notified to a link owner that stays up, by a view that did not start     *)
(* over, it is the latest command that gets sent, unless it cannot be       *)
(* encoded or its row is lost.                                              *)
LatestSent ==
  \A s \in Floored :
    <>[](s \in steady) =>
      <>[](sent[s] = writes[s] \/ rows[s].value \in Malformed \cup {NoValue})

-----------------------------------------------------------------------------
(* The strengthening.  Along the path from the view to the hub the writes   *)
(* get older, and what two places hold of one write is the same.            *)
Follows(newer, older) ==
  newer.id >= older.id /\ (newer.id = older.id => newer.seq = older.seq)

Newest(s) == IF rows[s] = NoRow THEN [seq |-> NoSeq, id |-> MaxWrites[s] + 1]
             ELSE [seq |-> rows[s].seq % SeqMod, id |-> rows[s].id]

PathInv ==
  /\ \A i, j \in DOMAIN wire :
       i < j /\ wire[i].slot = wire[j].slot => Follows(wire[j], wire[i])
  /\ \A i \in DOMAIN wire :
       /\ Follows(wire[i], hub[wire[i].slot])
       /\ Follows(Newest(wire[i].slot), wire[i])
       /\ wire[i].id <= writes[wire[i].slot]
  /\ \A s \in Slot :
       /\ Follows(Newest(s), hub[s])
       /\ hub[s].id <= writes[s]
       /\ rows[s].id <= writes[s] /\ writes[s] <= MaxWrites[s]

DrainInv ==
  \A s \in Slot :
    /\ sent[s] <= writes[s]
    /\ rows[s] # NoRow => /\ sent[s] <= rows[s].id
                          /\ sent[s] = rows[s].id => drained[s] = rows[s].seq

IInv == TypeOK /\ PathInv /\ DrainInv
=============================================================================
