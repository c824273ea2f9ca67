------------------------------ MODULE Registry ------------------------------
(***************************************************************************)
(* NodeRegistry and its write capabilities: who may write a slot.           *)
(*                                                                         *)
(* The views and the link owner claim the slots they write (writer!), keep  *)
(* the capability for as long as they live, and write the public table      *)
(* without asking again.  The registry serves one message at a time: the    *)
(* claims of processes that wait for the answer, and the DOWN messages of   *)
(* the monitors it keeps on the owners.  A process may crash at any moment, *)
(* also while its claim waits; its pid is never used again.  The registry   *)
(* itself may crash and is restarted by its supervisor with an empty table. *)
(***************************************************************************)
EXTENDS Naturals, Sequences, SequencesExt

CONSTANTS
  Pid,          \* the processes that may ever write a slot
  Slot,         \* {node, port_id}
  NoPid, NoSlot,
  MaxCrash      \* bound: crashes of the registry

ASSUME RegistryAssumption ==
  NoPid \notin Pid /\ NoSlot \notin Slot /\ MaxCrash \in Nat

VARIABLES
  proc,      \* "unborn", "running" or "dead"
  call,      \* the call that p is inside of: the slot (NoSlot outside of any),
             \* the answer in p's mailbox ("none", "ok", "taken") and the number
             \* of the registry that gave it
  caps,      \* caps[p]: the Writers p holds, as <<slot, registry's number>>
  up,        \* whether the registry runs
  mailbox,   \* the registry's mailbox
  writers,   \* the owner of each slot, with the ref of its monitor
  monitors,  \* the monitors that have not fired
  nextRef,
  crashes    \* crashes of the registry so far: the number of the present one

server == <<up, mailbox, writers, monitors, nextRef, crashes>>
clients == <<proc, call, caps>>
vars == <<server, clients>>

Claims == [type : {"claim"}, slot : Slot, pid : Pid]
Downs == [type : {"down"}, ref : Nat, pid : Pid]
Message == Claims \cup Downs
Owner == [pid : Pid \cup {NoPid}, ref : Nat]
Free == [pid |-> NoPid, ref |-> 0]
Call == [slot : Slot \cup {NoSlot}, answer : {"none", "ok", "taken"}, by : Nat]
NoCall == [slot |-> NoSlot, answer |-> "none", by |-> 0]
Alive(p) == proc[p] = "running"
Holds(p, s) == <<s, crashes>> \in caps[p]

Init ==
  /\ proc = [p \in Pid |-> "unborn"]
  /\ call = [p \in Pid |-> NoCall]
  /\ caps = [p \in Pid |-> {}]
  /\ up = TRUE /\ mailbox = <<>>
  /\ writers = [s \in Slot |-> Free]
  /\ monitors = {} /\ nextRef = 0
  /\ crashes = 0

-----------------------------------------------------------------------------
(* The writers: the actuator views and the link owner. *)
Spawn(p) ==
  /\ proc[p] = "unborn"
  /\ proc' = [proc EXCEPT ![p] = "running"]
  /\ UNCHANGED <<call, caps, server>>

Exit(p) ==
  /\ proc' = [proc EXCEPT ![p] = "dead"]
  /\ call' = [call EXCEPT ![p] = NoCall]
  /\ caps' = [caps EXCEPT ![p] = {}]

Die(p) ==
  /\ Alive(p)
  /\ Exit(p) /\ UNCHANGED server

(* writer!(slot): a call to a registry that is down exits the caller. *)
Claim(p, s) ==
  /\ Alive(p) /\ call[p].slot = NoSlot
  /\ \/ /\ up
        /\ call' = [call EXCEPT ![p] = [slot |-> s, answer |-> "none", by |-> crashes]]
        /\ mailbox' = Append(mailbox, [type |-> "claim", slot |-> s, pid |-> p])
        /\ UNCHANGED <<proc, caps, up, writers, monitors, nextRef, crashes>>
     \/ /\ ~up
        /\ Exit(p) /\ UNCHANGED server

(* The call returns: with the capability, or raising Taken, which nobody    *)
(* rescues.                                                                 *)
Return(p) ==
  /\ call[p].slot # NoSlot
  /\ \/ /\ call[p].answer = "ok"
        /\ caps' = [caps EXCEPT ![p] = @ \cup {<<call[p].slot, call[p].by>>}]
        /\ call' = [call EXCEPT ![p] = NoCall]
        /\ UNCHANGED proc
     \/ /\ call[p].answer = "taken"
        /\ Exit(p)
  /\ UNCHANGED server

(* Writer.put goes straight to the table; without a table it raises. *)
PutFails(p) ==
  /\ Alive(p) /\ call[p].slot = NoSlot /\ caps[p] # {} /\ ~up
  /\ Exit(p) /\ UNCHANGED server

-----------------------------------------------------------------------------
(* The registry.  A reply to a caller that has died in the meantime is lost. *)
Reply(p, what) ==
  /\ call' = [call EXCEPT ![p] =
                IF @.slot = NoSlot THEN @
                ELSE [slot |-> @.slot, answer |-> what, by |-> crashes]]
  /\ UNCHANGED <<proc, caps, up, crashes>>

(* claim(st, slot, pid), with the messages msgs still to be served and the   *)
(* monitors kept still on. *)
Record(s, p, msgs, kept) ==
  /\ writers' = [writers EXCEPT ![s] = [pid |-> p, ref |-> nextRef]]
  /\ monitors' = kept \cup {[pid |-> p, ref |-> nextRef]}
  /\ nextRef' = nextRef + 1
  /\ mailbox' = msgs
  /\ Reply(p, "ok")

Down(owner) == [type |-> "down", ref |-> owner.ref, pid |-> owner.pid]

(* What demonitor's :flush leaves of the queue q: no DOWN of that owner. *)
Flushed(q, owner) ==
  LET at == {i \in DOMAIN q : q[i] = Down(owner)}
  IN  IF at = {} THEN q ELSE RemoveAt(q, CHOOSE i \in at : TRUE)

(* Mutant: a claim is granted whoever owns the slot. *)
HandleClaimAlways ==
  /\ up /\ mailbox # <<>> /\ Head(mailbox).type = "claim"
  /\ Record(Head(mailbox).slot, Head(mailbox).pid, Tail(mailbox), monitors)

HandleClaim ==
  /\ up /\ mailbox # <<>> /\ Head(mailbox).type = "claim"
  /\ LET s == Head(mailbox).slot
         p == Head(mailbox).pid
         owner == writers[s]
         rest == Tail(mailbox)
     IN
     \/ /\ owner = Free
        /\ Record(s, p, rest, monitors)
     \/ /\ owner.pid = p
        /\ Reply(p, "ok") /\ mailbox' = rest
        /\ UNCHANGED <<writers, monitors, nextRef>>
     \/ /\ owner.pid \in Pid \ {p} /\ Alive(owner.pid)
        /\ Reply(p, "taken") /\ mailbox' = rest
        /\ UNCHANGED <<writers, monitors, nextRef>>
     \/ /\ owner.pid \in Pid \ {p} /\ ~Alive(owner.pid)
        /\ Record(s, p, Flushed(rest, owner), monitors \ {owner})

(* A monitor whose process is gone fires. *)
Deliver(m) ==
  /\ m \in monitors /\ proc[m.pid] = "dead"
  /\ monitors' = monitors \ {m}
  /\ mailbox' = Append(mailbox, Down(m))
  /\ UNCHANGED <<clients, up, writers, nextRef, crashes>>

(* Mutant: filter in the place of reject. *)
HandleDownKeeps ==
  /\ up /\ mailbox # <<>> /\ Head(mailbox).type = "down"
  /\ writers' = [s \in Slot |->
                   IF Down(writers[s]) = Head(mailbox) THEN writers[s] ELSE Free]
  /\ mailbox' = Tail(mailbox)
  /\ UNCHANGED <<clients, up, monitors, nextRef, crashes>>

HandleDown ==
  /\ up /\ mailbox # <<>> /\ Head(mailbox).type = "down"
  /\ writers' = [s \in Slot |->
                   IF Down(writers[s]) = Head(mailbox) THEN Free ELSE writers[s]]
  /\ mailbox' = Tail(mailbox)
  /\ UNCHANGED <<clients, up, monitors, nextRef, crashes>>

(* The registry crashes: table, claims, monitors and mailbox are gone, and   *)
(* whoever waits for an answer exits with it.                                *)
Crash ==
  /\ up /\ crashes < MaxCrash
  /\ up' = FALSE /\ crashes' = crashes + 1
  /\ mailbox' = <<>> /\ monitors' = {}
  /\ writers' = [s \in Slot |-> Free]
  /\ LET waiting == {p \in Pid : call[p].slot # NoSlot /\ call[p].answer = "none"} IN
       /\ proc' = [p \in Pid |-> IF p \in waiting THEN "dead" ELSE proc[p]]
       /\ call' = [p \in Pid |-> IF p \in waiting THEN NoCall ELSE call[p]]
       /\ caps' = [p \in Pid |-> IF p \in waiting THEN {} ELSE caps[p]]
  /\ UNCHANGED nextRef

(* The supervisor of application.ex starts it again. *)
Restart ==
  /\ ~up /\ up' = TRUE
  /\ UNCHANGED <<clients, mailbox, writers, monitors, nextRef, crashes>>

Next ==
  \/ \E p \in Pid :
       \/ Spawn(p) \/ Die(p) \/ Return(p) \/ PutFails(p)
       \/ \E s \in Slot : Claim(p, s)
  \/ HandleClaim \/ HandleDown \/ (\E m \in monitors : Deliver(m))
  \/ Crash \/ Restart

Spec == Init /\ [][Next]_vars

-----------------------------------------------------------------------------
TypeOK ==
  /\ proc \in [Pid -> {"unborn", "running", "dead"}]
  /\ call \in [Pid -> Call]
  /\ caps \in [Pid -> SUBSET (Slot \X Nat)]
  /\ up \in BOOLEAN /\ mailbox \in Seq(Message)
  /\ writers \in [Slot -> Owner]
  /\ monitors \subseteq [pid : Pid, ref : Nat]
  /\ nextRef \in Nat /\ crashes \in Nat

(* "Two writers of one slot cannot coexist" (writer.ex): never do two live   *)
(* processes hold a slot's capability, whatever dies while claims and DOWN   *)
(* messages are on their way.  It is said of the capabilities that one       *)
(* registry gave: those of a crashed one stay usable, and the next registry  *)
(* knows nothing of them.                                                    *)
SoleWriter ==
  \A s \in Slot : \A p, q \in Pid : Holds(p, s) /\ Holds(q, s) => p = q

(* "The registry never wedges on a dead writer": once it has served what is  *)
(* in its mailbox and the monitors have fired, no slot is left to a dead     *)
(* process.                                                                  *)
NeverWedged ==
  mailbox = <<>> /\ (\A m \in monitors : proc[m.pid] # "dead") =>
    \A s \in Slot : writers[s] = Free \/ Alive(writers[s].pid)

-----------------------------------------------------------------------------
(* Why it holds.  The registry's record is right about every holder, and    *)
(* about every process that is about to be one.                             *)
HoldersKnown ==
  \A p \in Pid, s \in Slot :
    \/ Holds(p, s)
    \/ call[p] = [slot |-> s, answer |-> "ok", by |-> crashes]
    => writers[s].pid = p

(* Only the living hold or wait for anything, and nobody has a capability    *)
(* from a registry yet to come.                                             *)
Living ==
  \A p \in Pid :
    /\ caps[p] # {} \/ call[p].slot # NoSlot => Alive(p)
    /\ \A c \in caps[p] : c[2] <= crashes
    /\ call[p].by <= crashes

IsClaim(i) == mailbox[i].type = "claim"
IsDown(i) == mailbox[i].type = "down"

(* A living process waits for each of its claims, so it has one at most; a   *)
(* DOWN message speaks of a dead process.                                   *)
MailboxSound ==
  \A i \in DOMAIN mailbox :
    LET p == mailbox[i].pid IN
    /\ proc[p] # "unborn"
    /\ IsDown(i) => proc[p] = "dead"
    /\ IsClaim(i) /\ Alive(p) =>
         /\ call[p].slot = mailbox[i].slot /\ call[p].answer = "none"
         /\ \A j \in DOMAIN mailbox : IsClaim(j) /\ mailbox[j].pid = p => i = j

(* Every recorded owner is watched, or its DOWN is waiting to be served; no  *)
(* two records have the same monitor.                                       *)
OwnersWatched ==
  \A s \in Slot : writers[s] # Free =>
    /\ writers[s].pid \in Pid /\ proc[writers[s].pid] # "unborn"
    /\ writers[s].ref < nextRef
    /\ \/ writers[s] \in monitors
       \/ \E i \in DOMAIN mailbox : mailbox[i] = Down(writers[s])
    /\ \A t \in Slot \ {s} : writers[t] # Free => writers[t].ref # writers[s].ref

IInv == TypeOK /\ HoldersKnown /\ Living /\ MailboxSound /\ OwnersWatched
=============================================================================
