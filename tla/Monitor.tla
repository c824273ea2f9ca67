------------------------------ MODULE Monitor ------------------------------
(***************************************************************************)
(* The freshness monitor of host/monitor.ex: what a reader of a registry   *)
(* slot keeps, and how one beat of its own changes it.  It is a pure       *)
(* struct, so this is a module of operators on a record; the modules whose *)
(* processes own a monitor hold the record in a variable of theirs.        *)
(*                                                                         *)
(* idle is counted up to FreshFor + 1 and no further: check_row only       *)
(* compares it with fresh_for.                                             *)
(***************************************************************************)
EXTENDS Integers

CONSTANTS
  SeqMod,     \* number of wire seqs: 2^16
  FreshFor    \* fresh_for, in beats of the reader

ASSUME MonitorAssumption ==
  /\ SeqMod \in Nat \ {0}
  /\ FreshFor \in Nat \ {0}

Seqs == 0 .. SeqMod - 1
NoSeq == -1      \* seq_of(nil): the slot has no row

MonitorState ==
  [lastSeq : Seqs \cup {NoSeq}, idle : 0 .. FreshFor + 1,
   witnessed : BOOLEAN, fresh : BOOLEAN]

NewMonitor ==
  [lastSeq |-> NoSeq, idle |-> 0, witnessed |-> FALSE, fresh |-> FALSE]

(* Mutant: the first seq that is seen counts as an advance. *)
AdvanceNoBaseline(mon, seq) == seq # NoSeq /\ seq # mon.lastSeq

(* An advance is a seq that differs from the one seen on the last beat. *)
Advance(mon, seq) ==
  seq # NoSeq /\ mon.lastSeq # NoSeq /\ seq # mon.lastSeq

(* Mutant: once witnessed, always fresh. *)
CheckNoWindow(mon, seq) ==
  LET witnessed == mon.witnessed \/ Advance(mon, seq) IN
    [lastSeq |-> seq, idle |-> 0, witnessed |-> witnessed, fresh |-> witnessed]

(* check_row: one beat, against the seq of the row just read. *)
Check(mon, seq) ==
  LET advanced  == Advance(mon, seq)
      witnessed == mon.witnessed \/ advanced
      idle      == IF advanced THEN 0
                   ELSE IF mon.idle > FreshFor THEN mon.idle ELSE mon.idle + 1
  IN [lastSeq |-> seq, idle |-> idle, witnessed |-> witnessed,
      fresh |-> witnessed /\ idle <= FreshFor]
=============================================================================
