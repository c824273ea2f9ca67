------------------------------ MODULE MCActHub ------------------------------
(* The hub of ActHub with a history variable beside its state.              *)
EXTENDS ActHub, FiniteSets

VARIABLE heard   \* the seqs that on_command was handed since the boot

heardVars == <<vars, heard>>

HeardInit == Init /\ heard = {}

(* Nothing is pumped in setup, where a reset leads; a frame that leaves the *)
(* receive buffer in the loop was handed to the floor.                      *)
HeardNext ==
  /\ Next
  /\ heard' = CASE pc' = "setup" -> {}
                [] pc' # "setup" /\ Len(rx') < Len(rx) /\ Head(rx) # Nobody ->
                     heard \cup {Head(rx).seq}
                [] OTHER -> heard

HeardSpec == HeardInit /\ [][HeardNext]_heardVars

(* "The first command seq we ever see only records a baseline; trust begins *)
(* on a later, DIFFERENT seq" (floor.c:43-46): what is energised has had     *)
(* commands with two seqs since the boot.  "A single command must NOT arm   *)
(* (strict)" (test_floor.c:58-66).  The code does not give this: the first  *)
(* tick takes cmd_seq for the baseline also when no command has set it.     *)
FirstSeqIsBaseline == Energised => Cardinality(heard) > 1
=============================================================================
