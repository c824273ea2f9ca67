------------------------------- MODULE MCTree -------------------------------
(* The trees that TLC checks, with the tables that Topology's RouteTable     *)
(* gives for them.                                                           *)
EXTENDS Tree, TLC

CONSTANT Declared   \* the declaration of the robot, by node id

T == INSTANCE Topology WITH
       Host <- 0, NoUplink <- "none", NodeIds <- Node

MCHub == DOMAIN Declared
MCRoot == CHOOSE h \in MCHub : Declared[h].parent = 0
MCTable == [h \in MCHub |-> T!RouteTable(Declared, h)]
MCBus == {MCRoot} \cup {h \in MCHub : MCTable[MCRoot][h] = 1 /\ Declared[h].parent = MCRoot}

(* How many samples each hub emits. *)
BusEmits == [h \in MCHub |-> IF h \in MCBus THEN 1 ELSE 0]
NoneEmits == [h \in MCHub |-> 0]

Placed(n, parent, uplink) ==
  n :> [node |-> n, parent |-> parent, uplink |-> uplink, ports |-> <<"port">>]

(* The fixture robot and the example robot: a root and one leaf. *)
Pair == Placed(2, 0, "none") @@ Placed(5, 2, "uart")

(* The leaf is a branch with a leaf of its own. *)
Chain == Pair @@ Placed(7, 5, "can")

(* Two leaves that share the root's CAN bus. *)
SharedBus == Placed(2, 0, "none") @@ Placed(5, 2, "can") @@ Placed(7, 2, "can")

=============================================================================
