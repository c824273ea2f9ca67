----------------------------- MODULE MCContract -----------------------------
(* Declarations for TLC, in three families.  Trees: every declaration of two *)
(* hubs over every node id, parent and up-link, known and unknown, with and  *)
(* without a port, and every one of four hubs with ports whose node ids are  *)
(* distinct.  Ports: one port on a CAN hub with every combination of options *)
(* and one or two views.  Wheels: the ports of a two-wheel base on one hub   *)
(* or on both, whose ids collide on hub b only.                              *)
EXTENDS Contract, TLC

CONSTANTS a, b, c, d, Unknown

Packed(fields) == [f \in fields |-> "number"]

MCTypes ==
  [effort |-> [fields |-> {"nm"}, size |-> 4, command |-> TRUE],
   led    |-> [fields |-> {"r", "g"}, size |-> 2, command |-> TRUE],
   imu    |-> [fields |-> {"qw", "qx"}, size |-> 8, command |-> FALSE],
   scan   |-> [fields |-> {"ranges"}, size |-> 507, command |-> FALSE],
   status |-> [fields |-> {"applied_seq", "floored"}, size |-> 3, command |-> FALSE]]

PortOf(dir, type, stamped, rate, floored, safe) ==
  [dir |-> dir, type |-> type, stamped |-> stamped, rate |-> rate,
   floored |-> floored, safe |-> safe]

Motor == PortOf("in", "effort", FALSE, 50, TRUE, Packed({"nm"}))
Led == PortOf("in", "led", FALSE, 5, FALSE, Nil)
Pose == PortOf("out", "imu", TRUE, 100, Nil, Nil)
Status == PortOf("out", "status", FALSE, 20, Nil, Nil)

Base ==
  [motor_left |-> Motor, motor_right |-> Motor, status_left |-> Status,
   status_right |-> Status, led |-> Led, pose |-> Pose]

MCSuffix ==
  [motor_left |-> "left", motor_right |-> "right", status_left |-> "left",
   status_right |-> "right", led |-> "led", pose |-> "pose"]

Ids ==
  [motor_left |-> 16, motor_right |-> 17, status_left |-> 18,
   status_right |-> 19, led |-> 20, pose |-> 21]

MCPortId ==
  [k \in {a, b, c, d} \X DOMAIN Base |->
     IF k[1] = b /\ k[2] \in {"pose", "motor_right"} THEN Ids.motor_left ELSE Ids[k[2]]]

Hub(node, parent, uplink, ports) ==
  [node |-> node, parent |-> parent, uplink |-> uplink, ports |-> ports]

View(hub, port, freshFor, status) ==
  [hub |-> hub, port |-> port, freshFor |-> freshFor, status |-> status]

OnePort == [pose |-> Pose]

Small ==
  [{a, b} -> [node : 0..2, parent : {a, b, Host, Unknown},
              uplink : {"can", "uart", NoUplink}, ports : {OnePort, <<>>}]]

Fixed == a :> 3 @@ b :> 1 @@ c :> 4 @@ d :> 2

Wide ==
  {[h \in {a, b, c, d} |-> Hub(Fixed[h], parents[h], uplinks[h], OnePort)] :
     parents \in [{a, b, c, d} -> {a, b, c, d, Host}],
     uplinks \in {u \in [{a, b, c, d} -> {"can", "uart", NoUplink}] :
                    u[a] = NoUplink /\ \A h \in {b, c, d} : u[h] # NoUplink}}

Trees == {[hubs |-> D, views |-> <<>>] : D \in Small \cup Wide}

Pair(onA, onB) == a :> Hub(1, Host, NoUplink, onA) @@ b :> Hub(2, a, "can", onB)

PortSpecs ==
  [dir : {"in", "out"}, type : {"effort", "imu", "scan", "status", "typo"},
   stamped : BOOLEAN, rate : {50, 2000}, floored : {Nil, TRUE, FALSE},
   safe : {Nil, <<>>, Packed({"nm"}), Packed({"nm", "r"}), [nm |-> "text"]}]

OneView == {View(b, p, f, st) : p \in {"pose", "led"}, f \in {Nil, 0, 2}, st \in {Nil, "led"}}

Ports ==
  {[hubs |-> Pair(<<>>, [pose |-> spec]), views |-> views] :
     spec \in PortSpecs,
     views \in {<<>>} \cup {<<v>> : v \in OneView}
                 \cup {<<View(b, "pose", f, Nil), View(b, "pose", 3, Nil)>> : f \in {Nil, 2}}}

Restricted(ports) == [p \in ports |-> Base[p]]

WheelViews(h) ==
  {<<View(h, "motor_left", 2, l), View(h, "motor_right", f, r)>> :
     l, r \in {"status_left", "status_right"}, f \in {Nil, 3}}
    \cup {<<View(h, "motor_left", 2, "status_right")>>, <<View(h, "led", Nil, "status_left")>>}

Wheels ==
  {[hubs |-> Pair(Restricted(onA), Restricted(onB)), views |-> views] :
     onA \in SUBSET DOMAIN Base,
     onB \in {{}, {"motor_left"}, {"status_left"}, {"led", "pose"}, {"motor_left", "pose"}},
     views \in WheelViews(a)
                 \cup {v \o <<View(b, "motor_left", 4, Nil)>> : v \in WheelViews(a)}}

MCFamilies == {Trees, Ports, Wheels}

MCNodeIds == 0..4

=============================================================================
