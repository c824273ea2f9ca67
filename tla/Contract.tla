------------------------------ MODULE Contract ------------------------------
(***************************************************************************)
(* The wire contract, from the author's declaration to the two programs     *)
(* that speak it.  The robot module compiles when the transformer of dsl.ex *)
(* can project the placed hubs, their ports and the topology's views into   *)
(* the IR and the checks of dsl/checks.ex accept it; mix wire.gen then      *)
(* renders C for every hub with ports, which has to build; and a booting    *)
(* host indexes the same IR.                                                *)
(*                                                                         *)
(* A declaration D is a record: D.hubs as in Topology, where a port is      *)
(* [dir, type, stamped, rate, floored, safe] with Nil for what the author   *)
(* left out, and D.views, the sequence of the views [hub, port, freshFor,   *)
(* status] in the order in which the walk over the topology meets them.     *)
(***************************************************************************)
EXTENDS Topology, Integers, Sequences

CONSTANTS
  Nil,             \* an option that is not given
  Types,           \* value type -> [fields, size, command]
  StatusType,      \* the stock type :status
  PortId,          \* <<hub, port>> -> port id, the hash
  Suffix,          \* port -> the part of its name after the last "_"
  MaxBody,         \* SEG_MAX_BODY
  MaxPayload,      \* FRAME_MAX_PAYLOAD
  Families         \* the declarations under study, in sets

(* What the schemas of the DSL (dsl.ex, hub.ex) let an author write. *)
Declaration(D) ==
  /\ IsFiniteSet(DOMAIN D.hubs) /\ Host \notin DOMAIN D.hubs
  /\ \A h \in DOMAIN D.hubs :
       /\ D.hubs[h].node \in NodeIds
       /\ IsFiniteSet(DOMAIN D.hubs[h].ports)
       /\ \A p \in DOMAIN D.hubs[h].ports :
            LET port == D.hubs[h].ports[p] IN
            /\ <<h, p>> \in DOMAIN PortId
            /\ port.dir \in {"in", "out"} /\ port.stamped \in BOOLEAN
            /\ port.rate \in Nat \ {0} /\ port.floored \in {Nil, TRUE, FALSE}
            /\ port.safe = Nil \/ port.safe = [f \in DOMAIN port.safe |-> port.safe[f]]
  /\ DOMAIN D.views = 1 .. Len(D.views)
  /\ \A i \in DOMAIN D.views : D.views[i].freshFor = Nil \/ D.views[i].freshFor \in Int

ASSUME ContractAssumption ==
  /\ NodeIds \subseteq 0 .. 255 /\ Nil \notin Int \cup BOOLEAN
  /\ MaxBody \in Nat /\ MaxPayload \in Nat
  /\ \A t \in DOMAIN Types : Types[t].size \in Nat
  /\ \A k \in DOMAIN PortId : PortId[k] \in 0 .. 255
  /\ \A family \in Families : \A D \in family : Declaration(D)

VARIABLES
  decl,       \* what the author wrote
  stage,      \* how far it got, or what stopped the generator or the C build
  verdict,    \* of the compiler: "none", "ok", or what stopped it
  ir,         \* the projected rows, one per port
  firmware,   \* hub -> what its generated glue holds
  index       \* the host's PortIndex, <<node, port id>> -> port

vars == <<decl, stage, verdict, ir, firmware, index>>

-----------------------------------------------------------------------------
(* dsl.ex: the transformer *)

Port(D, h, p) == D.hubs[h].ports[p]

(* The floor window of a command port: what the first view that names the   *)
(* port and gives a window says, a sensor's view included.                  *)
FreshFor(D, h, p) ==
  LET readers == {i \in DOMAIN D.views :
                    /\ D.views[i].hub = h /\ D.views[i].port = p
                    /\ D.views[i].freshFor # Nil}
  IN  IF Port(D, h, p).dir = "out" \/ readers = {} THEN Nil
      ELSE D.views[CHOOSE i \in readers : \A j \in readers : i <= j].freshFor

Row(D, h, p) ==
  [hub |-> h, node |-> D.hubs[h].node, uplink |-> D.hubs[h].uplink,
   port |-> p, id |-> PortId[<<h, p>>], freshFor |-> FreshFor(D, h, p),
   dir |-> Port(D, h, p).dir, type |-> Port(D, h, p).type,
   stamped |-> Port(D, h, p).stamped, rate |-> Port(D, h, p).rate,
   floored |-> Port(D, h, p).floored, safe |-> Port(D, h, p).safe]

Rows(D) == UNION {{Row(D, h, p) : p \in DOMAIN D.hubs[h].ports} : h \in DOMAIN D.hubs}

TypesResolve(D) ==
  \A h \in DOMAIN D.hubs : \A p \in DOMAIN D.hubs[h].ports :
    Port(D, h, p).type \in DOMAIN Types

(* What IrRow.new raises for; the schemas of the DSL see to the rest. *)
WellShaped(rows) == \A r \in rows : r.freshFor # Nil => r.freshFor >= 1

-----------------------------------------------------------------------------
(* dsl/checks.ex: the checks over rows and views *)

PositiveWindows(views) ==
  \A i \in DOMAIN views : views[i].freshFor # Nil => views[i].freshFor >= 1

Fields(r) == Types[r.type].fields

(* Every field of the layout, no other, and each a number the codec packs. *)
Packs(r) == DOMAIN r.safe = Fields(r) /\ \A f \in Fields(r) : r.safe[f] = "number"

(* Mutant: a safe action on a port that is not floored is let through. *)
SafeActionLax(r) ==
  IF r.dir = "out" THEN r.floored = Nil /\ r.safe = Nil
  ELSE /\ r.floored # Nil
       /\ r.floored = TRUE => r.safe # Nil /\ Packs(r)

SafeActionValid(r) ==
  IF r.dir = "out" THEN r.floored = Nil /\ r.safe = Nil
  ELSE /\ r.floored # Nil
       /\ r.floored = FALSE => r.safe = Nil
       /\ r.floored = TRUE  => r.safe # Nil /\ Packs(r)

CommandsNamed(rows) == \A r \in rows : r.dir = "in" => Types[r.type].command

(* Producer is any row: neither the direction of the port nor the kind of   *)
(* the view is looked at.                                                   *)
Reconciled(rows, views) ==
  LET producers == {<<r.hub, r.port>> : r \in rows}
  IN  \A i \in DOMAIN views :
        LET v == views[i] IN
        /\ <<v.hub, v.port>> \in producers
        /\ v.status # Nil => <<v.hub, v.status>> \in producers

(* Mutant: ids are compared between the ports of one direction only. *)
IdsUniqueByDir(rows) ==
  \A q, r \in rows : q.node = r.node /\ q.id = r.id /\ q.dir = r.dir => q = r

IdsUnique(rows) == \A q, r \in rows : q.node = r.node /\ q.id = r.id => q = r

HeaderSize(stamped) == IF stamped THEN 12 ELSE 4
PayloadSize(r) == Types[r.type].size

(* Only the link above the port's own hub is looked at. *)
FramesFit(rows) ==
  \A r \in rows : r.uplink = "can" =>
    HeaderSize(r.stamped) + PayloadSize(r) + 2 <= MaxBody

(* all/3: the first check that fails is the verdict. *)
Verdict(D, rows) ==
  IF TopologyVerdict(D.hubs) # "ok"               THEN TopologyVerdict(D.hubs)
  ELSE IF ~PositiveWindows(D.views)               THEN "fresh_for"
  ELSE IF \E r \in rows : ~SafeActionValid(r)     THEN "safe_action"
  ELSE IF ~CommandsNamed(rows)                    THEN "command_message"
  ELSE IF ~Reconciled(rows, D.views)              THEN "no such port"
  ELSE IF ~IdsUnique(rows)                        THEN "shared id"
  ELSE IF ~FramesFit(rows)                        THEN "frame size"
  ELSE "ok"

-----------------------------------------------------------------------------
(* gen/wire_gen.ex *)

Floored(rows, h)  == {r \in rows : r.hub = h /\ r.dir = "in" /\ r.floored = TRUE}
Direct(rows, h)   == {r \in rows : r.hub = h /\ r.dir = "in" /\ r.floored = FALSE}
Statuses(rows, h) == {r \in rows : r.hub = h /\ r.dir = "out" /\ r.type = StatusType}

(* The floors a status may report: the only one, or those that share its    *)
(* suffix; the first in the order of the port ids is taken.                 *)
Candidates(rows, st) ==
  LET floors == Floored(rows, st.hub)
  IN  IF Cardinality(floors) = 1 THEN floors
      ELSE {r \in floors : Suffix[r.port] = Suffix[st.port]}

(* Mutant: the first floor of the hub, whatever its name. *)
PairFirst(rows, st) ==
  CHOOSE r \in Floored(rows, st.hub) : \A q \in Floored(rows, st.hub) : r.id <= q.id

StatusPair(rows, st) ==
  CHOOSE r \in Candidates(rows, st) : \A q \in Candidates(rows, st) : r.id <= q.id

(* floor_defines: the period is whole milliseconds, rounded down. *)
FloorOf(r) == [misses |-> r.freshFor, periodMs |-> 1000 \div r.rate, safe |-> r.safe]

Glue(D, rows, h) ==
  [table   |-> RouteTable(D.hubs, h),
   floors  |-> [p \in {r.port : r \in Floored(rows, h)} |-> FloorOf(Row(D, h, p))],
   direct  |-> {r.port : r \in Direct(rows, h)},
   reports |-> [p \in {r.port : r \in Statuses(rows, h)} |->
                  StatusPair(rows, Row(D, h, p)).port],
   stamped |-> {<<r.node, r.id>> : r \in {q \in rows : q.stamped}}]

-----------------------------------------------------------------------------
Init ==
  /\ \E family \in Families : decl \in family
  /\ stage = "authored" /\ verdict = "none"
  /\ ir = {} /\ firmware = <<>> /\ index = <<>>

Reject(why) == stage' = "rejected" /\ verdict' = why

(* IrTransformer.transform *)
Project ==
  /\ stage = "authored"
  /\ \/ ~TypesResolve(decl) /\ Reject("unknown type") /\ UNCHANGED ir
     \/ /\ TypesResolve(decl) /\ ~WellShaped(Rows(decl))
        /\ Reject("malformed row") /\ UNCHANGED ir
     \/ /\ TypesResolve(decl) /\ WellShaped(Rows(decl))
        /\ ir' = Rows(decl) /\ stage' = "projected" /\ UNCHANGED verdict
  /\ UNCHANGED <<decl, firmware, index>>

(* Verifier.verify *)
Verify ==
  /\ stage = "projected"
  /\ verdict' = Verdict(decl, ir)
  /\ stage' = IF verdict' = "ok" THEN "compiled" ELSE "rejected"
  /\ UNCHANGED <<decl, ir, firmware, index>>

(* mix wire.gen: raises when a status port has no floor to report. *)
Generate ==
  /\ stage = "compiled"
  /\ \/ /\ \E h \in DOMAIN decl.hubs : \E st \in Statuses(ir, h) : Candidates(ir, st) = {}
        /\ stage' = "unpaired status" /\ UNCHANGED firmware
     \/ /\ \A h \in DOMAIN decl.hubs : \A st \in Statuses(ir, h) : Candidates(ir, st) # {}
        /\ stage' = "generated"
        /\ firmware' = [h \in HubModels(decl.hubs) |-> Glue(decl, ir, h)]
  /\ UNCHANGED <<decl, verdict, ir, index>>

(* The C compiler: a floor without a window is an empty macro in a product. *)
Build ==
  /\ stage = "generated"
  /\ stage' = IF \E h \in DOMAIN firmware : \E p \in DOMAIN firmware[h].floors :
                    firmware[h].floors[p].misses = Nil
                THEN "C error" ELSE "built"
  /\ UNCHANGED <<decl, verdict, ir, firmware, index>>

(* PortIndex.build, when the host starts: the robot module has compiled, the *)
(* firmware need not have been generated.                                   *)
Boot ==
  /\ verdict = "ok" /\ index = <<>>
  /\ index' = [k \in {<<r.node, r.id>> : r \in ir} |->
                 CHOOSE r \in ir : <<r.node, r.id>> = k]
  /\ UNCHANGED <<decl, stage, verdict, ir, firmware>>

Next == Project \/ Verify \/ Generate \/ Build \/ Boot
Spec == Init /\ [][Next]_vars

-----------------------------------------------------------------------------
(* The frames of the two programs: [node, id, rest], where rest counts the   *)
(* bytes after the base header.                                             *)

StampSize == HeaderSize(TRUE) - HeaderSize(FALSE)

Frame(r, row) ==
  [node |-> r.node, id |-> r.id,
   rest |-> (IF row.stamped THEN StampSize ELSE 0) + PayloadSize(row)]

(* LinkOwner.send_value: the type and the shape come from the index. *)
EncodeCommand(r) == Frame(r, index[<<r.node, r.id>>])

(* The sample and status ticks of the glue. *)
SampleTick(r) == Frame(r, r)

NoRow == [hub |-> Nil, port |-> Nil]

(* Codec.decode_body *)
DecodeBody(body) ==
  LET key == <<body.node, body.id>>
      row == index[key]
  IN  IF key \in DOMAIN index /\ body.rest = Frame(row, row).rest THEN row ELSE NoRow

(* wire_port_stamped: the shape is looked up, it is not on the wire. *)
PortStamped(h, body) == <<body.node, body.id>> \in firmware[h].stamped

(* frame_decode_body: the payload it leaves, or -1. *)
PayloadOf(h, body) ==
  LET left == body.rest - (IF PortStamped(h, body) THEN StampSize ELSE 0)
  IN  IF left \in 0..MaxPayload THEN left ELSE -1

(* deliver_local and the on_command handlers: the port of h that takes body. *)
TakenBy(h, body) ==
  {p \in DOMAIN firmware[h].floors \cup firmware[h].direct :
     /\ firmware[h].table[body.node] = Local
     /\ PortId[<<h, p>>] = body.id
     /\ PayloadOf(h, body) >= PayloadSize(Port(decl, h, p))}

-----------------------------------------------------------------------------
Running == stage = "built" /\ index # <<>>

TopologyErrors ==
  {"reserved node", "shared node", "no root", "two roots", "root uplink",
   "unknown parent", "no uplink", "parent cycle"}

Judged == verdict # "none" /\ verdict \notin {"unknown type", "malformed row"}

(* The verifier's local checks together accept exactly the declarations      *)
(* whose parents form one tree under the host, with one hub on the host's    *)
(* link, distinct unreserved node ids and a transport on every other link.   *)
VerifierExact == Judged => (verdict \in TopologyErrors <=> ~WellFormed(decl.hubs))

(* Where every hub has a port, every table sends a node of the hub's        *)
(* subtree to the link of the child whose subtree holds it, the hub's own   *)
(* node to itself, and every other node up; children have the same link     *)
(* exactly when they share a bus.  (Below a hub without ports nothing has a *)
(* route: hub_models does not see the hub.)                                 *)
RoutesReach ==
  LET D == decl.hubs IN
  HubModels(D) = DOMAIN D =>
  \A h \in DOMAIN firmware, d \in DOMAIN D :
    LET towards(n) == firmware[h].table[D[n].node] IN
    /\ d = h <=> towards(d) = Local
    /\ d # h => (towards(d) = 0 <=> ~\E c \in DOMAIN D : StepsTo(D, c, h, d))
    /\ \A c \in DOMAIN D :
         StepsTo(D, c, h, d) =>
           /\ towards(d) = towards(c)
           /\ \A b \in DOMAIN D \ {c} :
                D[b].parent = h =>
                  (towards(b) = towards(c) <=> D[b].uplink = "can" /\ D[c].uplink = "can")

(* Where the payload fits a hub's frame, what one side packs for a port the  *)
(* other side gives to that port: a command to its handler and to no other   *)
(* of any hub, a sample to its row in the host's index.                      *)
FramesFindTheirPort ==
  Running =>
    \A r \in {q \in ir : PayloadSize(q) <= MaxPayload} :
      IF r.dir = "in"
        THEN \A h \in DOMAIN firmware :
               TakenBy(h, EncodeCommand(r)) = IF h = r.hub THEN {r.port} ELSE {}
        ELSE /\ DecodeBody(SampleTick(r)) = r
             /\ \A h \in DOMAIN firmware : TakenBy(h, SampleTick(r)) = {}

(* In firmware that builds, no command port has lost its dead-man: a port    *)
(* that was given a safe action, or called floored, has a floor with exactly *)
(* that action and a window of at least one beat that a view of the port     *)
(* asked for (in milliseconds too, up to 1000 commands a second); the others *)
(* drive directly.                                                           *)
DeadManKept ==
  stage = "built" =>
    \A r \in {q \in ir : q.dir = "in"} :
      IF r.safe = Nil /\ r.floored # TRUE
        THEN r.port \in firmware[r.hub].direct
        ELSE /\ r.port \in DOMAIN firmware[r.hub].floors \ firmware[r.hub].direct
             /\ LET floor == firmware[r.hub].floors[r.port] IN
                /\ floor.safe = [f \in Fields(r) |-> "number"]
                /\ floor.misses >= 1
                /\ r.rate <= 1000 => floor.misses * floor.periodMs >= 1
                /\ \E i \in DOMAIN decl.views :
                     LET v == decl.views[i] IN
                     v.hub = r.hub /\ v.port = r.port /\ v.freshFor = floor.misses

(* The status a view of a floored port reads is that port's own, if it is    *)
(* the hub's only floor or the names pair them off by suffix.  (Nothing      *)
(* checks that they do: a view of motor_left may read status_right.)         *)
StatusIsOwn ==
  stage = "built" =>
    \A i \in DOMAIN decl.views :
      LET v      == decl.views[i]
          glue   == firmware[v.hub]
          floors == DOMAIN glue.floors
      IN  /\ v.status \in DOMAIN glue.reports /\ v.port \in floors
          /\ \/ floors = {v.port}
             \/ \A p \in floors : Suffix[p] = Suffix[v.status] <=> p = v.port
          => glue.reports[v.status] = v.port

=============================================================================
