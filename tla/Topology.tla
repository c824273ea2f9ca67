------------------------------ MODULE Topology ------------------------------
(***************************************************************************)
(* The declared topology of a robot: the checks of dsl/checks.ex that       *)
(* decide which declarations compile, and the per-hub links and route       *)
(* tables that WireGen renders from an accepted one (ADR-0006).             *)
(*                                                                         *)
(* D maps the name of a hub to its node id, its parent (another hub or      *)
(* Host), the transport of its up-link (or NoUplink) and its ports, by name: *)
(* the generator works from the IR, which has one row per port, so a hub    *)
(* without ports is invisible to it.  Operators only: the pipeline that     *)
(* calls them is in Contract.                                               *)
(***************************************************************************)
EXTENDS Naturals, FiniteSets

CONSTANTS
  Host,          \* the parent of the root
  NoUplink,      \* an uplink that is not declared
  NodeIds        \* the node ids that tables are compared over

Reserved == 0    \* Contract.broadcast_node()
Local == 255     \* LINK_LOCAL_IDX

-----------------------------------------------------------------------------
(* dsl/checks.ex *)

RootHubs(D) == {h \in DOMAIN D : D[h].parent = Host}

ReservedFree(D) == \A h \in DOMAIN D : D[h].node # Reserved

(* Mutant: node ids are compared only among the children of one parent. *)
SiblingsUnique(D) ==
  \A g, h \in DOMAIN D : D[g].parent = D[h].parent /\ D[g].node = D[h].node => g = h

NodesUnique(D) == \A g, h \in DOMAIN D : D[g].node = D[h].node => g = h
RootUplinkFree(D) == \A h \in RootHubs(D) : D[h].uplink = NoUplink
ParentsResolve(D) == \A h \in DOMAIN D : D[h].parent \in DOMAIN D \cup {Host}
UplinksDeclared(D) ==
  \A h \in DOMAIN D : D[h].parent # Host => D[h].uplink # NoUplink

(* walk_to_host: follow the parents of g until Host, an unknown parent, or   *)
(* a hub already seen on the path.                                           *)
Walk(D) ==
  LET walk[seen \in SUBSET DOMAIN D] ==
        [g \in DOMAIN D |->
           \/ D[g].parent = Host
           \/ /\ g \notin seen
              /\ \/ D[g].parent \notin DOMAIN D
                 \/ walk[seen \cup {g}][D[g].parent]]
  IN  walk

ReachesHost(D, h) == Walk(D)[{}][h]

NoCycles(D) == \A h \in DOMAIN D : ReachesHost(D, h)

TopologyVerdict(D) ==
  IF ~ReservedFree(D)                     THEN "reserved node"
  ELSE IF ~NodesUnique(D)                 THEN "shared node"
  ELSE IF RootHubs(D) = {}                THEN "no root"
  ELSE IF Cardinality(RootHubs(D)) > 1    THEN "two roots"
  ELSE IF ~RootUplinkFree(D)              THEN "root uplink"
  ELSE IF ~ParentsResolve(D)              THEN "unknown parent"
  ELSE IF ~UplinksDeclared(D)             THEN "no uplink"
  ELSE IF ~NoCycles(D)                    THEN "parent cycle"
  ELSE "ok"

-----------------------------------------------------------------------------
(* gen/wire_gen.ex *)

HubModels(D) == {h \in DOMAIN D : DOMAIN D[h].ports # {}}
ChildrenOf(D, h) == {c \in HubModels(D) : D[c].parent = h}

(* The groups of children that share a medium: the CAN children are on one   *)
(* bus, every other child has a link of its own.                             *)
Groups(D, h) ==
  LET can == {c \in ChildrenOf(D, h) : D[c].uplink = "can"}
  IN  {{c} : c \in ChildrenOf(D, h) \ can}
        \cup (IF can = {} THEN {} ELSE {can})

MinNode(D, group) ==
  CHOOSE n \in {D[c].node : c \in group} : \A c \in group : n <= D[c].node

(* Groups are numbered from 1 in the order of their lowest node id. *)
LinkIndex(D, h, group) ==
  Cardinality({g \in Groups(D, h) : MinNode(D, g) <= MinNode(D, group)})

(* Mutant: a child's own children are left out. *)
ChildOnly(D, h) == {D[h].node}

Subtrees(D) ==
  LET sub[g \in HubModels(D)] ==
        {D[g].node} \cup UNION {sub[c] : c \in ChildrenOf(D, g)}
  IN  sub

SubtreeNodes(D, h) == Subtrees(D)[h]

RouteTable(D, h) ==
  [n \in NodeIds |->
     IF n = D[h].node THEN Local
     ELSE LET via == {g \in Groups(D, h) :
                        \E c \in g : n \in SubtreeNodes(D, c)}
          IN  IF via = {} THEN 0 ELSE LinkIndex(D, h, CHOOSE g \in via : TRUE)]

-----------------------------------------------------------------------------
(* The declaration as a graph, an edge from each hub to its parent: g is h,  *)
(* or over it, when every set of nodes that holds h, and with a hub also its *)
(* parent, holds g.                                                          *)
Nodes(D) == DOMAIN D \cup {Host}

Upward(D, S) == \A h \in S \ {Host} : D[h].parent \in Nodes(D) => D[h].parent \in S

Above(D, h) ==
  {g \in Nodes(D) : \A S \in SUBSET Nodes(D) : h \in S /\ Upward(D, S) => g \in S}

WellFormed(D) ==
  /\ \A h \in DOMAIN D : Host \in Above(D, h)
  /\ Cardinality({h \in DOMAIN D : D[h].parent = Host}) = 1
  /\ Cardinality({D[h].node : h \in DOMAIN D} \ {Reserved}) = Cardinality(DOMAIN D)
  /\ \A h \in DOMAIN D : D[h].parent = Host <=> D[h].uplink = NoUplink

(* c is the child of h on the way down to d. *)
StepsTo(D, c, h, d) == D[c].parent = h /\ c \in Above(D, d)

=============================================================================
