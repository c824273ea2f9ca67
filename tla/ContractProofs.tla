--------------------------- MODULE ContractProofs ---------------------------
(***************************************************************************)
(* What the pipeline from the declaration to the two programs keeps, for    *)
(* every declaration the DSL lets an author write.                          *)
(***************************************************************************)
EXTENDS Contract, FiniteSetTheorems, WellFoundedInduction, TLAPS

(* Induction: a set of natural numbers that is not empty has a least element. *)
LessNat == {p \in Nat \X Nat : p[1] < p[2]}

LEMMA Least ==
  ASSUME NEW S, S \subseteq Nat, S # {}
  PROVE  \E n \in S : \A m \in S : n <= m
<1>1. LessNat = OpToRel(<, Nat)
  BY DEF LessNat, OpToRel
<1>2. IsWellFoundedOn(LessNat, Nat)
  BY NatLessThanWellFounded, <1>1
<1>3. PICK n \in S : \A m \in S : <<m, n>> \notin LessNat
  BY <1>2, WFMin
<1>4. ASSUME NEW m \in S PROVE n <= m
  <2>1. m \in Nat /\ n \in Nat /\ <<m, n>> \notin LessNat
    BY <1>3
  <2>2. <<m, n>> \in Nat \X Nat /\ <<m, n>>[1] = m /\ <<m, n>>[2] = n
    BY <2>1
  <2>3. ~(m < n)
    BY <2>1, <2>2 DEF LessNat
  <2> QED
    BY <2>1, <2>3
<1> QED
  BY <1>4

LEMMA Induction ==
  ASSUME NEW K, 0 \in K, \A n \in Nat : n \in K => n + 1 \in K
  PROVE  Nat \subseteq K
<1>. SUFFICES ASSUME Nat \ K # {} PROVE FALSE
  OBVIOUS
<1>1. PICK n \in Nat \ K : \A m \in Nat \ K : n <= m
  BY Least
<1>2. n # 0 /\ n - 1 \in Nat /\ n - 1 \in K
  BY <1>1
<1> QED
  BY <1>1, <1>2

-----------------------------------------------------------------------------
(* The walk to the host.  Each of its steps leaves fewer hubs unseen, so the  *)
(* equations that define it have a solution.                                 *)
Step(D, w, seen, g) ==
  \/ D[g].parent = Host
  \/ /\ g \notin seen
     /\ \/ D[g].parent \notin DOMAIN D
        \/ w[seen \cup {g}][D[g].parent]

Steps(D, w) == [seen \in SUBSET DOMAIN D |-> [g \in DOMAIN D |-> Step(D, w, seen, g)]]

Unseen(D, seen) == Cardinality(DOMAIN D \ seen)

LEMMA FewerUnseen ==
  ASSUME NEW D, IsFiniteSet(DOMAIN D), NEW seen \in SUBSET DOMAIN D,
         NEW g \in DOMAIN D, g \notin seen
  PROVE  /\ Unseen(D, seen) \in Nat /\ Unseen(D, seen \cup {g}) \in Nat
         /\ Unseen(D, seen \cup {g}) < Unseen(D, seen)
         /\ seen \cup {g} \in SUBSET DOMAIN D
<1>1. IsFiniteSet(DOMAIN D \ seen)
  BY FS_Difference
<1>2. DOMAIN D \ (seen \cup {g}) = (DOMAIN D \ seen) \ {g}
  OBVIOUS
<1>3. Cardinality((DOMAIN D \ seen) \ {g}) = Cardinality(DOMAIN D \ seen) - 1
  BY <1>1, FS_RemoveElement
<1>4. IsFiniteSet((DOMAIN D \ seen) \ {g})
  BY <1>1, FS_RemoveElement
<1>5. /\ Cardinality(DOMAIN D \ seen) \in Nat
      /\ Cardinality((DOMAIN D \ seen) \ {g}) \in Nat
  BY <1>1, <1>4, FS_CardinalityType
<1>6. Unseen(D, seen \cup {g}) = Unseen(D, seen) - 1
  BY <1>2, <1>3 DEF Unseen
<1> QED
  BY <1>2, <1>5, <1>6 DEF Unseen

LEMMA WalkExists ==
  ASSUME NEW D, IsFiniteSet(DOMAIN D)
  PROVE  \E w : w = Steps(D, w)
<1>. DEFINE H == DOMAIN D
            Upto(k, w) == \A seen \in SUBSET H : Unseen(D, seen) < k => w[seen] = Steps(D, w)[seen]
            K == {k \in Nat : \E w : Upto(k, w)}
<1>0. \A seen \in SUBSET H : Unseen(D, seen) \in Nat
  BY FS_Difference, FS_CardinalityType DEF Unseen
<1>1. 0 \in K
  BY <1>0
<1>2. ASSUME NEW k \in Nat, k \in K PROVE k + 1 \in K
  <2>1. PICK w : Upto(k, w)
    BY <1>2
  <2>. DEFINE v == [seen \in SUBSET H |-> IF Unseen(D, seen) < k THEN w[seen]
                                           ELSE Steps(D, w)[seen]]
  <2>2. ASSUME NEW seen \in SUBSET H, Unseen(D, seen) < k + 1
        PROVE  Steps(D, w)[seen] = Steps(D, v)[seen]
    <3>1. ASSUME NEW g \in H PROVE Step(D, w, seen, g) = Step(D, v, seen, g)
      <4>1. CASE g \in seen
        BY <4>1 DEF Step
      <4>2. CASE g \notin seen
        <5>1. Unseen(D, seen \cup {g}) < k /\ seen \cup {g} \in SUBSET H
          BY <1>0, <2>2, <4>2, FewerUnseen
        <5>2. v[seen \cup {g}] = w[seen \cup {g}]
          BY <5>1
        <5> QED
          BY <5>2 DEF Step
      <4> QED
        BY <4>1, <4>2
    <3>. HIDE DEF v
    <3> QED
      BY <3>1 DEF Steps
  <2>3. Upto(k + 1, v)
    <3>. SUFFICES ASSUME NEW seen \in SUBSET H, Unseen(D, seen) < k + 1
                  PROVE  v[seen] = Steps(D, v)[seen]
      OBVIOUS
    <3>1. v[seen] = Steps(D, w)[seen]
      <4>1. CASE Unseen(D, seen) < k
        BY <2>1, <4>1
      <4>2. CASE ~(Unseen(D, seen) < k)
        BY <4>2
      <4> QED
        BY <4>1, <4>2
    <3>. HIDE DEF v
    <3> QED
      BY <2>2, <3>1
  <2>. HIDE DEF Upto, v
  <2> QED
    BY <2>3
<1>. HIDE DEF K
<1>3. Nat \subseteq K
  BY <1>1, <1>2, Induction
<1>4. Cardinality(H) \in Nat
  BY FS_CardinalityType
<1>5. PICK w : Upto(Cardinality(H) + 1, w)
  BY <1>3, <1>4 DEF K
<1>6. \A seen \in SUBSET H : w[seen] = Steps(D, w)[seen]
  <2>1. ASSUME NEW seen \in SUBSET H PROVE Unseen(D, seen) < Cardinality(H) + 1
    <3>1. Cardinality(H \ seen) <= Cardinality(H)
      BY FS_Subset
    <3>2. Unseen(D, seen) \in Nat /\ Unseen(D, seen) <= Cardinality(H)
      BY <1>0, <3>1 DEF Unseen
    <3> QED
      BY <1>4, <3>2
  <2> QED
    BY <1>5, <2>1
<1>. DEFINE v == [seen \in SUBSET H |-> w[seen]]
<1>7. ASSUME NEW seen \in SUBSET H PROVE Steps(D, v)[seen] = Steps(D, w)[seen]
  <2>1. ASSUME NEW g \in H PROVE Step(D, v, seen, g) = Step(D, w, seen, g)
    BY DEF Step
  <2>. HIDE DEF v
  <2> QED
    BY <2>1 DEF Steps
<1>8. v = Steps(D, v)
  <2>1. \A seen \in SUBSET H : v[seen] = Steps(D, v)[seen]
    BY <1>6, <1>7
  <2>2. v = [seen \in SUBSET H |-> v[seen]]
    OBVIOUS
  <2>3. Steps(D, v) = [seen \in SUBSET H |-> Steps(D, v)[seen]]
    BY DEF Steps
  <2>. HIDE DEF v
  <2> QED
    BY <2>1, <2>2, <2>3
<1> QED
  BY <1>8

LEMMA WalkStep ==
  ASSUME NEW D, IsFiniteSet(DOMAIN D), NEW seen \in SUBSET DOMAIN D, NEW g \in DOMAIN D
  PROVE  Walk(D)[seen][g] = Step(D, Walk(D), seen, g)
<1>1. Walk(D) = CHOOSE w : w = Steps(D, w)
  BY DEF Walk, Steps, Step
<1>2. Walk(D) = Steps(D, Walk(D))
  BY <1>1, WalkExists
<1> QED
  BY <1>2 DEF Steps

LEMMA TopologyVerdicts ==
  ASSUME NEW D
  PROVE  /\ TopologyVerdict(D) \in TopologyErrors \cup {"ok"}
         /\ TopologyVerdict(D) = "ok" <=>
              /\ ReservedFree(D) /\ NodesUnique(D) /\ RootHubs(D) # {}
              /\ ~(Cardinality(RootHubs(D)) > 1) /\ RootUplinkFree(D)
              /\ ParentsResolve(D) /\ UplinksDeclared(D) /\ NoCycles(D)
BY DEF TopologyVerdict, TopologyErrors

-----------------------------------------------------------------------------
(* A walk that ends well has met the host in every set that it cannot leave. *)
LEMMA WalkUp ==
  ASSUME NEW D, IsFiniteSet(DOMAIN D), Host \notin DOMAIN D, ParentsResolve(D),
         NEW S \in SUBSET Nodes(D), Upward(D, S),
         NEW h \in DOMAIN D, h \in S, Walk(D)[{}][h]
  PROVE  Host \in S
<1>. DEFINE H == DOMAIN D
            K == {k \in Nat : \A seen \in SUBSET H : \A g \in H :
                    Unseen(D, seen) < k /\ g \in S /\ Walk(D)[seen][g] => Host \in S}
<1>0. \A seen \in SUBSET H : Unseen(D, seen) \in Nat
  BY FS_Difference, FS_CardinalityType DEF Unseen
<1>1. 0 \in K
  BY <1>0
<1>2. ASSUME NEW k \in Nat, k \in K PROVE k + 1 \in K
  <2>. SUFFICES ASSUME NEW seen \in SUBSET H, NEW g \in H,
                       Unseen(D, seen) < k + 1, g \in S, Walk(D)[seen][g]
                PROVE  Host \in S
    OBVIOUS
  <2>1. Step(D, Walk(D), seen, g)
    BY WalkStep
  <2>2. D[g].parent \in Nodes(D) => D[g].parent \in S
    BY DEF Upward
  <2>3. CASE D[g].parent = Host
    BY <2>2, <2>3 DEF Nodes
  <2>4. CASE D[g].parent # Host
    <3>1. g \notin seen /\ D[g].parent \in H /\ Walk(D)[seen \cup {g}][D[g].parent]
      BY <2>1, <2>4 DEF Step, ParentsResolve
    <3>2. Unseen(D, seen \cup {g}) < k /\ seen \cup {g} \in SUBSET H
      BY <1>0, <3>1, FewerUnseen
    <3>3. D[g].parent \in S
      BY <2>2, <3>1 DEF Nodes
    <3> QED
      BY <1>2, <3>1, <3>2, <3>3
  <2> QED
    BY <2>3, <2>4
<1>. HIDE DEF K
<1>3. Nat \subseteq K
  BY <1>1, <1>2, Induction
<1>4. Unseen(D, {}) \in Nat /\ {} \in SUBSET H
  BY <1>0
<1>5. Unseen(D, {}) + 1 \in K /\ Unseen(D, {}) < Unseen(D, {}) + 1
  BY <1>3, <1>4
<1> QED
  BY <1>4, <1>5 DEF K

(* A walk that does not has seen a set of hubs that it cannot leave.         *)
LEMMA WalkRound ==
  ASSUME NEW D, IsFiniteSet(DOMAIN D), Host \notin DOMAIN D,
         NEW h \in DOMAIN D, ~Walk(D)[{}][h]
  PROVE  \E S \in SUBSET DOMAIN D : h \in S /\ Upward(D, S)
<1>. DEFINE H == DOMAIN D
            Trail(seen, g) == \A x \in seen : D[x].parent \in seen \cup {g}
            K == {k \in Nat : \A seen \in SUBSET H : \A g \in H :
                    Unseen(D, seen) < k /\ Trail(seen, g) /\ ~Walk(D)[seen][g]
                      => \E S \in SUBSET H : seen \cup {g} \subseteq S /\ Upward(D, S)}
<1>0. \A seen \in SUBSET H : Unseen(D, seen) \in Nat
  BY FS_Difference, FS_CardinalityType DEF Unseen
<1>1. 0 \in K
  BY <1>0
<1>2. ASSUME NEW k \in Nat, k \in K PROVE k + 1 \in K
  <2>. SUFFICES ASSUME NEW seen \in SUBSET H, NEW g \in H,
                       Unseen(D, seen) < k + 1, Trail(seen, g), ~Walk(D)[seen][g]
                PROVE  \E S \in SUBSET H : seen \cup {g} \subseteq S /\ Upward(D, S)
    OBVIOUS
  <2>1. ~Step(D, Walk(D), seen, g)
    BY WalkStep
  <2>2. CASE g \in seen
    <3>1. Upward(D, seen) /\ seen \cup {g} = seen
      BY <2>2 DEF Upward
    <3> QED
      BY <3>1
  <2>3. CASE g \notin seen
    <3>1. D[g].parent \in H /\ ~Walk(D)[seen \cup {g}][D[g].parent]
      BY <2>1, <2>3 DEF Step
    <3>2. Unseen(D, seen \cup {g}) < k /\ seen \cup {g} \in SUBSET H
      BY <1>0, <2>3, FewerUnseen
    <3>3. Trail(seen \cup {g}, D[g].parent)
      OBVIOUS
    <3>. HIDE DEF Trail
    <3>4. PICK S \in SUBSET H :
            (seen \cup {g}) \cup {D[g].parent} \subseteq S /\ Upward(D, S)
      BY <1>2, <3>1, <3>2, <3>3
    <3> QED
      BY <3>4
  <2> QED
    BY <2>2, <2>3
<1>. HIDE DEF K
<1>3. Nat \subseteq K
  BY <1>1, <1>2, Induction
<1>4. Unseen(D, {}) \in Nat /\ {} \in SUBSET H
  BY <1>0
<1>5. Unseen(D, {}) + 1 \in K /\ Unseen(D, {}) < Unseen(D, {}) + 1
  BY <1>3, <1>4
<1>6. Trail({}, h)
  OBVIOUS
<1>. HIDE DEF Trail
<1>7. \E S \in SUBSET H : {} \cup {h} \subseteq S /\ Upward(D, S)
  BY <1>4, <1>5, <1>6 DEF K
<1> QED
  BY <1>7

(* The two checks of the parents accept just what hangs from the host.       *)
LEMMA HostAbove ==
  ASSUME NEW D, IsFiniteSet(DOMAIN D), Host \notin DOMAIN D
  PROVE  ParentsResolve(D) /\ NoCycles(D) <=> \A h \in DOMAIN D : Host \in Above(D, h)
<1>1. ASSUME ParentsResolve(D), NoCycles(D), NEW h \in DOMAIN D
      PROVE  Host \in Above(D, h)
  <2>1. Walk(D)[{}][h]
    BY <1>1 DEF NoCycles, ReachesHost
  <2> QED
    BY <1>1, <2>1, WalkUp DEF Above, Nodes
<1>2. ASSUME \A h \in DOMAIN D : Host \in Above(D, h), NEW h \in DOMAIN D
      PROVE  D[h].parent \in Nodes(D) /\ ReachesHost(D, h)
  <2>1. \A S \in SUBSET DOMAIN D : h \in S => ~Upward(D, S)
    BY <1>2 DEF Above, Nodes
  <2>2. D[h].parent \in Nodes(D)
    <3>1. ~Upward(D, {h})
      BY <2>1
    <3> QED
      BY <3>1 DEF Upward
  <2>3. Walk(D)[{}][h]
    BY <2>1, WalkRound
  <2> QED
    BY <2>2, <2>3 DEF ReachesHost
<1> QED
  BY <1>1, <1>2 DEF ParentsResolve, NoCycles, Nodes

(* As many node ids as hubs, none of them reserved.                          *)
LEMMA NodesCount ==
  ASSUME NEW D, IsFiniteSet(DOMAIN D)
  PROVE  ReservedFree(D) /\ NodesUnique(D) <=>
           Cardinality({D[h].node : h \in DOMAIN D} \ {Reserved}) = Cardinality(DOMAIN D)
<1>. DEFINE H == DOMAIN D
            T == {D[h].node : h \in H}
            f == [h \in H |-> D[h].node]
<1>1. f \in Surjection(H, T)
  BY DEF Surjection
<1>2. /\ IsFiniteSet(T) /\ Cardinality(T) <= Cardinality(H)
      /\ Cardinality(T) = Cardinality(H) <=> f \in Injection(H, T)
  <2>. HIDE DEF f, T
  <2> QED
    BY <1>1, FS_Surjection
<1>3. NodesUnique(D) <=> f \in Injection(H, T)
  BY DEF NodesUnique, Injection, IsInjective
<1>4. ReservedFree(D) <=> Reserved \notin T
  BY DEF ReservedFree
<1>5. Cardinality(T \ {Reserved}) = IF Reserved \in T THEN Cardinality(T) - 1 ELSE Cardinality(T)
  BY <1>2, FS_RemoveElement
<1>6. Cardinality(T) \in Nat /\ Cardinality(H) \in Nat
  BY <1>2, FS_CardinalityType
<1>. HIDE DEF f, T
<1> QED
  BY <1>2, <1>3, <1>4, <1>5, <1>6 DEF T

(* The verifier's checks of the topology accept exactly the trees.           *)
LEMMA TopologyExact ==
  ASSUME NEW D, IsFiniteSet(DOMAIN D), Host \notin DOMAIN D
  PROVE  TopologyVerdict(D) = "ok" <=> WellFormed(D)
<1>1. RootHubs(D) # {} /\ ~(Cardinality(RootHubs(D)) > 1) <=> Cardinality(RootHubs(D)) = 1
  <2>1. IsFiniteSet(RootHubs(D))
    BY FS_Subset DEF RootHubs
  <2>2. Cardinality(RootHubs(D)) \in Nat /\ (Cardinality(RootHubs(D)) = 0 <=> RootHubs(D) = {})
    BY <2>1, FS_CardinalityType, FS_EmptySet
  <2> QED
    BY <2>2
<1>2. RootUplinkFree(D) /\ UplinksDeclared(D) <=>
        \A h \in DOMAIN D : D[h].parent = Host <=> D[h].uplink = NoUplink
  BY DEF RootUplinkFree, UplinksDeclared, RootHubs
<1>3. WellFormed(D) <=>
        /\ \A h \in DOMAIN D : Host \in Above(D, h)
        /\ Cardinality(RootHubs(D)) = 1
        /\ Cardinality({D[h].node : h \in DOMAIN D} \ {Reserved}) = Cardinality(DOMAIN D)
        /\ \A h \in DOMAIN D : D[h].parent = Host <=> D[h].uplink = NoUplink
  BY DEF WellFormed, RootHubs
<1> QED
  BY <1>1, <1>2, <1>3, HostAbove, NodesCount, TopologyVerdicts

-----------------------------------------------------------------------------
(* Above, in a declaration whose every hub hangs from the host.              *)
Rooted(D) ==
  /\ Host \notin DOMAIN D
  /\ \A h \in DOMAIN D : D[h].parent \in Nodes(D) /\ Host \in Above(D, h)

LEMMA AboveIn == ASSUME NEW D, NEW h PROVE Above(D, h) \subseteq Nodes(D)
BY DEF Above

LEMMA AboveSelf == ASSUME NEW D, NEW h \in Nodes(D) PROVE h \in Above(D, h)
BY DEF Above

LEMMA AboveParent ==
  ASSUME NEW D, Rooted(D), NEW h, NEW g \in Above(D, h), g # Host
  PROVE  D[g].parent \in Above(D, h)
<1>1. g \in DOMAIN D /\ D[g].parent \in Nodes(D)
  BY AboveIn DEF Rooted, Nodes
<1>2. ASSUME NEW S \in SUBSET Nodes(D), h \in S, Upward(D, S)
      PROVE  D[g].parent \in S
  BY <1>1, <1>2 DEF Above, Upward
<1> QED
  BY <1>1, <1>2 DEF Above

LEMMA AboveUpward ==
  ASSUME NEW D, Rooted(D), NEW h
  PROVE  Above(D, h) \in SUBSET Nodes(D) /\ Upward(D, Above(D, h))
BY AboveIn, AboveParent DEF Upward

(* The rule by which everything below is shown: what a set that cannot be    *)
(* left upwards holds of h, it holds of all above h.                         *)
LEMMA AboveLeast ==
  ASSUME NEW D, NEW h, NEW S \in SUBSET Nodes(D), h \in S, Upward(D, S)
  PROVE  Above(D, h) \subseteq S
BY DEF Above

LEMMA AboveTransitive ==
  ASSUME NEW D, Rooted(D), NEW h, NEW g \in Above(D, h)
  PROVE  Above(D, g) \subseteq Above(D, h)
BY AboveUpward, AboveLeast

LEMMA AboveHost ==
  ASSUME NEW D
  PROVE  Above(D, Host) \subseteq {Host}
BY AboveLeast DEF Upward, Nodes

(* Whatever is above h, but not h itself, is above its parent.               *)
LEMMA AboveNext ==
  ASSUME NEW D, Rooted(D), NEW h \in DOMAIN D, NEW g \in Above(D, h), g # h
  PROVE  g \in Above(D, D[h].parent)
<1>. DEFINE S == {h} \cup Above(D, D[h].parent)
<1>1. D[h].parent \in Above(D, D[h].parent) /\ h \in Nodes(D)
  BY AboveSelf DEF Rooted, Nodes
<1>2. S \in SUBSET Nodes(D) /\ Upward(D, S)
  BY <1>1, AboveUpward DEF Upward
<1>. HIDE DEF S
<1>3. g \in S
  BY <1>2, AboveLeast DEF S
<1> QED
  BY <1>3 DEF S

(* Between g and a hub below it lies a child of g, perhaps that hub.         *)
LEMMA AboveChild ==
  ASSUME NEW D, Rooted(D), NEW h \in DOMAIN D, NEW g \in Above(D, h), g # h
  PROVE  \E c \in DOMAIN D : D[c].parent = g /\ c \in Above(D, h)
<1>. SUFFICES ASSUME \A c \in DOMAIN D : c \in Above(D, h) => D[c].parent # g
              PROVE  FALSE
  OBVIOUS
<1>. DEFINE S == Above(D, h) \ {g}
<1>1. h \in S
  BY AboveSelf DEF Nodes
<1>2. S \in SUBSET Nodes(D) /\ Upward(D, S)
  BY AboveUpward DEF Upward, Nodes
<1>. HIDE DEF S
<1>3. g \in S
  BY <1>1, <1>2, AboveLeast
<1> QED
  BY <1>3 DEF S

(* There are no cycles: no hub is above its parent.                          *)
LEMMA ParentNotBelow ==
  ASSUME NEW D, Rooted(D), NEW h \in DOMAIN D
  PROVE  h \notin Above(D, D[h].parent)
<1>. SUFFICES ASSUME h \in Above(D, D[h].parent) PROVE FALSE
  OBVIOUS
<1>. DEFINE S == {x \in Above(D, h) : h \in Above(D, x)}
<1>1. h \in S
  BY AboveSelf DEF Nodes
<1>2. S \in SUBSET Nodes(D)
  BY AboveUpward
<1>3. ASSUME NEW x \in S \ {Host} PROVE D[x].parent \in S
  <2>1. x \in DOMAIN D /\ D[x].parent \in Above(D, h)
    BY <1>2, <1>3, AboveParent DEF Nodes
  <2>2. h \in Above(D, D[x].parent)
    BY <2>1, <1>3, AboveNext
  <2> QED
    BY <2>1, <2>2
<1>4. Upward(D, S)
  BY <1>3 DEF Upward
<1>5. Host \notin S
  BY AboveHost DEF Rooted
<1>. HIDE DEF S
<1>6. Host \notin Above(D, h)
  BY <1>1, <1>2, <1>4, <1>5, AboveLeast
<1> QED
  BY <1>6 DEF Rooted

LEMMA Antisymmetric ==
  ASSUME NEW D, Rooted(D), NEW h \in DOMAIN D, NEW g \in Above(D, h), h \in Above(D, g)
  PROVE  g = h
<1>. SUFFICES ASSUME g # h PROVE FALSE
  OBVIOUS
<1>1. g \in Above(D, D[h].parent)
  BY AboveNext
<1>2. h \in Above(D, D[h].parent)
  BY <1>1, AboveTransitive
<1> QED
  BY <1>2, ParentNotBelow

(* A hub is below one child of h at the most.                                *)
LEMMA OneChild ==
  ASSUME NEW D, Rooted(D), NEW d \in DOMAIN D, NEW b \in DOMAIN D, NEW c \in DOMAIN D,
         D[b].parent = D[c].parent, b \in Above(D, d), c \in Above(D, d)
  PROVE  b = c
<1>. DEFINE S == {x \in Above(D, d) : x \in Above(D, c) \/ c \in Above(D, x)}
<1>1. d \in S
  BY AboveSelf DEF Nodes
<1>2. S \in SUBSET Nodes(D)
  BY AboveUpward
<1>3. ASSUME NEW x \in S \ {Host} PROVE D[x].parent \in S
  <2>1. x \in DOMAIN D /\ D[x].parent \in Above(D, d)
    BY <1>2, <1>3, AboveParent DEF Nodes
  <2>2. CASE x \in Above(D, c)
    BY <2>1, <2>2, <1>3, AboveParent
  <2>3. CASE c \in Above(D, x) /\ x # c
    BY <2>1, <2>3, AboveNext
  <2> QED
    BY <1>3, <2>2, <2>3, AboveSelf DEF Nodes
<1>4. Upward(D, S)
  BY <1>3 DEF Upward
<1>. HIDE DEF S
<1>5. b \in S
  BY <1>1, <1>2, <1>4, AboveLeast
<1>6. ASSUME NEW x \in DOMAIN D, NEW y \in DOMAIN D,
             D[x].parent = D[y].parent, x \in Above(D, y)
      PROVE  x = y
  BY <1>6, AboveNext, ParentNotBelow
<1> QED
  BY <1>5, <1>6 DEF S

(* Going down adds to what is above.                                         *)
LEMMA MoreAbove ==
  ASSUME NEW D, IsFiniteSet(DOMAIN D), Rooted(D), NEW c \in DOMAIN D
  PROVE  /\ Cardinality(Above(D, D[c].parent)) \in Nat
         /\ Cardinality(Above(D, c)) \in Nat
         /\ Cardinality(Above(D, D[c].parent)) < Cardinality(Above(D, c))
         /\ Cardinality(Above(D, c)) <= Cardinality(Nodes(D)) /\ Cardinality(Nodes(D)) \in Nat
<1>. DEFINE A == Above(D, D[c].parent)
            B == Above(D, c)
<1>1. IsFiniteSet(Nodes(D))
  BY FS_AddElement DEF Nodes
<1>2. A \subseteq B /\ B \subseteq Nodes(D)
  BY AboveIn, AboveSelf, AboveParent, AboveTransitive DEF Nodes, Rooted
<1>3. c \in B /\ c \notin A
  BY AboveSelf, ParentNotBelow DEF Nodes
<1>. HIDE DEF A, B
<1>4. /\ IsFiniteSet(B) /\ Cardinality(B) <= Cardinality(Nodes(D))
  BY <1>1, <1>2, FS_Subset
<1>5. /\ IsFiniteSet(A) /\ Cardinality(A) <= Cardinality(B)
      /\ Cardinality(B) = Cardinality(A) => B = A
  BY <1>2, <1>4, FS_Subset
<1>6. /\ Cardinality(A) \in Nat /\ Cardinality(B) \in Nat /\ Cardinality(Nodes(D)) \in Nat
  BY <1>1, <1>4, <1>5, FS_CardinalityType
<1> QED
  BY <1>3, <1>4, <1>5, <1>6 DEF A, B

-----------------------------------------------------------------------------
(* The subtrees that the tables are made from are those of the declaration.  *)
NodesBelow(D, g) == {D[c].node : c \in {e \in DOMAIN D : g \in Above(D, e)}}

Gather(D, sub) ==
  [g \in HubModels(D) |-> {D[g].node} \cup UNION {sub[c] : c \in ChildrenOf(D, g)}]

LEMMA Children ==
  ASSUME NEW D, HubModels(D) = DOMAIN D, NEW g
  PROVE  ChildrenOf(D, g) = {c \in DOMAIN D : D[c].parent = g}
BY DEF ChildrenOf

LEMMA BelowGathered ==
  ASSUME NEW D, Rooted(D), HubModels(D) = DOMAIN D, NEW g \in DOMAIN D
  PROVE  NodesBelow(D, g) =
           {D[g].node} \cup UNION {NodesBelow(D, c) : c \in ChildrenOf(D, g)}
<1>1. ASSUME NEW e \in DOMAIN D, g \in Above(D, e), e # g
      PROVE  \E c \in ChildrenOf(D, g) : D[e].node \in NodesBelow(D, c)
  <2>1. PICK c \in DOMAIN D : D[c].parent = g /\ c \in Above(D, e)
    BY <1>1, AboveChild
  <2> QED
    BY <2>1, Children DEF NodesBelow
<1>2. ASSUME NEW c \in ChildrenOf(D, g)
      PROVE  NodesBelow(D, c) \subseteq NodesBelow(D, g)
  <2>1. c \in DOMAIN D /\ D[c].parent = g /\ c # Host
    BY Children DEF Rooted
  <2>2. \A e \in DOMAIN D : c \in Above(D, e) => g \in Above(D, e)
    BY <2>1, AboveParent
  <2> QED
    BY <2>2 DEF NodesBelow
<1>3. D[g].node \in NodesBelow(D, g)
  BY AboveSelf DEF NodesBelow, Nodes
<1>4. ASSUME NEW n \in NodesBelow(D, g)
      PROVE  n \in {D[g].node} \cup UNION {NodesBelow(D, c) : c \in ChildrenOf(D, g)}
  BY <1>1 DEF NodesBelow
<1> QED
  BY <1>2, <1>3, <1>4

LEMMA SubtreeSteps ==
  ASSUME NEW D, Rooted(D), HubModels(D) = DOMAIN D, NEW g \in DOMAIN D
  PROVE  Subtrees(D)[g] = {D[g].node} \cup UNION {Subtrees(D)[c] : c \in ChildrenOf(D, g)}
<1>. DEFINE sol == [x \in DOMAIN D |-> NodesBelow(D, x)]
<1>1. sol = Gather(D, sol)
  <2>1. ASSUME NEW x \in DOMAIN D PROVE sol[x] = Gather(D, sol)[x]
    <3>1. \A c \in ChildrenOf(D, x) : sol[c] = NodesBelow(D, c)
      BY Children
    <3>2. {sol[c] : c \in ChildrenOf(D, x)} = {NodesBelow(D, c) : c \in ChildrenOf(D, x)}
      BY <3>1
    <3>3. sol[x] = NodesBelow(D, x)
      OBVIOUS
    <3>. HIDE DEF sol
    <3> QED
      BY <3>2, <3>3, BelowGathered DEF Gather
  <2>2. sol = [x \in DOMAIN D |-> sol[x]]
    OBVIOUS
  <2>3. Gather(D, sol) = [x \in DOMAIN D |-> Gather(D, sol)[x]]
    BY DEF Gather
  <2>. HIDE DEF sol
  <2> QED
    BY <2>1, <2>2, <2>3
<1>2. Subtrees(D) = CHOOSE sub : sub = Gather(D, sub)
  BY DEF Subtrees, Gather
<1>. HIDE DEF sol
<1>3. Subtrees(D) = Gather(D, Subtrees(D))
  BY <1>1, <1>2
<1> QED
  BY <1>3 DEF Gather

LEMMA SubtreeExact ==
  ASSUME NEW D, IsFiniteSet(DOMAIN D), Rooted(D), HubModels(D) = DOMAIN D,
         NEW g \in DOMAIN D
  PROVE  SubtreeNodes(D, g) = NodesBelow(D, g)
<1>. DEFINE sub == Subtrees(D)
<1>1. ASSUME NEW e \in DOMAIN D, g \in Above(D, e)
      PROVE  D[e].node \in sub[g]
  <2>. DEFINE S == {x \in Nodes(D) : x = Host \/ D[e].node \in sub[x]}
  <2>1. e \in S
    BY SubtreeSteps DEF Nodes
  <2>2. Upward(D, S)
    <3>. SUFFICES ASSUME NEW x \in S \ {Host}, D[x].parent \in DOMAIN D
                  PROVE  D[e].node \in sub[D[x].parent]
      BY DEF Upward, Nodes
    <3>1. x \in ChildrenOf(D, D[x].parent) /\ D[e].node \in sub[x]
      BY Children DEF Nodes
    <3>. HIDE DEF sub
    <3>2. sub[D[x].parent] = {D[D[x].parent].node}
            \cup UNION {sub[c] : c \in ChildrenOf(D, D[x].parent)}
      BY SubtreeSteps DEF sub
    <3> QED
      BY <3>1, <3>2
  <2>3. g \in S
    <3>1. S \in SUBSET Nodes(D)
      OBVIOUS
    <3>. HIDE DEF S
    <3> QED
      BY <1>1, <2>1, <2>2, <3>1, AboveLeast
  <2> QED
    BY <2>3 DEF Rooted
<1>2. ASSUME NEW n \in sub[g] \ NodesBelow(D, g)
      PROVE  FALSE
  <2>. DEFINE X == {x \in DOMAIN D : n \in sub[x] \ NodesBelow(D, x)}
              K == {k \in Nat : \E x \in X : Cardinality(Above(D, x)) >= k}
  <2>1. \A x \in X : \E c \in X : D[c].parent = x
    <3>. SUFFICES ASSUME NEW x \in X PROVE \E c \in X : D[c].parent = x
      OBVIOUS
    <3>1. n \in sub[x] /\ n \notin NodesBelow(D, x)
      OBVIOUS
    <3>2. NodesBelow(D, x) = {D[x].node} \cup UNION {NodesBelow(D, c) : c \in ChildrenOf(D, x)}
      BY BelowGathered
    <3>3. sub[x] = {D[x].node} \cup UNION {sub[c] : c \in ChildrenOf(D, x)}
      BY SubtreeSteps
    <3>. HIDE DEF sub
    <3>4. PICK c \in ChildrenOf(D, x) : n \in sub[c] /\ n \notin NodesBelow(D, c)
      BY <3>1, <3>2, <3>3
    <3> QED
      BY <3>4, Children
  <2>2. \A x \in X : Cardinality(Above(D, x)) \in Nat
                       /\ Cardinality(Above(D, x)) <= Cardinality(Nodes(D))
                       /\ Cardinality(Nodes(D)) \in Nat
    BY MoreAbove
  <2>3. 0 \in K
    BY <1>2, <2>2
  <2>4. ASSUME NEW k \in Nat, k \in K PROVE k + 1 \in K
    <3>1. PICK x \in X : Cardinality(Above(D, x)) >= k
      BY <2>4
    <3>2. PICK c \in X : D[c].parent = x
      BY <2>1
    <3>3. Cardinality(Above(D, x)) < Cardinality(Above(D, c))
      BY <3>2, MoreAbove
    <3>. HIDE DEF X
    <3> QED
      BY <2>2, <3>1, <3>3
  <2>. HIDE DEF K
  <2>5. Nat \subseteq K
    BY <2>3, <2>4, Induction
  <2>. HIDE DEF X
  <2>6. g \in X
    BY <1>2 DEF X
  <2>7. Cardinality(Nodes(D)) + 1 \in K
    BY <2>2, <2>5, <2>6
  <2> QED
    BY <2>2, <2>7 DEF K
<1>. HIDE DEF sub
<1>3. NodesBelow(D, g) \subseteq sub[g]
  BY <1>1 DEF NodesBelow
<1> QED
  BY <1>2, <1>3 DEF SubtreeNodes, sub

-----------------------------------------------------------------------------
(* The links of a hub: one per group of children.                            *)
Numbered(D) ==
  /\ NodesUnique(D) /\ \A h \in DOMAIN D : D[h].node \in 1 .. 255

GroupOf(D, h, c) ==
  IF D[c].uplink = "can" THEN {x \in ChildrenOf(D, h) : D[x].uplink = "can"} ELSE {c}

LEMMA GroupsAre ==
  ASSUME NEW D, NEW h
  PROVE  /\ \A c \in ChildrenOf(D, h) : GroupOf(D, h, c) \in Groups(D, h) /\ c \in GroupOf(D, h, c)
         /\ \A g \in Groups(D, h) : /\ g # {} /\ g \subseteq ChildrenOf(D, h)
                                    /\ \A c \in g : g = GroupOf(D, h, c)
<1>. DEFINE can == {x \in ChildrenOf(D, h) : D[x].uplink = "can"}
<1>1. Groups(D, h) = {{c} : c \in ChildrenOf(D, h) \ can} \cup (IF can = {} THEN {} ELSE {can})
  BY DEF Groups
<1>2. ASSUME NEW c \in ChildrenOf(D, h)
      PROVE  GroupOf(D, h, c) = (IF c \in can THEN can ELSE {c})
  BY <1>2 DEF GroupOf
<1>3. can \subseteq ChildrenOf(D, h)
  OBVIOUS
<1>. HIDE DEF can
<1>4. ASSUME NEW c \in ChildrenOf(D, h)
      PROVE  GroupOf(D, h, c) \in Groups(D, h) /\ c \in GroupOf(D, h, c)
  <2>1. CASE c \in can
    BY <1>1, <1>2, <2>1
  <2>2. CASE c \notin can
    BY <1>1, <1>2, <2>2
  <2> QED
    BY <2>1, <2>2
<1>5. ASSUME NEW g \in Groups(D, h)
      PROVE  /\ g # {} /\ g \subseteq ChildrenOf(D, h)
             /\ \A c \in g : g = GroupOf(D, h, c)
  <2>1. CASE g = can /\ can # {}
    BY <1>2, <1>3, <2>1
  <2>2. ASSUME NEW c \in ChildrenOf(D, h) \ can, g = {c}
        PROVE  /\ g # {} /\ g \subseteq ChildrenOf(D, h)
               /\ \A x \in g : g = GroupOf(D, h, x)
    BY <1>2, <2>2
  <2> QED
    BY <1>1, <2>1, <2>2
<1> QED
  BY <1>4, <1>5

LEMMA LowestNode ==
  ASSUME NEW D, Numbered(D), NEW h, NEW g \in Groups(D, h)
  PROVE  /\ MinNode(D, g) \in {D[c].node : c \in g}
         /\ \E c \in g : c \in ChildrenOf(D, h) /\ c \in DOMAIN D /\ MinNode(D, g) = D[c].node
<1>. DEFINE N == {D[c].node : c \in g}
<1>1. g # {} /\ \A c \in g : c \in ChildrenOf(D, h) /\ c \in DOMAIN D
  BY GroupsAre DEF ChildrenOf, HubModels
<1>2. N \subseteq Nat /\ N # {}
  BY <1>1 DEF Numbered
<1>3. \E n \in N : \A m \in N : n <= m
  <2>. HIDE DEF N
  <2> QED
    BY <1>2, Least
<1>4. \E n \in N : \A c \in g : n <= D[c].node
  BY <1>3
<1>5. MinNode(D, g) \in N
  BY <1>4 DEF MinNode
<1> QED
  BY <1>1, <1>5

LEMMA LowestNodeOfOne ==
  ASSUME NEW D, Numbered(D), NEW h, NEW f \in Groups(D, h), NEW g \in Groups(D, h),
         MinNode(D, f) = MinNode(D, g)
  PROVE  f = g
<1>1. PICK c \in f : c \in DOMAIN D /\ MinNode(D, f) = D[c].node
  BY LowestNode
<1>2. PICK e \in g : e \in DOMAIN D /\ MinNode(D, g) = D[e].node
  BY LowestNode
<1>3. c = e
  BY <1>1, <1>2 DEF Numbered, NodesUnique
<1> QED
  BY <1>1, <1>2, <1>3, GroupsAre

(* There are less than 255 of them, which is what LINK_LOCAL_IDX needs.      *)
LEMMA FewGroups ==
  ASSUME NEW D, Rooted(D), Numbered(D), NEW h \in DOMAIN D
  PROVE  IsFiniteSet(Groups(D, h)) /\ Cardinality(Groups(D, h)) <= 254
<1>. DEFINE G == Groups(D, h)
            T == (1 .. 255) \ {D[h].node}
            f == [g \in G |-> MinNode(D, g)]
<1>1. ASSUME NEW g \in G PROVE MinNode(D, g) \in T
  <2>1. PICK c \in g : c \in ChildrenOf(D, h) /\ c \in DOMAIN D /\ MinNode(D, g) = D[c].node
    BY LowestNode
  <2>2. c # h
    BY <2>1, ParentNotBelow, AboveSelf DEF ChildrenOf, Nodes
  <2> QED
    BY <2>1, <2>2 DEF Numbered, NodesUnique
<1>2. f \in Injection(G, T)
  <2>1. \A x, y \in G : MinNode(D, x) = MinNode(D, y) => x = y
    BY LowestNodeOfOne
  <2> QED
    BY <1>1, <2>1 DEF Injection, IsInjective
<1>3. IsFiniteSet(1 .. 255) /\ Cardinality(1 .. 255) = 255 /\ D[h].node \in 1 .. 255
  <2>1. 1 \in Int /\ 255 \in Int
    OBVIOUS
  <2>2. /\ IsFiniteSet(1 .. 255)
        /\ Cardinality(1 .. 255) = IF 1 > 255 THEN 0 ELSE 255 - 1 + 1
    BY <2>1, FS_Interval, Zenon
  <2> QED
    BY <2>2 DEF Numbered
<1>4. IsFiniteSet(T) /\ Cardinality(T) = 254
  BY <1>3, FS_RemoveElement
<1>. HIDE DEF f, T
<1> QED
  BY <1>2, <1>4, FS_Injection

LEMMA LinksDiffer ==
  ASSUME NEW D, Rooted(D), Numbered(D), NEW h \in DOMAIN D, NEW g \in Groups(D, h)
  PROVE  /\ LinkIndex(D, h, g) \in 1 .. 254
         /\ \A f \in Groups(D, h) : LinkIndex(D, h, f) = LinkIndex(D, h, g) => f = g
<1>. DEFINE G == Groups(D, h)
            upto(x) == {e \in G : MinNode(D, e) <= MinNode(D, x)}
<1>1. \A x \in G : MinNode(D, x) \in Nat
  BY LowestNode DEF Numbered
<1>2. ASSUME NEW x \in G
      PROVE  /\ LinkIndex(D, h, x) = Cardinality(upto(x)) /\ IsFiniteSet(upto(x))
             /\ Cardinality(upto(x)) \in 1 .. 254
  <2>1. LinkIndex(D, h, x) = Cardinality(upto(x))
    BY DEF LinkIndex
  <2>2. x \in upto(x)
    BY <1>1
  <2>3. upto(x) \in SUBSET G
    OBVIOUS
  <2>. HIDE DEF upto
  <2>4. IsFiniteSet(upto(x)) /\ Cardinality(upto(x)) <= Cardinality(G)
    BY <2>3, FewGroups, FS_Subset
  <2>5. Cardinality(G) \in Nat /\ Cardinality(G) <= 254 /\ Cardinality(upto(x)) \in Nat
    BY <2>4, FewGroups, FS_CardinalityType
  <2>6. Cardinality(upto(x)) # 0
    BY <2>2, <2>4, FS_EmptySet
  <2> QED
    BY <2>1, <2>4, <2>5, <2>6
<1>3. ASSUME NEW x \in G, NEW y \in G, MinNode(D, x) < MinNode(D, y)
      PROVE  Cardinality(upto(x)) < Cardinality(upto(y))
  <2>1. upto(x) \in SUBSET upto(y)
    BY <1>1, <1>3
  <2>2. y \in upto(y) /\ y \notin upto(x)
    BY <1>1, <1>3
  <2>3. Cardinality(upto(x)) \in Nat /\ Cardinality(upto(y)) \in Nat
    BY <1>2
  <2>. HIDE DEF upto
  <2>4. /\ Cardinality(upto(x)) <= Cardinality(upto(y))
        /\ Cardinality(upto(y)) = Cardinality(upto(x)) => upto(y) = upto(x)
    BY <1>2, <2>1, FS_Subset
  <2> QED
    BY <2>2, <2>3, <2>4
<1>. HIDE DEF upto
<1>4. ASSUME NEW f \in G, LinkIndex(D, h, f) = LinkIndex(D, h, g)
      PROVE  f = g
  <2>1. /\ ~(Cardinality(upto(f)) < Cardinality(upto(g)))
        /\ ~(Cardinality(upto(g)) < Cardinality(upto(f)))
    BY <1>2, <1>4
  <2>2. MinNode(D, f) = MinNode(D, g)
    BY <1>1, <1>3, <2>1
  <2> QED
    BY <2>2, LowestNodeOfOne
<1> QED
  BY <1>2, <1>4

(* The route tables of an accepted declaration.                              *)
LEMMA Accepts ==
  ASSUME NEW D, IsFiniteSet(DOMAIN D), Host \notin DOMAIN D,
         \A h \in DOMAIN D : D[h].node \in NodeIds, TopologyVerdict(D) = "ok"
  PROVE  Rooted(D) /\ Numbered(D)
<1>1. Rooted(D)
  BY TopologyVerdicts, HostAbove DEF Rooted, ParentsResolve, Nodes
<1>2. ReservedFree(D) /\ NodesUnique(D)
  BY TopologyVerdicts
<1>3. ASSUME NEW h \in DOMAIN D PROVE D[h].node \in 1 .. 255
  <2>1. D[h].node \in 0 .. 255 /\ D[h].node # 0
    BY <1>2, ContractAssumption DEF ReservedFree, Reserved
  <2> QED
    BY <2>1
<1> QED
  BY <1>1, <1>2, <1>3 DEF Numbered

LEMMA TableLocal ==
  ASSUME NEW D, Rooted(D), Numbered(D), NEW h \in DOMAIN D, NEW n \in NodeIds
  PROVE  RouteTable(D, h)[n] = Local <=> n = D[h].node
<1>. DEFINE via == {g \in Groups(D, h) : \E c \in g : n \in SubtreeNodes(D, c)}
<1>1. RouteTable(D, h)[n] = IF n = D[h].node THEN Local
        ELSE IF via = {} THEN 0 ELSE LinkIndex(D, h, CHOOSE g \in via : TRUE)
  BY DEF RouteTable
<1>2. ASSUME via # {} PROVE LinkIndex(D, h, CHOOSE g \in via : TRUE) \in 1 .. 254
  <2>1. (CHOOSE g \in via : TRUE) \in Groups(D, h)
    BY <1>2
  <2> QED
    BY <2>1, LinksDiffer
<1>. HIDE DEF via
<1> QED
  BY <1>1, <1>2 DEF Local

LEMMA TableReach ==
  ASSUME NEW D, IsFiniteSet(DOMAIN D), Rooted(D), Numbered(D), HubModels(D) = DOMAIN D,
         \A e \in DOMAIN D : D[e].node \in NodeIds,
         NEW h \in DOMAIN D, NEW d \in DOMAIN D, d # h
  PROVE  /\ \A c \in DOMAIN D : StepsTo(D, c, h, d) =>
              RouteTable(D, h)[D[d].node] = LinkIndex(D, h, GroupOf(D, h, c))
         /\ (\A c \in DOMAIN D : ~StepsTo(D, c, h, d)) => RouteTable(D, h)[D[d].node] = 0
<1>. DEFINE n == D[d].node
            via == {g \in Groups(D, h) : \E c \in g : n \in SubtreeNodes(D, c)}
<1>1. n # D[h].node /\ n \in NodeIds
  BY DEF Numbered, NodesUnique
<1>2. RouteTable(D, h)[n] = IF via = {} THEN 0 ELSE LinkIndex(D, h, CHOOSE g \in via : TRUE)
  BY <1>1 DEF RouteTable
<1>3. ASSUME NEW c \in DOMAIN D PROVE n \in SubtreeNodes(D, c) <=> c \in Above(D, d)
  <2>1. SubtreeNodes(D, c) = NodesBelow(D, c)
    BY SubtreeExact
  <2>2. \A e \in DOMAIN D : D[e].node = n => e = d
    BY DEF Numbered, NodesUnique
  <2> QED
    BY <2>1, <2>2 DEF NodesBelow
<1>4. ASSUME NEW g \in Groups(D, h), NEW c \in g
      PROVE  /\ c \in DOMAIN D /\ D[c].parent = h /\ g = GroupOf(D, h, c)
             /\ n \in SubtreeNodes(D, c) <=> StepsTo(D, c, h, d)
  <2>1. c \in DOMAIN D /\ D[c].parent = h /\ g = GroupOf(D, h, c)
    BY GroupsAre, Children
  <2> QED
    BY <2>1, <1>3 DEF StepsTo
<1>5. via = {g \in Groups(D, h) : \E c \in g : StepsTo(D, c, h, d)}
  BY <1>4
<1>. HIDE DEF via
<1>6. ASSUME NEW c \in DOMAIN D, StepsTo(D, c, h, d)
      PROVE  RouteTable(D, h)[n] = LinkIndex(D, h, GroupOf(D, h, c))
  <2>1. c \in ChildrenOf(D, h)
    BY <1>6, Children DEF StepsTo
  <2>2. GroupOf(D, h, c) \in via
    BY <1>5, <1>6, <2>1, GroupsAre
  <2>3. ASSUME NEW g \in via PROVE g = GroupOf(D, h, c)
    <3>1. PICK b \in g : StepsTo(D, b, h, d)
      BY <1>5
    <3>2. b \in DOMAIN D /\ g = GroupOf(D, h, b)
      BY <1>4, <1>5
    <3>3. b = c
      BY <1>6, <3>1, <3>2, OneChild DEF StepsTo
    <3> QED
      BY <3>2, <3>3
  <2>4. (CHOOSE g \in via : TRUE) = GroupOf(D, h, c)
    BY <2>2, <2>3
  <2> QED
    BY <1>2, <2>2, <2>4
<1>7. ASSUME \A c \in DOMAIN D : ~StepsTo(D, c, h, d)
      PROVE  RouteTable(D, h)[n] = 0
  <2>1. via = {}
    BY <1>4, <1>5, <1>7
  <2> QED
    BY <1>2, <2>1
<1> QED
  BY <1>6, <1>7

-----------------------------------------------------------------------------
GluesOf(D, rows) == [h \in HubModels(D.hubs) |-> Glue(D, rows, h)]

IndexOf(rows) ==
  [k \in {<<r.node, r.id>> : r \in rows} |-> CHOOSE r \in rows : <<r.node, r.id>> = k]

Windowed(glues) ==
  \A h \in DOMAIN glues : \A p \in DOMAIN glues[h].floors : glues[h].floors[p].misses # Nil

(* How far the pipeline has come says what there is.                         *)
Accepted == verdict = "ok" /\ ir = Rows(decl)

PipelineInv ==
  /\ decl \in UNION Families
  /\ stage \in {"authored", "projected"} <=> verdict = "none"
  /\ stage = "projected" \/ verdict = "ok" =>
       ir = Rows(decl) /\ WellShaped(ir) /\ TypesResolve(decl)
  /\ Judged => verdict = Verdict(decl, Rows(decl))
  /\ stage = "compiled" => Accepted
  /\ stage \in {"generated", "built"} => firmware = GluesOf(decl, ir) /\ Accepted
  /\ firmware # <<>> => firmware = GluesOf(decl, ir) /\ Accepted
  /\ stage = "built" => Windowed(firmware)
  /\ index # <<>> => Accepted /\ index = IndexOf(ir)

LEMMA InitPipeline == Init => PipelineInv
BY DEF Init, PipelineInv, Judged

LEMMA ProjectPipeline == PipelineInv /\ Project => PipelineInv'
BY DEF Project, Reject, PipelineInv, Accepted, Judged

LEMMA Verdicts ==
  ASSUME NEW D, NEW rows
  PROVE  /\ Verdict(D, rows) # "none"
         /\ Verdict(D, rows) \in TopologyErrors <=> TopologyVerdict(D.hubs) # "ok"
         /\ Verdict(D, rows) = "ok" =>
              /\ TopologyVerdict(D.hubs) = "ok"
              /\ \A r \in rows : SafeActionValid(r)
              /\ Reconciled(rows, D.views) /\ IdsUnique(rows)
<1>1. CASE TopologyVerdict(D.hubs) # "ok"
  <2>1. Verdict(D, rows) = TopologyVerdict(D.hubs)
    BY <1>1 DEF Verdict
  <2>2. Verdict(D, rows) \in TopologyErrors
    BY <1>1, <2>1, TopologyVerdicts
  <2> QED
    BY <1>1, <2>1, <2>2 DEF TopologyErrors
<1>2. CASE TopologyVerdict(D.hubs) = "ok"
  <2>1. Verdict(D, rows) \in {"fresh_for", "safe_action", "command_message",
                              "no such port", "shared id", "frame size", "ok"}
    BY <1>2 DEF Verdict
  <2>2. Verdict(D, rows) = "ok" =>
          /\ \A r \in rows : SafeActionValid(r)
          /\ Reconciled(rows, D.views) /\ IdsUnique(rows)
    BY <1>2 DEF Verdict
  <2> QED
    BY <1>2, <2>1, <2>2 DEF TopologyErrors
<1> QED
  BY <1>1, <1>2

LEMMA VerifyPipeline == PipelineInv /\ Verify => PipelineInv'
BY Verdicts DEF Verify, PipelineInv, Accepted, Judged

LEMMA GeneratePipeline == PipelineInv /\ Generate => PipelineInv'
BY DEF Generate, GluesOf, PipelineInv, Accepted, Judged

LEMMA BuildPipeline == PipelineInv /\ Build => PipelineInv'
BY DEF Build, Windowed, PipelineInv, Accepted, Judged

LEMMA BootPipeline == PipelineInv /\ Boot => PipelineInv'
BY DEF Boot, IndexOf, PipelineInv, Accepted, Judged

LEMMA Pipeline == Spec => []PipelineInv
<1>1. PipelineInv /\ UNCHANGED vars => PipelineInv'
  BY DEF vars, PipelineInv, Accepted, Judged
<1> QED
  BY InitPipeline, ProjectPipeline, VerifyPipeline, GeneratePipeline,
     BuildPipeline, BootPipeline, <1>1, PTL DEF Spec, Next

-----------------------------------------------------------------------------
LEMMA Written ==
  ASSUME NEW D \in UNION Families
  PROVE  Declaration(D)
BY ContractAssumption

(* The IR has one row for each port of each hub, and no other.               *)
LEMMA RowOf ==
  ASSUME NEW D, NEW r \in Rows(D)
  PROVE  /\ r.hub \in DOMAIN D.hubs /\ r.port \in DOMAIN D.hubs[r.hub].ports
         /\ r = Row(D, r.hub, r.port) /\ r.hub \in HubModels(D.hubs)
<1>1. PICK h \in DOMAIN D.hubs : \E p \in DOMAIN D.hubs[h].ports : r = Row(D, h, p)
  BY DEF Rows
<1>2. PICK p \in DOMAIN D.hubs[h].ports : r = Row(D, h, p)
  BY <1>1
<1>3. r.hub = h /\ r.port = p
  BY <1>2 DEF Row
<1> QED
  BY <1>2, <1>3 DEF HubModels

LEMMA RowIn ==
  ASSUME NEW D, NEW h \in DOMAIN D.hubs, NEW p \in DOMAIN D.hubs[h].ports
  PROVE  Row(D, h, p) \in Rows(D)
BY DEF Rows

(* The window of a port is one that a view of the port asked for.            *)
LEMMA WindowOfAView ==
  ASSUME NEW D, Declaration(D), NEW h, NEW p, FreshFor(D, h, p) # Nil
  PROVE  \E i \in DOMAIN D.views :
           /\ D.views[i].hub = h /\ D.views[i].port = p
           /\ D.views[i].freshFor = FreshFor(D, h, p) /\ FreshFor(D, h, p) \in Int
<1>. DEFINE readers == {i \in DOMAIN D.views :
                          /\ D.views[i].hub = h /\ D.views[i].port = p
                          /\ D.views[i].freshFor # Nil}
            first == CHOOSE i \in readers : \A j \in readers : i <= j
<1>1. FreshFor(D, h, p) = D.views[first].freshFor /\ readers # {}
  BY DEF FreshFor
<1>2. readers \subseteq Nat
  <2>1. DOMAIN D.views \subseteq Nat
    BY DEF Declaration
  <2> QED
    BY <2>1
<1>3. first \in readers
  <2>. HIDE DEF readers
  <2>1. \E n \in readers : \A m \in readers : n <= m
    BY <1>1, <1>2, Least
  <2> QED
    BY <2>1
<1> QED
  BY <1>1, <1>3 DEF Declaration

-----------------------------------------------------------------------------
(* What firmware that builds was made from.                                  *)
Built == PipelineInv /\ stage = "built"

LEMMA BuiltFrom ==
  ASSUME Built
  PROVE  /\ decl \in UNION Families /\ Declaration(decl)
         /\ ir = Rows(decl) /\ WellShaped(ir) /\ firmware = GluesOf(decl, ir)
         /\ TypesResolve(decl)
         /\ Windowed(firmware) /\ TopologyVerdict(decl.hubs) = "ok"
         /\ \A r \in ir : SafeActionValid(r)
         /\ Reconciled(ir, decl.views) /\ IdsUnique(ir)
<1>1. /\ verdict = "ok" /\ ir = Rows(decl) /\ WellShaped(ir)
      /\ TypesResolve(decl) /\ firmware = GluesOf(decl, ir)
  BY DEF Built, PipelineInv, Accepted
<1>2. Verdict(decl, ir) = "ok"
  BY <1>1 DEF Built, PipelineInv, Judged
<1> QED
  BY <1>1, <1>2, Verdicts, Written DEF Built, PipelineInv

(* Two rows of a port are one.                                               *)
LEMMA SameRow ==
  ASSUME NEW D, NEW q \in Rows(D), NEW r \in Rows(D), q.hub = r.hub, q.port = r.port
  PROVE  q = r
BY RowOf

(* The glue of a hub: a floor for each floored command port, a handler for   *)
(* every other.                                                              *)
LEMMA GlueOf ==
  ASSUME Built, NEW r \in ir
  PROVE  LET g == firmware[r.hub] IN
         /\ r.hub \in DOMAIN firmware
         /\ r.dir = "in" /\ r.floored = TRUE =>
              r.port \in DOMAIN g.floors /\ g.floors[r.port] = FloorOf(r)
         /\ r.port \in DOMAIN g.floors => r.dir = "in" /\ r.floored = TRUE
         /\ r.port \in g.direct <=> r.dir = "in" /\ r.floored = FALSE
<1>. DEFINE h == r.hub
            rows == Rows(decl)
            floored == {q.port : q \in Floored(rows, h)}
<1>1. /\ ir = rows /\ firmware = GluesOf(decl, rows) /\ h \in HubModels(decl.hubs)
      /\ r = Row(decl, h, r.port)
  BY BuiltFrom, RowOf
<1>2. firmware[h] = Glue(decl, rows, h) /\ h \in DOMAIN firmware
  BY <1>1 DEF GluesOf
<1>3. /\ firmware[h].floors = [p \in floored |-> FloorOf(Row(decl, h, p))]
      /\ firmware[h].direct = {q.port : q \in Direct(rows, h)}
  BY <1>2 DEF Glue
<1>4. ASSUME NEW q \in rows, q.hub = h, q.port = r.port
      PROVE  q = r
  BY <1>1, <1>4, SameRow
<1>5. r.port \in floored <=> r.dir = "in" /\ r.floored = TRUE
  BY <1>1, <1>4 DEF Floored
<1>6. r.port \in {q.port : q \in Direct(rows, h)} <=> r.dir = "in" /\ r.floored = FALSE
  BY <1>1, <1>4 DEF Direct
<1>. HIDE DEF floored, rows
<1> QED
  BY <1>1, <1>2, <1>3, <1>5, <1>6

(* The options of a row are those of its port.                               *)
LEMMA RowOptions ==
  ASSUME Built, NEW r \in ir
  PROVE  /\ r.dir \in {"in", "out"} /\ r.stamped \in BOOLEAN
         /\ r.rate \in Nat \ {0} /\ r.floored \in {Nil, TRUE, FALSE}
         /\ r.safe = Nil \/ r.safe = [f \in DOMAIN r.safe |-> r.safe[f]]
         /\ r.node \in NodeIds /\ r.node = decl.hubs[r.hub].node
         /\ <<r.hub, r.port>> \in DOMAIN PortId /\ r.id = PortId[<<r.hub, r.port>>]
         /\ r.freshFor = FreshFor(decl, r.hub, r.port)
<1>1. /\ r = Row(decl, r.hub, r.port) /\ Declaration(decl)
      /\ r.hub \in DOMAIN decl.hubs /\ r.port \in DOMAIN decl.hubs[r.hub].ports
  BY BuiltFrom, RowOf
<1>. DEFINE port == Port(decl, r.hub, r.port)
<1>2. /\ r.dir = port.dir /\ r.stamped = port.stamped /\ r.rate = port.rate
      /\ r.floored = port.floored /\ r.safe = port.safe
      /\ r.node = decl.hubs[r.hub].node /\ r.id = PortId[<<r.hub, r.port>>]
      /\ r.freshFor = FreshFor(decl, r.hub, r.port)
  BY <1>1 DEF Row
<1>3. /\ port.dir \in {"in", "out"} /\ port.stamped \in BOOLEAN
      /\ port.rate \in Nat \ {0} /\ port.floored \in {Nil, TRUE, FALSE}
      /\ port.safe = Nil \/ port.safe = [f \in DOMAIN port.safe |-> port.safe[f]]
      /\ decl.hubs[r.hub].node \in NodeIds /\ <<r.hub, r.port>> \in DOMAIN PortId
  BY <1>1 DEF Declaration, Port
<1>. HIDE DEF port
<1> QED
  BY <1>2, <1>3

LEMMA PeriodIsPositive ==
  ASSUME NEW n \in Nat \ {0}, NEW m \in Nat \ {0}, m <= 1000
  PROVE  n * (1000 \div m) >= 1
<1>1. 1000 \div m \in Nat /\ 1000 \div m >= 1
  OBVIOUS
<1> QED
  BY <1>1

LEMMA DeadManStep == PipelineInv => DeadManKept
<1>. SUFFICES ASSUME Built, NEW r \in ir, r.dir = "in"
              PROVE  IF r.safe = Nil /\ r.floored # TRUE
                       THEN r.port \in firmware[r.hub].direct
                       ELSE /\ r.port \in DOMAIN firmware[r.hub].floors \ firmware[r.hub].direct
                            /\ LET floor == firmware[r.hub].floors[r.port] IN
                               /\ floor.safe = [f \in Fields(r) |-> "number"]
                               /\ floor.misses >= 1
                               /\ r.rate <= 1000 => floor.misses * floor.periodMs >= 1
                               /\ \E i \in DOMAIN decl.views :
                                    LET v == decl.views[i] IN
                                    v.hub = r.hub /\ v.port = r.port /\ v.freshFor = floor.misses
  BY DEF Built, DeadManKept
<1>1. SafeActionValid(r) /\ r.floored \in {Nil, TRUE, FALSE}
  BY BuiltFrom, RowOptions
<1>2. CASE r.safe = Nil /\ r.floored # TRUE
  <2>1. r.floored = FALSE
    BY <1>1, <1>2 DEF SafeActionValid
  <2>2. r.port \in firmware[r.hub].direct
    BY <2>1, GlueOf
  <2> QED
    BY <1>2, <2>2
<1>3. CASE ~(r.safe = Nil /\ r.floored # TRUE)
  <2>1. r.floored = TRUE /\ r.safe # Nil /\ Packs(r)
    BY <1>1, <1>3 DEF SafeActionValid
  <2>2. /\ r.port \in DOMAIN firmware[r.hub].floors \ firmware[r.hub].direct
        /\ firmware[r.hub].floors[r.port] = FloorOf(r) /\ r.hub \in DOMAIN firmware
    <3>1. Nil \notin BOOLEAN
      BY ContractAssumption
    <3> QED
      BY <2>1, GlueOf
  <2>. DEFINE floor == firmware[r.hub].floors[r.port]
  <2>3. /\ floor.safe = r.safe /\ floor.misses = r.freshFor
        /\ floor.periodMs = 1000 \div r.rate
    BY <2>2 DEF FloorOf
  <2>4. floor.safe = [f \in Fields(r) |-> "number"]
    <3>1. r.safe = [f \in DOMAIN r.safe |-> r.safe[f]]
      BY <2>1, RowOptions
    <3>2. DOMAIN r.safe = Fields(r) /\ \A f \in Fields(r) : r.safe[f] = "number"
      BY <2>1 DEF Packs
    <3> QED
      BY <2>3, <3>1, <3>2
  <2>5. r.freshFor # Nil
    BY <2>2, <2>3, BuiltFrom DEF Windowed
  <2>6. r.freshFor = FreshFor(decl, r.hub, r.port)
    BY RowOptions
  <2>7. r.freshFor \in Int /\ \E i \in DOMAIN decl.views :
          LET v == decl.views[i] IN
          v.hub = r.hub /\ v.port = r.port /\ v.freshFor = r.freshFor
    BY <2>5, <2>6, WindowOfAView, BuiltFrom
  <2>8. r.freshFor \in Nat \ {0}
    BY <2>5, <2>7, BuiltFrom DEF WellShaped
  <2>9. r.rate <= 1000 => floor.misses * floor.periodMs >= 1
    <3>1. r.rate \in Nat \ {0}
      BY RowOptions
    <3> QED
      BY <2>3, <2>8, <3>1, PeriodIsPositive
  <2>. HIDE DEF floor
  <2>10. /\ floor.misses >= 1
         /\ \E i \in DOMAIN decl.views :
              LET v == decl.views[i] IN
              v.hub = r.hub /\ v.port = r.port /\ v.freshFor = floor.misses
    BY <2>3, <2>7, <2>8
  <2> QED
    BY <1>3, <2>2, <2>4, <2>9, <2>10 DEF floor
<1> QED
  BY <1>2, <1>3

(* The ports that have a floor on h are those of its floored rows.           *)
LEMMA FlooredPorts ==
  ASSUME Built, NEW h \in HubModels(decl.hubs)
  PROVE  /\ DOMAIN firmware[h].floors = {r.port : r \in Floored(ir, h)}
         /\ DOMAIN firmware[h].reports = {r.port : r \in Statuses(ir, h)}
         /\ \A p \in DOMAIN firmware[h].reports :
              firmware[h].reports[p] = StatusPair(ir, Row(decl, h, p)).port
         /\ \A q, r \in Floored(ir, h) : q.port = r.port => q = r
         /\ IsFiniteSet(Floored(ir, h)) /\ \A r \in Floored(ir, h) : r.id \in Nat
<1>1. firmware[h] = Glue(decl, ir, h) /\ ir = Rows(decl)
  BY BuiltFrom DEF GluesOf
<1>2. \A q, r \in Floored(ir, h) : q.port = r.port => q = r
  BY <1>1, SameRow DEF Floored
<1>3. IsFiniteSet(Floored(ir, h))
  <2>. DEFINE ports == DOMAIN decl.hubs[h].ports
              f == [r \in Floored(ir, h) |-> r.port]
  <2>1. IsFiniteSet(ports)
    BY BuiltFrom DEF Declaration, HubModels
  <2>2. \A r \in Floored(ir, h) : r.port \in ports
    BY <1>1, RowOf DEF Floored
  <2>3. f \in Injection(Floored(ir, h), ports)
    BY <1>2, <2>2 DEF Injection, IsInjective
  <2> QED
    BY <2>1, <2>3, FS_Injection
<1>4. ASSUME NEW r \in Floored(ir, h) PROVE r.id \in Nat
  <2>1. <<r.hub, r.port>> \in DOMAIN PortId /\ r.id = PortId[<<r.hub, r.port>>]
    BY RowOptions DEF Floored
  <2>2. r.id \in 0 .. 255
    BY <2>1, ContractAssumption
  <2> QED
    BY <2>2
<1> QED
  BY <1>1, <1>2, <1>3, <1>4 DEF Glue

(* The floor that a status reports, when there is only one to choose from.   *)
LEMMA OnlyCandidate ==
  ASSUME NEW rows, NEW st, NEW r, Candidates(rows, st) = {r}, r.id \in Nat
  PROVE  StatusPair(rows, st) = r
BY DEF StatusPair

LEMMA StatusStep == PipelineInv => StatusIsOwn
<1>. SUFFICES ASSUME Built, NEW i \in DOMAIN decl.views,
                     decl.views[i].status \in DOMAIN firmware[decl.views[i].hub].reports,
                     decl.views[i].port \in DOMAIN firmware[decl.views[i].hub].floors,
                     \/ DOMAIN firmware[decl.views[i].hub].floors = {decl.views[i].port}
                     \/ \A p \in DOMAIN firmware[decl.views[i].hub].floors :
                          Suffix[p] = Suffix[decl.views[i].status] <=> p = decl.views[i].port
              PROVE  firmware[decl.views[i].hub].reports[decl.views[i].status] = decl.views[i].port
  BY DEF Built, StatusIsOwn
<1>. DEFINE v == decl.views[i]
            st == Row(decl, v.hub, v.status)
            floors == Floored(ir, v.hub)
<1>1. v.hub \in HubModels(decl.hubs)
  <2>1. <<v.hub, v.port>> \in {<<r.hub, r.port>> : r \in ir}
    BY BuiltFrom DEF Reconciled
  <2>2. PICK r \in ir : <<v.hub, v.port>> = <<r.hub, r.port>>
    BY <2>1
  <2> QED
    BY <2>2, BuiltFrom, RowOf
<1>2. st.hub = v.hub /\ st.port = v.status
  BY DEF Row
<1>3. PICK r \in floors : r.port = v.port
  BY <1>1, FlooredPorts
<1>4. /\ \A q \in floors : q.port = r.port => q = r
      /\ IsFiniteSet(floors) /\ r.id \in Nat
      /\ DOMAIN firmware[v.hub].floors = {q.port : q \in floors}
      /\ firmware[v.hub].reports[v.status] = StatusPair(ir, st).port
  BY <1>1, FlooredPorts
<1>5. Candidates(ir, st) = IF Cardinality(floors) = 1 THEN floors
                           ELSE {q \in floors : Suffix[q.port] = Suffix[v.status]}
  BY <1>2 DEF Candidates
<1>6. Candidates(ir, st) = {r}
  <2>1. CASE Cardinality(floors) = 1
    <3>1. \E x : floors = {x}
      BY <1>4, <2>1, FS_Singleton
    <3> QED
      BY <1>3, <1>5, <2>1, <3>1
  <2>2. CASE Cardinality(floors) # 1
    <3>1. ~(DOMAIN firmware[v.hub].floors = {v.port})
      <4>1. SUFFICES ASSUME DOMAIN firmware[v.hub].floors = {v.port}
                     PROVE  FALSE
        OBVIOUS
      <4>2. floors = {r}
        BY <1>3, <1>4, <4>1
      <4> QED
        BY <4>2, <2>2, FS_Singleton
    <3>2. \A q \in floors : Suffix[q.port] = Suffix[v.status] <=> q.port = v.port
      BY <1>4, <3>1
    <3> QED
      BY <1>3, <1>4, <1>5, <2>2, <3>2
  <2> QED
    BY <2>1, <2>2
<1>7. StatusPair(ir, st) = r
  BY <1>4, <1>6, OnlyCandidate
<1> QED
  BY <1>3, <1>4, <1>7

LEMMA VerifierStep == PipelineInv => VerifierExact
<1>. SUFFICES ASSUME PipelineInv, Judged
              PROVE  verdict \in TopologyErrors <=> ~WellFormed(decl.hubs)
  BY DEF VerifierExact
<1>1. verdict = Verdict(decl, Rows(decl)) /\ Declaration(decl)
  BY Written DEF PipelineInv
<1>2. IsFiniteSet(DOMAIN decl.hubs) /\ Host \notin DOMAIN decl.hubs
  BY <1>1 DEF Declaration
<1> QED
  BY <1>1, <1>2, Verdicts, TopologyExact

LEMMA RoutesStep == PipelineInv => RoutesReach
<1>. DEFINE D == decl.hubs
            towards(h, n) == firmware[h].table[D[n].node]
<1>. SUFFICES ASSUME PipelineInv, HubModels(D) = DOMAIN D,
                     NEW h \in DOMAIN firmware, NEW d \in DOMAIN D
              PROVE  /\ d = h <=> towards(h, d) = Local
                     /\ d # h => (towards(h, d) = 0 <=> ~\E c \in DOMAIN D : StepsTo(D, c, h, d))
                     /\ \A c \in DOMAIN D :
                          StepsTo(D, c, h, d) =>
                            /\ towards(h, d) = towards(h, c)
                            /\ \A b \in DOMAIN D \ {c} :
                                 D[b].parent = h =>
                                   (towards(h, b) = towards(h, c)
                                      <=> D[b].uplink = "can" /\ D[c].uplink = "can")
  BY DEF RoutesReach
<1>1. verdict = "ok" /\ firmware = GluesOf(decl, ir) /\ h \in DOMAIN D
  <2>1. firmware # <<>>
    OBVIOUS
  <2>2. firmware = GluesOf(decl, ir) /\ verdict = "ok"
    BY <2>1 DEF PipelineInv, Accepted
  <2> QED
    BY <2>2 DEF GluesOf, HubModels
<1>2. /\ IsFiniteSet(DOMAIN D) /\ Rooted(D) /\ Numbered(D)
      /\ \A e \in DOMAIN D : D[e].node \in NodeIds
  <2>1. Verdict(decl, Rows(decl)) = "ok"
    BY <1>1 DEF PipelineInv, Judged
  <2>2. TopologyVerdict(D) = "ok" /\ Declaration(decl)
    BY <2>1, Verdicts, Written DEF PipelineInv
  <2> QED
    BY <2>2, Accepts DEF Declaration
<1>3. firmware[h].table = RouteTable(D, h)
  BY <1>1 DEF GluesOf, Glue
<1>4. d = h <=> towards(h, d) = Local
  BY <1>1, <1>2, <1>3, TableLocal DEF Numbered, NodesUnique
<1>5. ASSUME NEW c \in DOMAIN D, D[c].parent = h
      PROVE  /\ c # h /\ StepsTo(D, c, h, c) /\ GroupOf(D, h, c) \in Groups(D, h)
             /\ towards(h, c) = LinkIndex(D, h, GroupOf(D, h, c))
  <2>1. c # h /\ StepsTo(D, c, h, c)
    BY <1>2, <1>5, AboveSelf, ParentNotBelow DEF StepsTo, Nodes
  <2>2. GroupOf(D, h, c) \in Groups(D, h)
    BY <1>5, Children, GroupsAre
  <2> QED
    BY <1>1, <1>2, <1>3, <2>1, <2>2, TableReach
<1>6. ASSUME NEW c \in DOMAIN D, StepsTo(D, c, h, d)
      PROVE  d # h /\ towards(h, d) = towards(h, c) /\ towards(h, d) \in 1 .. 254
  <2>1. D[c].parent = h /\ c \in Above(D, d)
    BY <1>6 DEF StepsTo
  <2>2. d # h
    BY <1>1, <1>2, <2>1, ParentNotBelow
  <2>3. towards(h, d) = LinkIndex(D, h, GroupOf(D, h, c))
    BY <1>1, <1>2, <1>3, <1>6, <2>2, TableReach
  <2> QED
    BY <1>1, <1>2, <1>5, <2>1, <2>2, <2>3, LinksDiffer
<1>7. ASSUME d # h
      PROVE  towards(h, d) = 0 <=> ~\E c \in DOMAIN D : StepsTo(D, c, h, d)
  <2>1. (\A c \in DOMAIN D : ~StepsTo(D, c, h, d)) => towards(h, d) = 0
    BY <1>1, <1>2, <1>3, <1>7, TableReach
  <2>2. (\E c \in DOMAIN D : StepsTo(D, c, h, d)) => towards(h, d) \in 1 .. 254
    BY <1>6, Zenon
  <2>3. towards(h, d) \in 1 .. 254 => towards(h, d) # 0
    <3>. HIDE DEF towards
    <3> QED
      OBVIOUS
  <2> QED
    BY <2>1, <2>2, <2>3, Zenon
<1>8. ASSUME NEW b \in DOMAIN D, NEW c \in DOMAIN D, b # c, D[b].parent = h, D[c].parent = h
      PROVE  towards(h, b) = towards(h, c) <=> D[b].uplink = "can" /\ D[c].uplink = "can"
  <2>1. towards(h, b) = towards(h, c) <=> GroupOf(D, h, b) = GroupOf(D, h, c)
    BY <1>1, <1>2, <1>5, <1>8, LinksDiffer
  <2>2. b \in ChildrenOf(D, h) /\ c \in ChildrenOf(D, h)
    BY <1>8, Children
  <2> QED
    BY <1>8, <2>1, <2>2 DEF GroupOf
<1> QED
  BY <1>4, <1>6, <1>7, <1>8 DEF StepsTo

(* The frames of a port.  Its id tells it from every other port of its node, *)
(* so the shape that the hub looks up is the port's own, and what the hub is *)
(* left with after the header is the port's payload.                         *)
LEMMA PayloadIsNat ==
  ASSUME Built, NEW r \in ir
  PROVE  PayloadSize(r) \in Nat
<1>1. /\ r = Row(decl, r.hub, r.port) /\ r.hub \in DOMAIN decl.hubs
      /\ r.port \in DOMAIN decl.hubs[r.hub].ports
  BY BuiltFrom, RowOf
<1>2. r.type = Port(decl, r.hub, r.port).type
  BY <1>1 DEF Row
<1>3. r.type \in DOMAIN Types
  BY <1>1, <1>2, BuiltFrom DEF TypesResolve
<1> QED
  BY <1>3, ContractAssumption DEF PayloadSize

LEMMA GluesAre ==
  ASSUME Built, NEW h \in DOMAIN firmware
  PROVE  h \in HubModels(decl.hubs) /\ firmware[h] = Glue(decl, ir, h)
<1>1. firmware = [x \in HubModels(decl.hubs) |-> Glue(decl, ir, x)]
  BY BuiltFrom DEF GluesOf
<1> QED
  BY <1>1

LEMMA ShapeIsLookedUp ==
  ASSUME Built, NEW r \in ir, NEW h \in DOMAIN firmware
  PROVE  PortStamped(h, Frame(r, r)) <=> r.stamped
<1>1. firmware[h].stamped = {<<q.node, q.id>> : q \in {x \in ir : x.stamped}}
  <2>1. Glue(decl, ir, h).stamped = {<<q.node, q.id>> : q \in {x \in ir : x.stamped}}
    BY ZenonT(30) DEF Glue
  <2> QED
    BY <2>1, GluesAre
<1>2. \A q \in ir : <<q.node, q.id>> = <<r.node, r.id>> => q = r
  BY BuiltFrom DEF IdsUnique
<1>3. Frame(r, r).node = r.node /\ Frame(r, r).id = r.id
  BY DEF Frame
<1>4. <<r.node, r.id>> \in firmware[h].stamped <=> r.stamped
  BY <1>1, <1>2
<1> QED
  BY <1>3, <1>4 DEF PortStamped

LEMMA PayloadIsLeft ==
  ASSUME Built, NEW r \in ir, NEW h \in DOMAIN firmware, PayloadSize(r) <= MaxPayload
  PROVE  PayloadOf(h, Frame(r, r)) = PayloadSize(r)
<1>. DEFINE stamp == IF r.stamped THEN StampSize ELSE 0
<1>1. PayloadSize(r) \in 0 .. MaxPayload
  BY PayloadIsNat, ContractAssumption
<1>2. StampSize \in Nat
  BY DEF StampSize, HeaderSize
<1>3. Frame(r, r).rest = stamp + PayloadSize(r)
  BY DEF Frame
<1>4. PayloadOf(h, Frame(r, r)) = IF Frame(r, r).rest - stamp \in 0 .. MaxPayload
                                    THEN Frame(r, r).rest - stamp ELSE -1
  BY ShapeIsLookedUp DEF PayloadOf
<1>5. (stamp + PayloadSize(r)) - stamp = PayloadSize(r)
  BY <1>1, <1>2
<1> QED
  BY <1>1, <1>3, <1>4, <1>5

LEMMA HandlersAreCommands ==
  ASSUME Built, NEW h \in DOMAIN firmware,
         NEW p \in DOMAIN firmware[h].floors \cup firmware[h].direct
  PROVE  \E q \in ir : q.hub = h /\ q.port = p /\ q.dir = "in"
<1>1. firmware[h] = Glue(decl, ir, h) /\ h \in HubModels(decl.hubs)
  BY GluesAre
<1>2. firmware[h].direct = {q.port : q \in Direct(ir, h)}
  BY <1>1 DEF Glue
<1>3. DOMAIN firmware[h].floors = {q.port : q \in Floored(ir, h)}
  BY <1>1, FlooredPorts
<1>4. \A q \in Floored(ir, h) \cup Direct(ir, h) : q \in ir /\ q.hub = h /\ q.dir = "in"
  BY DEF Floored, Direct
<1> QED
  BY <1>2, <1>3, <1>4

LEMMA OnlyItsHubIsLocal ==
  ASSUME Built, NEW r \in ir, NEW h \in DOMAIN firmware
  PROVE  firmware[h].table[r.node] = Local <=> h = r.hub
<1>. DEFINE D == decl.hubs
<1>1. firmware[h].table = RouteTable(D, h) /\ h \in DOMAIN D /\ r.hub \in DOMAIN D
  <2>1. h \in HubModels(D) /\ firmware[h] = Glue(decl, ir, h)
    BY GluesAre
  <2>2. r.hub \in DOMAIN D
    BY BuiltFrom, RowOf
  <2> QED
    BY <2>1, <2>2 DEF Glue, HubModels
<1>2. Rooted(D) /\ Numbered(D)
  BY BuiltFrom, Accepts DEF Declaration
<1>3. r.node \in NodeIds /\ r.node = D[r.hub].node
  BY RowOptions
<1>4. firmware[h].table[r.node] = Local <=> r.node = D[h].node
  BY <1>1, <1>2, <1>3, TableLocal
<1> QED
  BY <1>1, <1>2, <1>3, <1>4 DEF Numbered, NodesUnique

LEMMA FramesAreTaken ==
  ASSUME Built, NEW r \in ir, NEW h \in DOMAIN firmware, PayloadSize(r) <= MaxPayload
  PROVE  TakenBy(h, Frame(r, r)) = IF h = r.hub /\ r.dir = "in" THEN {r.port} ELSE {}
<1>. DEFINE body == Frame(r, r)
            ports == DOMAIN firmware[h].floors \cup firmware[h].direct
<1>1. body.node = r.node /\ body.id = r.id
  BY DEF Frame
<1>2. PayloadOf(h, body) = PayloadSize(r) /\ PayloadSize(r) \in Nat
  BY PayloadIsLeft, PayloadIsNat
<1>3. firmware[h].table[r.node] = Local <=> h = r.hub
  BY OnlyItsHubIsLocal
<1>4. ASSUME NEW p \in TakenBy(h, body) PROVE h = r.hub /\ r.dir = "in" /\ p = r.port
  <2>1. p \in ports /\ h = r.hub /\ PortId[<<h, p>>] = r.id
    BY <1>1, <1>3, <1>4 DEF TakenBy
  <2>2. PICK q \in ir : q.hub = h /\ q.port = p /\ q.dir = "in"
    BY <2>1, HandlersAreCommands
  <2>3. q.id = PortId[<<h, p>>] /\ q.node = decl.hubs[h].node /\ r.node = decl.hubs[r.hub].node
    BY <2>2, RowOptions
  <2>4. q = r
    BY <2>1, <2>3, BuiltFrom DEF IdsUnique
  <2> QED
    BY <2>1, <2>2, <2>4
<1>5. ASSUME h = r.hub, r.dir = "in" PROVE r.port \in TakenBy(h, body)
  <2>1. r.port \in ports
    <3>1. SafeActionValid(r) /\ r.floored \in {Nil, TRUE, FALSE}
      BY BuiltFrom, RowOptions
    <3>2. r.floored = TRUE \/ r.floored = FALSE
      BY <1>5, <3>1 DEF SafeActionValid
    <3> QED
      BY <1>5, <3>2, GlueOf
  <2>2. PortId[<<h, r.port>>] = r.id
    BY <1>5, RowOptions
  <2>3. PayloadSize(Port(decl, h, r.port)) = PayloadSize(r)
    <3>1. r = Row(decl, h, r.port)
      BY <1>5, BuiltFrom, RowOf
    <3>2. r.type = Port(decl, h, r.port).type
      BY <3>1 DEF Row
    <3> QED
      BY <3>2 DEF PayloadSize
  <2> QED
    BY <1>1, <1>2, <1>3, <1>5, <2>1, <2>2, <2>3 DEF TakenBy
<1> QED
  BY <1>4, <1>5

(* The host's index finds the row of a port under its node and id.           *)
LEMMA IndexFinds ==
  ASSUME PipelineInv, Running, NEW r \in ir
  PROVE  <<r.node, r.id>> \in DOMAIN index /\ index[<<r.node, r.id>>] = r
<1>1. index = IndexOf(ir) /\ IdsUnique(ir)
  BY BuiltFrom DEF Built, Running, PipelineInv
<1>2. \A q \in ir : <<q.node, q.id>> = <<r.node, r.id>> <=> q = r
  BY <1>1 DEF IdsUnique
<1>3. (CHOOSE q \in ir : <<q.node, q.id>> = <<r.node, r.id>>) = r
  BY <1>2
<1> QED
  BY <1>1, <1>3 DEF IndexOf

LEMMA FramesStep == PipelineInv => FramesFindTheirPort
<1>. SUFFICES ASSUME PipelineInv, Running, NEW r \in ir, PayloadSize(r) <= MaxPayload
              PROVE  IF r.dir = "in"
                       THEN \A h \in DOMAIN firmware :
                              TakenBy(h, EncodeCommand(r)) = IF h = r.hub THEN {r.port} ELSE {}
                       ELSE /\ DecodeBody(SampleTick(r)) = r
                            /\ \A h \in DOMAIN firmware : TakenBy(h, SampleTick(r)) = {}
  BY DEF FramesFindTheirPort
<1>1. Built
  BY DEF Built, Running
<1>2. EncodeCommand(r) = Frame(r, r) /\ SampleTick(r) = Frame(r, r)
  BY IndexFinds DEF EncodeCommand, SampleTick
<1>3. DecodeBody(Frame(r, r)) = r
  <2>1. Frame(r, r).node = r.node /\ Frame(r, r).id = r.id
    BY DEF Frame
  <2> QED
    BY <2>1, IndexFinds DEF DecodeBody
<1>4. \A h \in DOMAIN firmware :
        TakenBy(h, Frame(r, r)) = IF h = r.hub /\ r.dir = "in" THEN {r.port} ELSE {}
  BY <1>1, FramesAreTaken
<1> QED
  BY <1>2, <1>3, <1>4

-----------------------------------------------------------------------------
(* For every declaration that the DSL lets an author write, whatever its     *)
(* hubs, ports and views: the local checks of dsl/checks.ex reject with a    *)
(* topology error exactly those whose parents are not one tree under the     *)
(* host, the walk with its seen-set included.                                *)
THEOREM VerifierIsExact == Spec => []VerifierExact
BY Pipeline, VerifierStep, PTL

(* The route tables that wire_gen.ex renders send every node's frames        *)
(* towards it, on every hub of every declaration that compiles.              *)
THEOREM RoutesReachAll == Spec => []RoutesReach
BY Pipeline, RoutesStep, PTL

(* The two programs agree about their frames: what the host packs for a      *)
(* command port reaches that port's handler and no other of any hub, and     *)
(* what a hub's tick packs the host decodes as the row of that port.         *)
THEOREM FramesAgree == Spec => []FramesFindTheirPort
BY Pipeline, FramesStep, PTL

(* No command port that was given a safe action, or called floored, is       *)
(* without its dead-man in firmware that builds, and the floor's window is   *)
(* one that a view of the port asked for.                                    *)
THEOREM NoDeadManLost == Spec => []DeadManKept
BY Pipeline, DeadManStep, PTL

(* The status that a view of a floored port reads reports that port, where   *)
(* the names pair the hub's statuses off with its floors.                    *)
THEOREM StatusesAreOwn == Spec => []StatusIsOwn
BY Pipeline, StatusStep, PTL

=============================================================================
