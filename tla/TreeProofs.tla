----------------------------- MODULE TreeProofs -----------------------------
(***************************************************************************)
(* The links and the routers over them: what Tree promises on every         *)
(* point-to-point backplane, a root with at most one other hub on it,       *)
(* whatever the tables, the losses and the bounds.                          *)
(***************************************************************************)
EXTENDS Tree, SequenceTheorems, TLAPS

PointToPoint == \A g, h \in Bus \ {Root} : g = h

(* Commands, their order within a buffer, between two buffers, and between   *)
(* what was handed over and what is still on its way.                        *)
Cmd(f) == f.kind = "command"

Ordered(q) ==
  \A i, j \in 1 .. Len(q) : i < j /\ Cmd(q[i]) /\ Cmd(q[j]) => q[i].id < q[j].id

Before(q, r) ==
  \A i \in 1 .. Len(q), j \in 1 .. Len(r) :
    Cmd(q[i]) /\ Cmd(r[j]) => q[i].id < r[j].id

HandedBefore(s, q) ==
  \A i \in 1 .. Len(s), j \in 1 .. Len(q) : Cmd(q[j]) => s[i] < q[j].id

UpToSent(q) ==
  \A i \in 1 .. Len(q) : Cmd(q[i]) => q[i].node \in Hub /\ q[i].id <= Len(sent)

(* What holds of the backplane buffers q: a leaf's holds commands that the   *)
(* root routed down, in the order of sending, all later than what the leaf   *)
(* got and earlier than what the host's buffer holds; the root's holds none. *)
Backplane(q) ==
  /\ \A i \in 1 .. Len(q[Root]) : ~Cmd(q[Root][i])
  /\ \A h \in Hub \ {Root} :
       /\ Ordered(q[h]) /\ UpToSent(q[h]) /\ Before(q[h], hostRx)
       /\ \A i \in 1 .. Len(q[h]) :
            h \in Bus /\ (Cmd(q[h][i]) => Table[Root][q[h][i].node] = 1)
  /\ \A h \in Hub : HandedBefore(handed[h], q[h])

HostLink == Ordered(hostRx) /\ UpToSent(hostRx)

Deliveries ==
  \A h \in Hub :
    /\ Increasing(handed[h]) /\ HandedBefore(handed[h], hostRx)
    /\ \A i \in 1 .. Len(handed[h]) : handed[h][i] <= Len(sent)

IInv == TypeOK /\ HostLink /\ Backplane(rx) /\ Deliveries /\ NoCommandEchoed

(* The buffers that a step may leave behind. *)
Buffers == {q \in [Hub -> Seq(Frame)] : \A h \in Hub : Len(q[h]) <= RxCap}

-----------------------------------------------------------------------------
(* A frame on the backplane is appended to another member's buffer or lost. *)
LEMMA CarryOne ==
  ASSUME NEW q \in Buffers, NEW from \in Hub, NEW f \in Frame, NEW got
  PROVE  /\ Carry(q, from, f, got) \in Buffers
         /\ \A h \in Hub :
              \/ Carry(q, from, f, got)[h] = q[h]
              \/ /\ h \in Bus \ {from}
                 /\ Carry(q, from, f, got)[h] = Append(q[h], f)
<1>1. \A h \in Hub : Append(q[h], f) \in Seq(Frame) /\ Len(Append(q[h], f)) = Len(q[h]) + 1
  BY DEF Buffers
<1>2. RxCap \in Nat /\ \A h \in Hub : Len(q[h]) \in Nat
  BY TreeAssumption DEF Buffers
<1> QED
  BY <1>1, <1>2 DEF Carry, Buffers

LEMMA HeadTail ==
  ASSUME NEW S, NEW q \in Seq(S), q # <<>>
  PROVE  /\ Head(q) \in S /\ Head(q) = q[1] /\ 1 \in 1 .. Len(q)
         /\ Tail(q) \in Seq(S) /\ Len(Tail(q)) = Len(q) - 1 /\ Len(q) \in Nat
         /\ \A i \in 1 .. Len(Tail(q)) : Tail(q)[i] = q[i + 1] /\ i + 1 \in 1 .. Len(q)
  OBVIOUS

LEMMA Appended ==
  ASSUME NEW S, NEW q \in Seq(S), NEW x \in S
  PROVE  /\ Append(q, x) \in Seq(S) /\ Len(Append(q, x)) = Len(q) + 1 /\ Len(q) \in Nat
         /\ \A i \in 1 .. Len(q) : Append(q, x)[i] = q[i] /\ i \in 1 .. Len(q) + 1
         /\ Append(q, x)[Len(q) + 1] = x
         /\ \A i \in 1 .. Len(q) + 1 : i \in 1 .. Len(q) \/ i = Len(q) + 1
  OBVIOUS

(* A frame that is no command disturbs nothing, wherever it goes. *)
LEMMA CarrySample ==
  ASSUME TypeOK, NEW q \in Buffers, Backplane(q),
         NEW from \in Hub, NEW f \in Frame, NEW got, ~Cmd(f)
  PROVE  Backplane(Carry(q, from, f, got))
<1> DEFINE p == Carry(q, from, f, got)
<1>1. p \in Buffers /\ \A h \in Hub : p[h] = q[h] \/ (h \in Bus /\ p[h] = Append(q[h], f))
  BY CarryOne
<1>2. \A h \in Hub : q[h] \in Seq(Frame)
  BY DEF Buffers
<1>3. ASSUME NEW h \in Hub, NEW i \in 1 .. Len(p[h]), Cmd(p[h][i])
      PROVE  i \in 1 .. Len(q[h]) /\ p[h][i] = q[h][i]
  <2>1. CASE p[h] = q[h]
    BY <2>1
  <2>2. CASE p[h] = Append(q[h], f)
    <3>1. i \in 1 .. Len(q[h]) \/ p[h][i] = f
      BY <2>2, <1>2, Appended
    <3>2. \A j \in 1 .. Len(q[h]) : p[h][j] = q[h][j]
      BY <2>2, <1>2, Appended
    <3> QED
      BY <3>1, <3>2, <1>3
  <2> QED
    BY <2>1, <2>2, <1>1
<1>4. ASSUME NEW h \in Hub, p[h] # q[h] PROVE h \in Bus
  BY <1>1, <1>4
<1> HIDE DEF p
<1>5. \A i \in 1 .. Len(p[Root]) : ~Cmd(p[Root][i])
  BY <1>3, TreeAssumption DEF Backplane
<1>6. ASSUME NEW h \in Hub \ {Root}
      PROVE  /\ Ordered(p[h]) /\ UpToSent(p[h]) /\ Before(p[h], hostRx)
             /\ \A i \in 1 .. Len(p[h]) :
                  h \in Bus /\ (Cmd(p[h][i]) => Table[Root][p[h][i].node] = 1)
  <2>1. Ordered(p[h])
    BY <1>3 DEF Backplane, Ordered
  <2>2. UpToSent(p[h])
    BY <1>3 DEF Backplane, UpToSent
  <2>3. Before(p[h], hostRx)
    BY <1>3 DEF Backplane, Before
  <2>4. ASSUME NEW i \in 1 .. Len(p[h])
        PROVE  h \in Bus /\ (Cmd(p[h][i]) => Table[Root][p[h][i].node] = 1)
    BY <1>3, <1>4 DEF Backplane
  <2> QED
    BY <2>1, <2>2, <2>3, <2>4
<1>7. \A h \in Hub : HandedBefore(handed[h], p[h])
  BY <1>3 DEF Backplane, HandedBefore
<1> QED
  BY <1>5, <1>6, <1>7 DEF Backplane, p

(* Taking the first frame out of a buffer disturbs nothing. *)
LEMMA TakeOne ==
  ASSUME TypeOK, Backplane(rx), NEW h \in Hub, rx[h] # <<>>
  PROVE  /\ [rx EXCEPT ![h] = Tail(@)] \in Buffers
         /\ Backplane([rx EXCEPT ![h] = Tail(@)])
<1> DEFINE p == [rx EXCEPT ![h] = Tail(@)]
<1>1. /\ \A g \in Hub : rx[g] \in Seq(Frame) /\ Len(rx[g]) \in Nat /\ Len(rx[g]) <= RxCap
      /\ RxCap \in Nat
  BY TreeAssumption DEF TypeOK
<1>2. /\ p[h] = Tail(rx[h]) /\ \A g \in Hub \ {h} : p[g] = rx[g]
      /\ DOMAIN p = Hub
  BY DEF TypeOK
<1>3. /\ Tail(rx[h]) \in Seq(Frame) /\ Len(Tail(rx[h])) = Len(rx[h]) - 1
      /\ \A i \in 1 .. Len(Tail(rx[h])) :
           Tail(rx[h])[i] = rx[h][i + 1] /\ i + 1 \in 1 .. Len(rx[h])
  BY <1>1, HeadTail
<1>4. p \in Buffers
  <2>1. \A g \in Hub : p[g] \in Seq(Frame) /\ Len(p[g]) <= RxCap
    BY <1>1, <1>2, <1>3
  <2> QED
    BY <2>1, <1>2 DEF Buffers, TypeOK
<1>5. \A i \in 1 .. Len(p[Root]) : ~Cmd(p[Root][i])
  BY <1>2, <1>3, TreeAssumption DEF Backplane
<1>6. ASSUME NEW g \in Hub \ {Root}
      PROVE  /\ Ordered(p[g]) /\ UpToSent(p[g]) /\ Before(p[g], hostRx)
             /\ \A i \in 1 .. Len(p[g]) :
                  g \in Bus /\ (Cmd(p[g][i]) => Table[Root][p[g][i].node] = 1)
  <2>1. CASE g # h
    BY <2>1, <1>2 DEF Backplane
  <2>2. CASE g = h
    <3>1. Ordered(Tail(rx[h]))
      BY <2>2, <1>1, <1>3 DEF Backplane, Ordered
    <3>2. UpToSent(Tail(rx[h]))
      BY <2>2, <1>1, <1>3 DEF Backplane, UpToSent
    <3>3. Before(Tail(rx[h]), hostRx)
      BY <2>2, <1>1, <1>3 DEF Backplane, Before
    <3>4. ASSUME NEW i \in 1 .. Len(Tail(rx[h]))
          PROVE  h \in Bus /\ (Cmd(Tail(rx[h])[i]) => Table[Root][Tail(rx[h])[i].node] = 1)
      BY <2>2, <1>3 DEF Backplane
    <3> QED
      BY <3>1, <3>2, <3>3, <3>4, <2>2, <1>2
  <2> QED
    BY <2>1, <2>2
<1>7. ASSUME NEW g \in Hub PROVE HandedBefore(handed[g], p[g])
  BY <1>2, <1>3 DEF Backplane, HandedBefore
<1> HIDE DEF p
<1>8. Backplane(p)
  BY <1>5, <1>6, <1>7 DEF Backplane
<1> QED
  BY <1>4, <1>8 DEF p

LEMMA Ids ==
  ASSUME NEW q \in Seq(Frame)
  PROVE  Len(q) \in Nat /\ \A i \in 1 .. Len(q) : q[i] \in Frame /\ q[i].id \in Nat
<1>1. Len(q) \in Nat /\ \A i \in 1 .. Len(q) : q[i] \in Frame
  OBVIOUS
<1>2. \A f \in Frame : f.id \in Nat
  BY DEF Frame
<1> QED
  BY <1>1, <1>2

(* The numbers of a state: lengths and ids. *)
LEMMA Numbers ==
  ASSUME TypeOK
  PROVE  /\ Len(hostRx) \in Nat /\ Len(sent) \in Nat /\ RxCap \in Nat
         /\ \A i \in 1 .. Len(hostRx) : hostRx[i].id \in Nat
         /\ \A h \in Hub :
              /\ Len(rx[h]) \in Nat /\ Len(handed[h]) \in Nat
              /\ \A i \in 1 .. Len(rx[h]) : rx[h][i].id \in Nat
              /\ \A i \in 1 .. Len(handed[h]) : handed[h][i] \in Nat
<1>1. /\ hostRx \in Seq(Frame) /\ sent \in Seq(Hub)
      /\ \A h \in Hub : rx[h] \in Seq(Frame) /\ handed[h] \in Seq(Nat)
  BY DEF TypeOK
<1>2. Len(hostRx) \in Nat /\ \A i \in 1 .. Len(hostRx) : hostRx[i].id \in Nat
  BY <1>1, Ids
<1>3. Len(sent) \in Nat
  BY <1>1
<1>4. ASSUME NEW h \in Hub
      PROVE  /\ Len(rx[h]) \in Nat /\ Len(handed[h]) \in Nat
             /\ \A i \in 1 .. Len(rx[h]) : rx[h][i].id \in Nat
             /\ \A i \in 1 .. Len(handed[h]) : handed[h][i] \in Nat
  <2>1. Len(rx[h]) \in Nat /\ \A i \in 1 .. Len(rx[h]) : rx[h][i].id \in Nat
    BY <1>1, Ids
  <2>2. handed[h] \in Seq(Nat)
    BY <1>1
  <2>3. Len(handed[h]) \in Nat /\ \A i \in 1 .. Len(handed[h]) : handed[h][i] \in Nat
    BY <2>2
  <2> QED
    BY <2>1, <2>3
<1> QED
  BY <1>2, <1>3, <1>4, TreeAssumption

(* A step that sends, routes or hands to the root leaves missed a Boolean.   *)
LEMMA MissedSend ==
  ASSUME TypeOK, NEW h, NEW link, NEW f, NEW q, SendOnLink(h, link, f, q)
  PROVE  missed' \in BOOLEAN
  BY DEF TypeOK, SendOnLink

LEMMA MissedRoute ==
  ASSUME TypeOK, NEW h, NEW f, NEW q, Route(h, f, q)
  PROVE  missed' \in BOOLEAN
<1>1. CASE UNCHANGED missed
  BY <1>1 DEF TypeOK
<1>2. CASE SendOnLink(h, Table[h][f.node], f, q)
  BY <1>2, MissedSend
<1> QED
  BY <1>1, <1>2 DEF Route

LEMMA MissedToRoot ==
  ASSUME TypeOK, NEW f, ToRoot(f)
  PROVE  missed' \in BOOLEAN
  BY DEF TypeOK, ToRoot

-----------------------------------------------------------------------------
LEMMA InitIInv == Init => IInv
<1> SUFFICES ASSUME Init PROVE IInv
  OBVIOUS
<1>1. TypeOK
  <2>1. <<>> \in Seq(Frame) /\ <<>> \in Seq(Nat) /\ <<>> \in Seq(Hub) /\ Len(<<>>) = 0
    OBVIOUS
  <2>2. missed \in BOOLEAN
    BY DEF Init
  <2>3. /\ pc \in [Hub -> {"host", "backplane", "tasks"}]
        /\ rx \in [Hub -> Seq(Frame)] /\ \A h \in Hub : Len(rx[h]) <= RxCap
    BY <2>1, TreeAssumption DEF Init
  <2>4. /\ hostRx \in Seq(Frame) /\ Len(hostRx) <= RxCap
        /\ sent \in Seq(Hub) /\ disarms \in Nat
        /\ emitted \in [Hub -> Nat] /\ handed \in [Hub -> Seq(Nat)]
        /\ heard \subseteq Frame
    BY <2>1, TreeAssumption DEF Init
  <2> QED
    BY <2>2, <2>3, <2>4 DEF TypeOK
<1>2. HostLink /\ Deliveries /\ NoCommandEchoed /\ Backplane(rx)
  BY TreeAssumption DEF Init, HostLink, Deliveries, NoCommandEchoed, Backplane,
     Ordered, UpToSent, Before, HandedBefore, Increasing
<1> QED
  BY <1>1, <1>2 DEF IInv

(* A command's id is larger than any sent before it. *)
LEMMA HostSendStep ==
  ASSUME IInv, NEW d \in Hub, HostSend(d)
  PROVE  IInv'
<1> DEFINE f == [kind |-> "command", node |-> d, id |-> Len(sent) + 1]
<1>1. /\ sent \in Seq(Hub) /\ Len(sent) \in Nat /\ hostRx \in Seq(Frame)
      /\ sent' = Append(sent, d) /\ Len(sent') = Len(sent) + 1 /\ sent' \in Seq(Hub)
  BY DEF IInv, TypeOK, HostSend
<1>2. f \in Frame
  BY <1>1 DEF Frame, Node
<1>3. \/ hostRx' = hostRx
      \/ hostRx' = Append(hostRx, f) /\ Len(hostRx) < RxCap
  BY DEF HostSend, ToRoot
<1>4. UNCHANGED <<pc, rx, emitted, handed, heard, disarms>> /\ missed' \in BOOLEAN
  BY MissedToRoot DEF HostSend, IInv
<1>5. TypeOK'
  <2>1. hostRx' \in Seq(Frame) /\ Len(hostRx') <= RxCap
    <3>1. CASE hostRx' = hostRx
      BY <3>1 DEF IInv, TypeOK
    <3>2. CASE hostRx' = Append(hostRx, f) /\ Len(hostRx) < RxCap
      BY <3>2, <1>1, <1>2, Appended, TreeAssumption
    <3> QED
      BY <3>1, <3>2, <1>3
  <2> QED
    BY <2>1, <1>1, <1>4 DEF IInv, TypeOK
<1>6. ASSUME NEW i \in 1 .. Len(hostRx')
      PROVE  \/ i \in 1 .. Len(hostRx) /\ hostRx'[i] = hostRx[i]
             \/ i = Len(hostRx) + 1 /\ hostRx'[i] = f
  BY <1>1, <1>2, <1>3, Appended
<1>7. f.id = Len(sent) + 1 /\ f.node = d
  OBVIOUS
<1> HIDE DEF f
<1>8. HostLink'
  <2>1. ASSUME NEW i \in 1 .. Len(hostRx'), NEW j \in 1 .. Len(hostRx'), i < j,
               Cmd(hostRx'[i]), Cmd(hostRx'[j])
        PROVE  hostRx'[i].id < hostRx'[j].id
    <3>1. Len(hostRx) \in Nat /\ Len(sent) \in Nat
      BY Numbers DEF IInv
    <3>2. i \in 1 .. Len(hostRx) /\ hostRx'[i] = hostRx[i]
      BY <1>6, <2>1, <3>1
    <3>3. CASE j \in 1 .. Len(hostRx) /\ hostRx'[j] = hostRx[j]
      BY <3>2, <3>3, <2>1 DEF IInv, HostLink, Ordered
    <3>4. CASE hostRx'[j] = f
      <4>1. hostRx[i].id <= Len(sent) /\ hostRx[i].id \in Nat
        BY <3>2, <2>1, Numbers DEF IInv, HostLink, UpToSent
      <4> QED
        BY <4>1, <3>1, <3>2, <3>4, <1>7
    <3> QED
      BY <3>3, <3>4, <1>6
  <2>2. ASSUME NEW i \in 1 .. Len(hostRx'), Cmd(hostRx'[i])
        PROVE  hostRx'[i].node \in Hub /\ hostRx'[i].id <= Len(sent')
    <3>1. CASE i \in 1 .. Len(hostRx) /\ hostRx'[i] = hostRx[i]
      <4>1. hostRx[i].node \in Hub /\ hostRx[i].id <= Len(sent)
        BY <3>1, <2>2 DEF IInv, HostLink, UpToSent
      <4>2. hostRx[i].id \in Nat /\ Len(sent) \in Nat
        BY <3>1, Numbers DEF IInv
      <4> QED
        BY <4>1, <4>2, <3>1, <1>1
    <3>2. CASE hostRx'[i] = f
      BY <3>2, <1>1, <1>7, Numbers DEF IInv
    <3> QED
      BY <3>1, <3>2, <1>6
  <2> QED
    BY <2>1, <2>2 DEF HostLink, Ordered, UpToSent
<1>9. Backplane(rx)'
  <2>1. ASSUME NEW h \in Hub \ {Root} PROVE Before(rx[h], hostRx)' /\ UpToSent(rx[h])'
    <3>1. UpToSent(rx[h]) /\ Before(rx[h], hostRx)
      BY DEF IInv, Backplane
    <3>2. UpToSent(rx[h])'
      <4>1. \A i \in 1 .. Len(rx[h]) : rx[h][i].id \in Nat
        BY Numbers DEF IInv
      <4> QED
        BY <4>1, <3>1, <1>1, <1>4 DEF UpToSent
    <3>3. ASSUME NEW i \in 1 .. Len(rx[h]), NEW j \in 1 .. Len(hostRx'),
                 Cmd(rx[h][i]), Cmd(hostRx'[j])
          PROVE  rx[h][i].id < hostRx'[j].id
      <4>1. CASE j \in 1 .. Len(hostRx) /\ hostRx'[j] = hostRx[j]
        BY <4>1, <3>1, <3>3 DEF Before
      <4>2. CASE hostRx'[j] = f
        BY <4>2, <3>1, <3>3, <1>1, <1>7, Numbers DEF UpToSent, IInv
      <4> QED
        BY <4>1, <4>2, <1>6
    <3> QED
      BY <3>2, <3>3, <1>4 DEF Before
  <2> QED
    BY <2>1, <1>4 DEF IInv, Backplane, Ordered, HandedBefore
<1>10. Deliveries'
  <2>1. ASSUME NEW h \in Hub, NEW i \in 1 .. Len(handed[h])
        PROVE  handed[h][i] <= Len(sent) /\ handed[h][i] \in Nat
    BY Numbers DEF IInv, Deliveries
  <2>2. ASSUME NEW h \in Hub PROVE HandedBefore(handed[h], hostRx)'
    <3>1. HandedBefore(handed[h], hostRx)
      BY DEF IInv, Deliveries
    <3>2. ASSUME NEW i \in 1 .. Len(handed[h]), NEW j \in 1 .. Len(hostRx'), Cmd(hostRx'[j])
          PROVE  handed[h][i] < hostRx'[j].id
      <4>1. CASE j \in 1 .. Len(hostRx) /\ hostRx'[j] = hostRx[j]
        BY <4>1, <3>1, <3>2 DEF HandedBefore
      <4>2. CASE hostRx'[j] = f
        BY <4>2, <2>1, <3>2, <1>1, <1>7, Numbers DEF IInv
      <4> QED
        BY <4>1, <4>2, <1>6
    <3> QED
      BY <3>2, <1>4 DEF HandedBefore
  <2>3. ASSUME NEW h \in Hub, NEW i \in 1 .. Len(handed[h])
        PROVE  handed[h][i] <= Len(sent')
    BY <2>1, <1>1
  <2> QED
    BY <2>2, <2>3, <1>4 DEF IInv, Deliveries, Increasing
<1> QED
  BY <1>4, <1>5, <1>8, <1>9, <1>10 DEF IInv, NoCommandEchoed

LEMMA HostDisarmStep ==
  ASSUME IInv, HostDisarm
  PROVE  IInv'
<1> DEFINE f == [kind |-> "disarm", node |-> Broadcast, id |-> 0]
<1>1. hostRx \in Seq(Frame) /\ disarms' \in Nat
  BY DEF IInv, TypeOK, HostDisarm
<1>2. f \in Frame /\ ~Cmd(f)
  BY DEF Frame, Node, Cmd
<1>3. \/ hostRx' = hostRx
      \/ hostRx' = Append(hostRx, f) /\ Len(hostRx) < RxCap
  BY DEF HostDisarm, ToRoot
<1>4. UNCHANGED <<pc, rx, sent, emitted, handed, heard>> /\ missed' \in BOOLEAN
  BY MissedToRoot DEF HostDisarm, IInv
<1> HIDE DEF f
<1>5. TypeOK'
  <2>1. hostRx' \in Seq(Frame) /\ Len(hostRx') <= RxCap
    <3>1. CASE hostRx' = hostRx
      BY <3>1 DEF IInv, TypeOK
    <3>2. CASE hostRx' = Append(hostRx, f) /\ Len(hostRx) < RxCap
      BY <3>2, <1>1, <1>2, Appended, TreeAssumption
    <3> QED
      BY <3>1, <3>2, <1>3
  <2> QED
    BY <2>1, <1>1, <1>4 DEF IInv, TypeOK
<1>6. ASSUME NEW i \in 1 .. Len(hostRx'), Cmd(hostRx'[i])
      PROVE  i \in 1 .. Len(hostRx) /\ hostRx'[i] = hostRx[i]
  BY <1>1, <1>2, <1>3, <1>6, Appended
<1>7. HostLink'
  BY <1>4, <1>6 DEF IInv, HostLink, Ordered, UpToSent
<1>8. Backplane(rx)'
  <2>1. ASSUME NEW h \in Hub \ {Root} PROVE Before(rx[h], hostRx)'
    BY <1>4, <1>6 DEF IInv, Backplane, Before
  <2> QED
    BY <2>1, <1>4 DEF IInv, Backplane, Ordered, UpToSent, HandedBefore
<1>9. Deliveries'
  BY <1>4, <1>6 DEF IInv, Deliveries, HandedBefore, Increasing
<1> QED
  BY <1>4, <1>5, <1>7, <1>8, <1>9 DEF IInv, NoCommandEchoed

-----------------------------------------------------------------------------
(* A frame that is no command is forwarded, to the host or the backplane.    *)
LEMMA SendSample ==
  ASSUME IInv, NEW h \in Hub, NEW link, NEW f \in Frame, ~Cmd(f),
         NEW q \in Buffers, Backplane(q), SendOnLink(h, link, f, q)
  PROVE  /\ rx' \in Buffers /\ Backplane(rx')
         /\ heard' \subseteq Frame /\ NoCommandEchoed'
<1>1. CASE heard' = heard \cup {f} /\ rx' = q
  BY <1>1 DEF IInv, TypeOK, NoCommandEchoed, Cmd
<1>2. CASE UNCHANGED heard /\ \E got \in Arrivals(h) : rx' = Carry(q, h, f, got)
  BY <1>2, CarryOne, CarrySample DEF IInv, TypeOK, NoCommandEchoed
<1>3. CASE rx' = q /\ UNCHANGED heard
  BY <1>3 DEF IInv, TypeOK, NoCommandEchoed
<1> QED
  BY <1>1, <1>2, <1>3 DEF SendOnLink

(* Handing over a frame: what it does to the ids handed to a hub. *)
LEMMA HandsOver ==
  ASSUME IInv, NEW h \in Hub, NEW f \in Frame, DeliverLocal(h, f),
         Cmd(f) => /\ f.id <= Len(sent)
                   /\ \A i \in 1 .. Len(handed[h]) : handed[h][i] < f.id
  PROVE  /\ handed' \in [Hub -> Seq(Nat)]
         /\ \A g \in Hub : /\ Increasing(handed'[g])
                            /\ \A i \in 1 .. Len(handed'[g]) : handed'[g][i] <= Len(sent)
         /\ \A g \in Hub : \A i \in 1 .. Len(handed'[g]) :
              \/ i \in 1 .. Len(handed[g]) /\ handed'[g][i] = handed[g][i]
              \/ g = h /\ Cmd(f) /\ handed'[g][i] = f.id
<1>1. f.id \in Nat /\ handed \in [Hub -> Seq(Nat)]
  BY DEF Frame, IInv, TypeOK
<1>2. \A g \in Hub : /\ Increasing(handed[g])
                     /\ \A i \in 1 .. Len(handed[g]) : handed[g][i] <= Len(sent)
  BY DEF IInv, Deliveries
<1>3. CASE ~Cmd(f)
  <2>1. handed' = handed
    BY <1>1, <1>3 DEF DeliverLocal, Cmd
  <2> QED
    BY <2>1, <1>1, <1>2
<1>4. CASE Cmd(f)
  <2> DEFINE s == Append(handed[h], f.id)
  <2>1. /\ handed' = [handed EXCEPT ![h] = s]
        /\ handed'[h] = s /\ \A g \in Hub \ {h} : handed'[g] = handed[g]
    BY <1>1, <1>4 DEF DeliverLocal, Cmd
  <2>2. /\ s \in Seq(Nat) /\ Len(s) = Len(handed[h]) + 1 /\ Len(handed[h]) \in Nat
        /\ \A i \in 1 .. Len(s) :
             \/ i \in 1 .. Len(handed[h]) /\ s[i] = handed[h][i]
             \/ i = Len(handed[h]) + 1 /\ s[i] = f.id
    BY <1>1, Appended
  <2> HIDE DEF s
  <2>3. ASSUME NEW i \in 1 .. Len(s), NEW j \in 1 .. Len(s), i < j PROVE s[i] < s[j]
    <3>1. i \in 1 .. Len(handed[h]) /\ s[i] = handed[h][i]
      <4>1. i # Len(handed[h]) + 1
        BY <2>2, <2>3
      <4> QED
        BY <4>1, <2>2
    <3>2. CASE j \in 1 .. Len(handed[h]) /\ s[j] = handed[h][j]
      BY <3>1, <3>2, <2>3, <1>2 DEF Increasing
    <3>3. CASE s[j] = f.id
      BY <3>1, <3>3, <1>4
    <3> QED
      BY <3>2, <3>3, <2>2
  <2>4. \A i \in 1 .. Len(s) : s[i] <= Len(sent)
    BY <2>2, <1>2, <1>4
  <2> QED
    BY <2>1, <2>2, <2>3, <2>4, <1>1, <1>2, <1>4 DEF Increasing
<1> QED
  BY <1>3, <1>4

LEMMA PumpHostStep ==
  ASSUME IInv, NEW d \in Hub, PumpHost(d)
  PROVE  IInv'
<1> DEFINE f == Head(hostRx)
<1>1. d = Root /\ Root \in Hub /\ Root \in Bus /\ Bus \subseteq Hub
  BY TreeAssumption DEF PumpHost
<1>2. /\ UNCHANGED <<pc, sent, emitted, disarms>> /\ hostRx' = Tail(hostRx)
      /\ missed' \in BOOLEAN
      /\ Route(Root, f, rx)
  BY <1>1, MissedRoute DEF PumpHost, IInv
<1>3. /\ f \in Frame /\ f = hostRx[1] /\ 1 \in 1 .. Len(hostRx)
      /\ Tail(hostRx) \in Seq(Frame) /\ Len(hostRx') = Len(hostRx) - 1
      /\ \A i \in 1 .. Len(hostRx') :
           hostRx'[i] = hostRx[i + 1] /\ i + 1 \in 1 .. Len(hostRx)
  <2>1. hostRx \in Seq(Frame) /\ hostRx # <<>>
    BY DEF PumpHost, IInv, TypeOK
  <2> QED
    BY <2>1, <1>2, HeadTail
<1>4. /\ Len(hostRx) \in Nat /\ RxCap \in Nat /\ f.id \in Nat /\ Len(sent) \in Nat
      /\ \A i \in 1 .. Len(hostRx) : hostRx[i].id \in Nat
  BY <1>3, Numbers DEF IInv
<1>5. /\ Cmd(f) => f.node \in Hub /\ f.id <= Len(sent)
      /\ Cmd(f) => \A i \in 1 .. Len(hostRx') : Cmd(hostRx'[i]) => f.id < hostRx'[i].id
      /\ Cmd(f) => \A h \in Hub : \A i \in 1 .. Len(handed[h]) : handed[h][i] < f.id
      /\ Cmd(f) => \A h \in Hub : \A i \in 1 .. Len(rx[h]) :
                     Cmd(rx[h][i]) => rx[h][i].id < f.id
  <2>1. Cmd(f) => f.node \in Hub /\ f.id <= Len(sent)
    BY <1>3 DEF IInv, HostLink, UpToSent
  <2>2. ASSUME Cmd(f), NEW i \in 1 .. Len(hostRx'), Cmd(hostRx'[i])
        PROVE  f.id < hostRx'[i].id
    <3>1. i + 1 \in 1 .. Len(hostRx) /\ 1 < i + 1 /\ Cmd(hostRx[i + 1])
      BY <2>2, <1>3, <1>4
    <3> QED
      BY <3>1, <2>2, <1>3 DEF IInv, HostLink, Ordered
  <2>3. ASSUME Cmd(f), NEW h \in Hub, NEW i \in 1 .. Len(handed[h])
        PROVE  handed[h][i] < f.id
    BY <2>3, <1>3 DEF IInv, Deliveries, HandedBefore
  <2>4. ASSUME Cmd(f), NEW h \in Hub, NEW i \in 1 .. Len(rx[h]), Cmd(rx[h][i])
        PROVE  rx[h][i].id < f.id
    BY <2>4, <1>3 DEF IInv, Backplane, Before
  <2> QED
    BY <2>1, <2>2, <2>3, <2>4
<1> HIDE DEF f
<1>6. HostLink'
  <2>1. ASSUME NEW i \in 1 .. Len(hostRx'), NEW j \in 1 .. Len(hostRx'), i < j,
               Cmd(hostRx'[i]), Cmd(hostRx'[j])
        PROVE  hostRx'[i].id < hostRx'[j].id
    <3>1. /\ i + 1 \in 1 .. Len(hostRx) /\ j + 1 \in 1 .. Len(hostRx) /\ i + 1 < j + 1
          /\ hostRx'[i] = hostRx[i + 1] /\ hostRx'[j] = hostRx[j + 1]
      BY <2>1, <1>3
    <3> QED
      BY <3>1, <2>1 DEF IInv, HostLink, Ordered
  <2>2. UpToSent(hostRx)'
    BY <1>2, <1>3, <1>4 DEF IInv, HostLink, UpToSent
  <2> QED
    BY <2>1, <2>2 DEF HostLink, Ordered
<1>7. ASSUME NEW q, \A h \in Hub \ {Root} : Before(q[h], hostRx)
      PROVE  \A h \in Hub \ {Root} : Before(q[h], hostRx')
  BY <1>3, <1>7 DEF Before
<1>8. ASSUME NEW h \in Hub, HandedBefore(handed[h], hostRx)
      PROVE  HandedBefore(handed[h], hostRx')
  BY <1>3, <1>8 DEF HandedBefore
<1>9. ASSUME rx' \in Buffers, handed' \in [Hub -> Seq(Nat)], heard' \subseteq Frame
      PROVE  TypeOK'
  <2>1. hostRx' \in Seq(Frame) /\ Len(hostRx') <= RxCap
    BY <1>2, <1>3, <1>4 DEF IInv, TypeOK
  <2> QED
    BY <1>2, <1>9, <2>1 DEF IInv, TypeOK, Buffers
<1>10. ASSUME ~Cmd(f), SendOnLink(Root, Table[Root][f.node], f, rx), handed' = handed
       PROVE  IInv'
  <2>1. rx \in Buffers
    BY DEF IInv, TypeOK, Buffers
  <2>2. /\ rx' \in Buffers /\ Backplane(rx')
        /\ heard' \subseteq Frame /\ NoCommandEchoed'
    BY <2>1, <1>1, <1>3, <1>10, SendSample DEF IInv
  <2>3. Backplane(rx)'
    BY <2>2, <1>2, <1>7, <1>10 DEF Backplane, UpToSent
  <2>4. Deliveries'
    BY <1>2, <1>8, <1>10 DEF IInv, Deliveries
  <2> QED
    BY <2>2, <2>3, <2>4, <1>6, <1>9, <1>10 DEF IInv, TypeOK
<1>11. ASSUME DeliverLocal(Root, f), rx' = rx, UNCHANGED heard
       PROVE  IInv'
  <2>1. /\ handed' \in [Hub -> Seq(Nat)]
        /\ \A g \in Hub : /\ Increasing(handed'[g])
                           /\ \A i \in 1 .. Len(handed'[g]) : handed'[g][i] <= Len(sent)
        /\ \A g \in Hub : \A i \in 1 .. Len(handed'[g]) :
             \/ i \in 1 .. Len(handed[g]) /\ handed'[g][i] = handed[g][i]
             \/ g = Root /\ Cmd(f) /\ handed'[g][i] = f.id
    BY <1>1, <1>3, <1>5, <1>11, HandsOver
  <2>2. rx' \in Buffers /\ heard' \subseteq Frame /\ NoCommandEchoed'
    BY <1>11 DEF IInv, TypeOK, Buffers, NoCommandEchoed
  <2>3. ASSUME NEW g \in Hub PROVE HandedBefore(handed'[g], rx[g])
    BY <2>1 DEF IInv, Backplane, HandedBefore
  <2>4. ASSUME NEW g \in Hub PROVE HandedBefore(handed'[g], hostRx')
    BY <2>1, <1>3, <1>5 DEF IInv, Deliveries, HandedBefore
  <2>5. Backplane(rx)'
    BY <2>3, <1>2, <1>7, <1>11 DEF IInv, Backplane, UpToSent
  <2>6. Deliveries'
    BY <2>1, <2>4, <1>2 DEF Deliveries
  <2> QED
    BY <2>1, <2>2, <2>5, <2>6, <1>6, <1>9 DEF IInv
<1>12. ASSUME Cmd(f), f.node # Root, SendOnLink(Root, Table[Root][f.node], f, rx),
              handed' = handed
       PROVE  IInv'
  <2>1. Table[Root][f.node] # 0
    BY <1>5, <1>12, TableAssumption
  <2>2. rx \in Buffers
    BY DEF IInv, TypeOK, Buffers
  <2>3. CASE rx' = rx /\ UNCHANGED heard
    <3>1. Backplane(rx)'
      BY <2>3, <1>2, <1>7, <1>12 DEF IInv, Backplane, UpToSent
    <3>2. Deliveries'
      BY <1>2, <1>8, <1>12 DEF IInv, Deliveries
    <3> QED
      BY <2>2, <2>3, <3>1, <3>2, <1>6, <1>9, <1>12 DEF IInv, TypeOK, NoCommandEchoed
  <2>4. ASSUME UNCHANGED heard, Table[Root][f.node] = 1,
               NEW got \in Arrivals(Root), rx' = Carry(rx, Root, f, got)
        PROVE  IInv'
    <3>1. /\ rx' \in Buffers
          /\ \A h \in Hub : \/ rx'[h] = rx[h]
                            \/ h \in Bus \ {Root} /\ rx'[h] = Append(rx[h], f)
      BY <2>2, <2>4, <1>1, <1>3, CarryOne
    <3>2. \A h \in Hub : rx[h] \in Seq(Frame) /\ Len(rx[h]) \in Nat
      BY Numbers DEF IInv, TypeOK
    <3>3. ASSUME NEW h \in Hub, NEW i \in 1 .. Len(rx'[h])
          PROVE  \/ i \in 1 .. Len(rx[h]) /\ rx'[h][i] = rx[h][i]
                 \/ h \in Bus \ {Root} /\ rx'[h][i] = f /\ i = Len(rx[h]) + 1
      <4>1. CASE rx'[h] = rx[h]
        BY <4>1
      <4>2. CASE h \in Bus \ {Root} /\ rx'[h] = Append(rx[h], f)
        BY <4>2, <3>2, <1>3, Appended
      <4> QED
        BY <4>1, <4>2, <3>1
    <3>4. ASSUME NEW h \in Hub \ {Root}
          PROVE  /\ Ordered(rx'[h]) /\ UpToSent(rx'[h]) /\ Before(rx'[h], hostRx')
                 /\ \A i \in 1 .. Len(rx'[h]) :
                      h \in Bus /\ (Cmd(rx'[h][i]) => Table[Root][rx'[h][i].node] = 1)
      <4>1. ASSUME NEW i \in 1 .. Len(rx'[h]), NEW j \in 1 .. Len(rx'[h]), i < j,
                   Cmd(rx'[h][i]), Cmd(rx'[h][j])
            PROVE  rx'[h][i].id < rx'[h][j].id
        <5>1. Len(rx[h]) \in Nat
          BY <3>2
        <5>2. Len(rx'[h]) <= Len(rx[h]) + 1 /\ Len(rx'[h]) \in Nat
          BY <3>1, <3>2, <1>3, Appended
        <5>3. i \in 1 .. Len(rx[h]) /\ rx'[h][i] = rx[h][i]
          BY <5>1, <5>2, <3>3, <4>1
        <5>4. CASE j \in 1 .. Len(rx[h]) /\ rx'[h][j] = rx[h][j]
          BY <5>3, <5>4, <4>1 DEF IInv, Backplane, Ordered
        <5>5. CASE rx'[h][j] = f
          BY <5>3, <5>5, <4>1, <1>5
        <5> QED
          BY <5>4, <5>5, <3>3
      <4>2. UpToSent(rx'[h])
        BY <3>3, <1>5 DEF IInv, Backplane, UpToSent
      <4>3. ASSUME NEW i \in 1 .. Len(rx'[h]), NEW j \in 1 .. Len(hostRx'),
                   Cmd(rx'[h][i]), Cmd(hostRx'[j])
            PROVE  rx'[h][i].id < hostRx'[j].id
        <5>1. CASE i \in 1 .. Len(rx[h]) /\ rx'[h][i] = rx[h][i]
          BY <5>1, <4>3, <1>3 DEF IInv, Backplane, Before
        <5>2. CASE rx'[h][i] = f
          BY <5>2, <4>3, <1>5
        <5> QED
          BY <5>1, <5>2, <3>3
      <4>4. ASSUME NEW i \in 1 .. Len(rx'[h])
            PROVE  h \in Bus /\ (Cmd(rx'[h][i]) => Table[Root][rx'[h][i].node] = 1)
        BY <3>3, <2>4 DEF IInv, Backplane
      <4> QED
        BY <4>1, <4>2, <4>3, <4>4 DEF Before, Ordered
    <3>5. \A i \in 1 .. Len(rx'[Root]) : ~Cmd(rx'[Root][i])
      BY <3>3, <1>1 DEF IInv, Backplane
    <3>6. ASSUME NEW h \in Hub, NEW i \in 1 .. Len(handed[h]), NEW j \in 1 .. Len(rx'[h]),
                 Cmd(rx'[h][j])
          PROVE  handed[h][i] < rx'[h][j].id
      <4>1. CASE j \in 1 .. Len(rx[h]) /\ rx'[h][j] = rx[h][j]
        BY <4>1, <3>6 DEF IInv, Backplane, HandedBefore
      <4>2. CASE rx'[h][j] = f
        BY <4>2, <3>6, <1>5
      <4> QED
        BY <4>1, <4>2, <3>3
    <3>7. Backplane(rx)'
      BY <3>4, <3>5, <3>6, <1>2, <1>12 DEF Backplane, UpToSent, HandedBefore
    <3>8. Deliveries'
      BY <1>2, <1>8, <1>12 DEF IInv, Deliveries
    <3> QED
      BY <3>1, <3>7, <3>8, <2>4, <1>6, <1>9, <1>12 DEF IInv, TypeOK, NoCommandEchoed
  <2> QED
    BY <2>1, <2>3, <2>4, <1>12 DEF SendOnLink
<1> QED
  BY <1>2, <1>10, <1>11, <1>12 DEF Route

LEMMA PumpBackplaneStep ==
  ASSUME IInv, PointToPoint, NEW h \in Hub, PumpBackplane(h)
  PROVE  IInv'
<1> DEFINE f == Head(rx[h])
           q == [rx EXCEPT ![h] = Tail(@)]
<1>1. /\ UNCHANGED <<pc, hostRx, sent, emitted, disarms>> /\ rx[h] # <<>>
      /\ missed' \in BOOLEAN
      /\ Route(h, f, q)
  BY MissedRoute DEF PumpBackplane, IInv
<1>2. rx[h] \in Seq(Frame) /\ Len(rx[h]) \in Nat /\ rx \in [Hub -> Seq(Frame)]
  BY Numbers DEF IInv, TypeOK
<1>3. /\ f \in Frame /\ f = rx[h][1] /\ 1 \in 1 .. Len(rx[h])
      /\ q[h] = Tail(rx[h]) /\ Len(q[h]) = Len(rx[h]) - 1
      /\ \A i \in 1 .. Len(q[h]) : q[h][i] = rx[h][i + 1] /\ i + 1 \in 1 .. Len(rx[h])
      /\ \A g \in Hub \ {h} : q[g] = rx[g]
  BY <1>1, <1>2, HeadTail
<1>4. q \in Buffers /\ Backplane(q)
  BY <1>1, TakeOne DEF IInv
<1>5. /\ f.id \in Nat /\ \A i \in 1 .. Len(rx[h]) : rx[h][i].id \in Nat
  BY <1>3, Numbers DEF IInv
<1> HIDE DEF f, q
<1>6. ASSUME Cmd(f)
      PROVE  /\ h # Root /\ h \in Bus /\ f.node \in Hub /\ f.id <= Len(sent)
             /\ Table[Root][f.node] = 1
             /\ \A i \in 1 .. Len(handed[h]) : handed[h][i] < f.id
             /\ \A i \in 1 .. Len(hostRx) : Cmd(hostRx[i]) => f.id < hostRx[i].id
             /\ \A i \in 1 .. Len(q[h]) : Cmd(q[h][i]) => f.id < q[h][i].id
  <2>1. h \in Hub \ {Root}
    BY <1>3, <1>6 DEF IInv, Backplane
  <2>2. /\ h \in Bus /\ f.node \in Hub /\ f.id <= Len(sent) /\ Table[Root][f.node] = 1
    BY <2>1, <1>3, <1>6 DEF IInv, Backplane, UpToSent
  <2>3. \A i \in 1 .. Len(handed[h]) : handed[h][i] < f.id
    BY <1>3, <1>6 DEF IInv, Backplane, HandedBefore
  <2>4. \A i \in 1 .. Len(hostRx) : Cmd(hostRx[i]) => f.id < hostRx[i].id
    BY <2>1, <1>3, <1>6 DEF IInv, Backplane, Before
  <2>5. ASSUME NEW i \in 1 .. Len(q[h]), Cmd(q[h][i]) PROVE f.id < q[h][i].id
    <3>1. i + 1 \in 1 .. Len(rx[h]) /\ 1 < i + 1 /\ q[h][i] = rx[h][i + 1]
      BY <2>5, <1>2, <1>3
    <3>2. Ordered(rx[h])
      BY <2>1 DEF IInv, Backplane
    <3> QED
      BY <3>1, <3>2, <2>5, <1>3, <1>6 DEF Ordered
  <2> QED
    BY <2>1, <2>2, <2>3, <2>4, <2>5
<1>7. ASSUME rx' \in Buffers, handed' \in [Hub -> Seq(Nat)], heard' \subseteq Frame
      PROVE  TypeOK' /\ HostLink'
  BY <1>1, <1>7 DEF IInv, TypeOK, Buffers, HostLink, UpToSent
<1>8. ASSUME rx' \in Buffers, Backplane(rx'), handed' = handed, heard' \subseteq Frame,
             NoCommandEchoed'
      PROVE  IInv'
  BY <1>1, <1>7, <1>8 DEF IInv, TypeOK, Backplane, UpToSent, Deliveries
<1>9. ASSUME DeliverLocal(h, f), rx' = q, UNCHANGED heard
      PROVE  IInv'
  <2>1. /\ handed' \in [Hub -> Seq(Nat)]
        /\ \A g \in Hub : /\ Increasing(handed'[g])
                           /\ \A i \in 1 .. Len(handed'[g]) : handed'[g][i] <= Len(sent)
        /\ \A g \in Hub : \A i \in 1 .. Len(handed'[g]) :
             \/ i \in 1 .. Len(handed[g]) /\ handed'[g][i] = handed[g][i]
             \/ g = h /\ Cmd(f) /\ handed'[g][i] = f.id
    BY <1>3, <1>6, <1>9, HandsOver
  <2>2. ASSUME NEW g \in Hub PROVE HandedBefore(handed'[g], q[g])
    BY <2>1, <1>4, <1>6 DEF Backplane, HandedBefore
  <2>3. ASSUME NEW g \in Hub PROVE HandedBefore(handed'[g], hostRx)
    BY <2>1, <1>6 DEF IInv, Deliveries, HandedBefore
  <2>4. Backplane(rx)'
    BY <2>2, <1>1, <1>4, <1>9 DEF Backplane, UpToSent
  <2>5. Deliveries'
    BY <2>1, <2>3, <1>1 DEF Deliveries
  <2> QED
    BY <2>1, <2>4, <2>5, <1>4, <1>7, <1>9 DEF IInv, TypeOK, NoCommandEchoed
<1>10. ASSUME f.node # h, ~Cmd(f), SendOnLink(h, Table[h][f.node], f, q), handed' = handed
       PROVE  IInv'
  BY <1>3, <1>4, <1>8, <1>10, SendSample
<1>11. ASSUME f.node # h, Cmd(f), SendOnLink(h, Table[h][f.node], f, q), handed' = handed
       PROVE  IInv'
  <2>1. PICK g \in Bus \ {Root} : Table[g][f.node] # 0
    BY <1>6, <1>11, TableAssumption
  <2>2. g = h
    BY <1>6, <1>11 DEF PointToPoint
  <2>3. rx' = q /\ UNCHANGED heard
    BY <2>1, <2>2, <1>6, <1>11 DEF SendOnLink
  <2> QED
    BY <2>3, <1>4, <1>8, <1>11 DEF IInv, TypeOK, NoCommandEchoed
<1> QED
  BY <1>1, <1>9, <1>10, <1>11 DEF Route

LEMMA EmitStep ==
  ASSUME IInv, NEW h \in Hub, Emit(h)
  PROVE  IInv'
<1> DEFINE f == [kind |-> "sample", node |-> h, id |-> emitted[h] + 1]
<1>1. f \in Frame /\ ~Cmd(f)
  BY DEF Frame, Node, Cmd, IInv, TypeOK
<1>2. rx \in Buffers /\ emitted' \in [Hub -> Nat]
  BY DEF IInv, TypeOK, Buffers, Emit
<1>3. /\ UNCHANGED <<pc, hostRx, sent, handed, disarms>> /\ SendOnLink(h, 0, f, rx)
      /\ missed' \in BOOLEAN
  BY MissedSend DEF Emit, IInv
<1> HIDE DEF f
<1>4. /\ rx' \in Buffers /\ Backplane(rx')
      /\ heard' \subseteq Frame /\ NoCommandEchoed'
  BY <1>1, <1>2, <1>3, SendSample DEF IInv
<1>5. TypeOK' /\ HostLink' /\ Deliveries'
  BY <1>2, <1>3, <1>4 DEF IInv, TypeOK, Buffers, HostLink, UpToSent, Deliveries
<1>6. Backplane(rx)'
  BY <1>3, <1>4 DEF Backplane, UpToSent
<1> QED
  BY <1>4, <1>5, <1>6 DEF IInv

(* The steps that only move a hub's loop on. *)
LEMMA LoopStep ==
  ASSUME IInv, pc' \in [Hub -> {"host", "backplane", "tasks"}],
         UNCHANGED <<hostRx, rx, sent, emitted, handed, heard, disarms, missed>>
  PROVE  IInv'
<1>1. TypeOK' /\ HostLink' /\ Deliveries' /\ NoCommandEchoed'
  BY DEF IInv, TypeOK, HostLink, UpToSent, Deliveries, NoCommandEchoed
<1>2. Backplane(rx)'
  BY DEF IInv, Backplane, UpToSent
<1> QED
  BY <1>1, <1>2 DEF IInv

LEMMA StepIInv == ASSUME PointToPoint, IInv, [Next]_vars PROVE IInv'
<1>1. ASSUME NEW h \in Hub, HostSend(h) PROVE IInv'
  BY <1>1, HostSendStep
<1>2. CASE HostDisarm
  BY <1>2, HostDisarmStep
<1>3. ASSUME NEW h \in Hub, PumpHost(h) PROVE IInv'
  BY <1>3, PumpHostStep
<1>4. ASSUME NEW h \in Hub, PumpBackplane(h) PROVE IInv'
  BY <1>4, PumpBackplaneStep
<1>5. ASSUME NEW h \in Hub, Emit(h) PROVE IInv'
  BY <1>5, EmitStep
<1>6. ASSUME NEW h \in Hub, HostDrained(h) \/ BackplaneDrained(h) \/ TasksDone(h)
      PROVE  IInv'
  <2>1. pc' \in [Hub -> {"host", "backplane", "tasks"}]
    BY <1>6 DEF IInv, TypeOK, HostDrained, BackplaneDrained, TasksDone
  <2> QED
    BY <2>1, <1>6, LoopStep DEF HostDrained, BackplaneDrained, TasksDone
<1>7. CASE UNCHANGED vars
  BY <1>7, LoopStep DEF vars, IInv, TypeOK
<1> QED
  BY <1>1, <1>2, <1>3, <1>4, <1>5, <1>6, <1>7 DEF Next, Loop

(* On a point-to-point backplane, under any loss: every hub gets its         *)
(* commands in the order LinkOwner sent them and none twice, which is what   *)
(* floor_tick's seq != last_seq test needs of the relay of router.c.         *)
THEOREM RelayInOrder == ASSUME PointToPoint PROVE Spec => []InOrderOnce
<1>1. IInv => InOrderOnce
  BY DEF IInv, Deliveries, InOrderOnce
<1> QED
  BY InitIInv, StepIInv, <1>1, PTL DEF Spec

(* There too, no command frame comes back up to the host, whose LinkOwner    *)
(* could not claim the slot it would have to write it to.                    *)
THEOREM RelayNoEcho == ASSUME PointToPoint PROVE Spec => []NoCommandEchoed
<1>1. IInv => NoCommandEchoed
  BY DEF IInv
<1> QED
  BY InitIInv, StepIInv, <1>1, PTL DEF Spec

(* Every state of the tree has its type, and no receive buffer overfills.    *)
THEOREM TreeTypeCorrect == ASSUME PointToPoint PROVE Spec => []TypeOK
<1>1. IInv => TypeOK
  BY DEF IInv
<1> QED
  BY InitIInv, StepIInv, <1>1, PTL DEF Spec

=============================================================================
