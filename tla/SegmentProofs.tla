--------------------------- MODULE SegmentProofs ---------------------------
(***************************************************************************)
(* What the reassembler promises for any number of devices, keys, slots    *)
(* and fragments, however the bus interleaves and loses them: whole bodies *)
(* in order, none that arrived unbroken withheld, and a slot for every key *)
(* when there are as many slots as keys.                                   *)
(***************************************************************************)
EXTENDS Segment, FiniteSetTheorems, TLAPS

LEMMA Appended ==
  ASSUME NEW S, NEW q \in Seq(S), NEW e \in S
  PROVE  /\ Append(q, e) \in Seq(S)
         /\ Len(Append(q, e)) = Len(q) + 1
         /\ \A i \in 1 .. Len(q) : Append(q, e)[i] = q[i]
         /\ Append(q, e)[Len(q) + 1] = e
  OBVIOUS

LEMMA HeadTail ==
  ASSUME NEW S, NEW q \in Seq(S), q # <<>>
  PROVE  /\ Head(q) \in S /\ Head(q) = q[1] /\ Len(q) \in Nat \ {0}
         /\ Tail(q) \in Seq(S) /\ Len(Tail(q)) = Len(q) - 1
         /\ \A i \in 1 .. Len(Tail(q)) :
              i + 1 \in 2 .. Len(q) /\ Tail(q)[i] = q[i + 1]
  OBVIOUS

LEMMA ElementOf ==
  ASSUME NEW S, NEW q \in Seq(S), NEW i \in 1 .. Len(q)
  PROVE  q[i] \in S /\ i \in Nat \ {0} /\ Len(q) \in Nat
  OBVIOUS

LEMMA Concatenated ==
  ASSUME NEW S, NEW a \in Seq(S), NEW b \in Seq(S)
  PROVE  /\ a \o b \in Seq(S) /\ Len(a \o b) = Len(a) + Len(b)
         /\ Len(a) \in Nat /\ Len(b) \in Nat
         /\ \A i \in 1 .. Len(a) : (a \o b)[i] = a[i]
         /\ \A i \in 1 .. Len(b) : (a \o b)[Len(a) + i] = b[i]
  OBVIOUS

LEMMA Remainders ==
  ASSUME NEW n \in Nat
  PROVE  n % SeqLoMod \in 0 .. SeqLoMod - 1 /\ n % SeqMod \in 0 .. SeqMod - 1
BY SizeAssumption

LEMMA Constants ==
  /\ MaxSlots \in Nat \ {0} /\ MaxFrags \in Nat \ {0}
  /\ SeqMod \in Nat \ {0} /\ SeqLoMod \in Nat \ {0}
  /\ OwnerOf \in [Key -> Device] /\ IsFiniteSet(Key)
  /\ Free \in SegBuffer /\ Free.active = FALSE
<1>2. (CHOOSE k \in Key : TRUE) \in Key
  BY KeyAssumption
<1>3. <<>> \in Seq(Piece)
  OBVIOUS
<1>4. 0 \in 0 .. SeqLoMod - 1
  BY SizeAssumption
<1>5. Free \in SegBuffer /\ Free.active = FALSE
  BY <1>2, <1>3, <1>4 DEF Free, SegBuffer
<1> QED
  BY <1>5, SizeAssumption, OwnerAssumption, KeyAssumption

----------------------------------------------------------------------------
(* Fragments and the queue.                                                 *)

LEMMA FragmentType ==
  ASSUME NEW k \in Key, NEW b \in Body, NEW i \in Nat
  PROVE  /\ Fragment(k, b, i) \in Frame
         /\ Fragment(k, b, i).key = k
         /\ Fragment(k, b, i).data.body = b
         /\ Fragment(k, b, i).data.part = i
<1>1. b.seq \in Nat
  BY Constants DEF Body
<1>2. b.seq % SeqLoMod \in 0 .. SeqLoMod - 1
  BY <1>1, Remainders
<1> QED
  BY <1>2 DEF Fragment, Frame, Piece

LEMMA FragmentsType ==
  ASSUME NEW k \in Key, NEW b \in Body, NEW m \in Nat
  PROVE  /\ Fragments(k, b, m) \in Seq(Frame)
         /\ Len(Fragments(k, b, m)) = m
         /\ \A i \in 1 .. m : Fragments(k, b, m)[i] = Fragment(k, b, i - 1)
<1>1. \A i \in 1 .. m : Fragment(k, b, i - 1) \in Frame
  <2> TAKE i \in 1 .. m
  <2>1. i - 1 \in Nat
    OBVIOUS
  <2> QED
    BY <2>1, FragmentType
<1>2. Fragments(k, b, m) \in [1 .. m -> Frame]
  BY <1>1 DEF Fragments
<1>3. Fragments(k, b, m) \in Seq(Frame) /\ Len(Fragments(k, b, m)) = m
  BY <1>2
<1> QED
  BY <1>3 DEF Fragments

\* What a frame at the head of a queue is.
HeadOf(d, f) ==
  /\ f = Head(tx[d]) /\ f \in Frame
  /\ OwnerOf[f.key] = d
  /\ f.first = (f.data.part = 0)
  /\ f.last = (f.data.part = f.data.body.len - 1)
  /\ f.idx = f.data.part
  /\ f.seqlo = f.data.body.seq % SeqLoMod
  /\ f.data.part < f.data.body.len
  /\ f.data.body.n <= made[f.key]
  /\ f.data \in Piece /\ f.data.body \in Body /\ f.data.part \in Nat
  /\ f.key \in Key

LEMMA HeadFacts ==
  ASSUME TypeOK, QueueInv, NEW d \in Device, tx[d] # <<>>
  PROVE  /\ HeadOf(d, Head(tx[d]))
         /\ \A j \in 2 .. Len(tx[d]) :
              tx[d][j].key = Head(tx[d]).key
                => Precedes(Head(tx[d]).data, tx[d][j].data)
<1> DEFINE f == Head(tx[d])
<1>1. tx[d] \in Seq(Frame)
  BY DEF TypeOK
<1>2. f \in Frame /\ f = tx[d][1] /\ Len(tx[d]) \in Nat \ {0}
  BY <1>1, HeadTail
<1>3. 1 \in 1 .. Len(tx[d])
  BY <1>2
<1>4. /\ OwnerOf[f.key] = d
      /\ f = Fragment(f.key, f.data.body, f.data.part)
      /\ f.data.part < f.data.body.len
      /\ f.data.body.n <= made[f.key]
      /\ \A j \in 2 .. Len(tx[d]) :
            tx[d][j].key = f.key => Precedes(f.data, tx[d][j].data)
  BY <1>2, <1>3 DEF QueueInv
<1>5. f.data \in Piece /\ f.data.body \in Body /\ f.data.part \in Nat /\ f.key \in Key
  BY <1>2 DEF Frame, Piece
<1> HIDE DEF f
<1>6. /\ f.first = (f.data.part = 0)
      /\ f.last = (f.data.part = f.data.body.len - 1)
      /\ f.idx = f.data.part
      /\ f.seqlo = f.data.body.seq % SeqLoMod
  BY <1>4 DEF Fragment
<1>7. HeadOf(d, f)
  BY <1>2, <1>4, <1>5, <1>6 DEF HeadOf, f
<1> QED
  BY <1>4, <1>7 DEF f

----------------------------------------------------------------------------
(* Types.                                                                   *)

LEMMA CopyType ==
  ASSUME TypeOK, NEW s \in Slots, NEW f \in Frame, NEW buf \in Seq(Piece),
         Copy(s, f, buf)
  PROVE  /\ slot' \in [Slots -> SegBuffer]
         /\ got' \in [Key -> Seq(Seq(Piece))]
         /\ failed' \in Seq(Piece)
<1> DEFINE whole == Append(buf, f.data)
<1>1. f.data \in Piece /\ f.key \in Key /\ f.seqlo \in 0 .. SeqLoMod - 1
  BY DEF Frame
<1>2. whole \in Seq(Piece)
  BY <1>1
<1> HIDE DEF whole
<1>3. [active |-> TRUE, key |-> f.key, seqlo |-> f.seqlo, buf |-> whole] \in SegBuffer
  BY <1>1, <1>2 DEF SegBuffer
<1>4. slot' \in [Slots -> SegBuffer]
  BY <1>3, Constants DEF Copy, TypeOK, whole
<1>5. got[f.key] \in Seq(Seq(Piece))
  BY <1>1 DEF TypeOK
<1>6. Append(got[f.key], whole) \in Seq(Seq(Piece))
  BY <1>2, <1>5
<1>7. got' \in [Key -> Seq(Seq(Piece))]
  BY <1>6 DEF Copy, TypeOK, whole
<1>8. failed' \in Seq(Piece)
  BY <1>2 DEF Copy, TypeOK, whole
<1> QED
  BY <1>4, <1>7, <1>8

LEMMA ReceivedType ==
  ASSUME TypeOK, NEW d \in Device, Received(d)
  PROVE  /\ tx' \in [Device -> Seq(Frame)] /\ seen' \in [Key -> Seq(Piece)]
         /\ Head(tx[d]) \in Frame
<1> DEFINE f == Head(tx[d])
<1>1. tx[d] \in Seq(Frame) /\ tx[d] # <<>>
  BY DEF TypeOK, Received
<1>2. f \in Frame /\ Tail(tx[d]) \in Seq(Frame)
  BY <1>1
<1>3. f.key \in Key /\ f.data \in Piece
  BY <1>2 DEF Frame
<1> HIDE DEF f
<1>4. seen[f.key] \in Seq(Piece)
  BY <1>3 DEF TypeOK
<1>5. <<f.data>> \in Seq(Piece) /\ Append(seen[f.key], f.data) \in Seq(Piece)
  BY <1>3, <1>4
<1>6. seen' = [seen EXCEPT ![f.key] = IF f.first THEN <<f.data>>
                                      ELSE Append(seen[f.key], f.data)]
  BY DEF Received, f
<1>7. seen' \in [Key -> Seq(Piece)]
  BY <1>5, <1>6 DEF TypeOK
<1>8. tx' \in [Device -> Seq(Frame)]
  BY <1>2 DEF TypeOK, Received
<1> QED
  BY <1>2, <1>7, <1>8 DEF f

LEMMA SendFacts ==
  ASSUME TypeOK, NEW k \in Key, NEW len \in 1 .. MaxFrags + 1, Send(k, len)
  PROVE  /\ made' = [made EXCEPT ![k] = made[k] + 1]
         /\ made[k] \in Nat
         /\ UNCHANGED <<nslots, slot, got, failed, seen, turned, boots>>
         /\ OwnerOf[k] \in Device
         /\ \/ tx' = tx
            \/ \E b \in Body, m \in Nat :
                  /\ b.n = made[k] + 1 /\ m <= b.len
                  /\ tx' = [tx EXCEPT ![OwnerOf[k]] = @ \o Fragments(k, b, m)]
<1> DEFINE b == [n |-> made[k] + 1, seq |-> seq[k], len |-> len]
<1>1. made[k] \in Nat /\ seq[k] \in 0 .. SeqMod - 1 /\ OwnerOf[k] \in Device
  BY Constants DEF TypeOK
<1>2. /\ made' = [made EXCEPT ![k] = made[k] + 1]
      /\ UNCHANGED <<nslots, slot, got, failed, seen, turned, boots>>
  BY DEF Send
<1>3. \/ tx' = tx
      \/ /\ len <= MaxFrags
         /\ \E m \in 0 .. len :
              tx' = [tx EXCEPT ![OwnerOf[k]] = @ \o Fragments(k, b, m)]
  BY DEF Send
<1>4. ASSUME len <= MaxFrags, NEW m \in 0 .. len,
             tx' = [tx EXCEPT ![OwnerOf[k]] = @ \o Fragments(k, b, m)]
      PROVE  \E c \in Body, i \in Nat :
               /\ c.n = made[k] + 1 /\ i <= c.len
               /\ tx' = [tx EXCEPT ![OwnerOf[k]] = @ \o Fragments(k, c, i)]
  <2>1. len \in 1 .. MaxFrags /\ made[k] + 1 \in Nat \ {0}
    BY <1>1, <1>4, Constants
  <2>2. b \in Body /\ b.n = made[k] + 1 /\ b.len = len
    BY <1>1, <2>1 DEF Body
  <2>3. m \in Nat /\ m <= b.len
    BY <2>1, <2>2
  <2> HIDE DEF b
  <2> QED
    BY <1>4, <2>2, <2>3
<1> HIDE DEF b
<1> QED
  BY <1>1, <1>2, <1>3, <1>4

LEMMA SendType ==
  ASSUME TypeOK, NEW k \in Key, NEW len \in 1 .. MaxFrags + 1, Send(k, len)
  PROVE  TypeOK'
<1>1. tx' \in [Device -> Seq(Frame)]
  <2>1. CASE tx' = tx
    BY <2>1 DEF TypeOK
  <2>2. ASSUME NEW b \in Body, NEW m \in Nat,
               tx' = [tx EXCEPT ![OwnerOf[k]] = @ \o Fragments(k, b, m)]
        PROVE  tx' \in [Device -> Seq(Frame)]
    <3>1. tx[OwnerOf[k]] \in Seq(Frame) /\ Fragments(k, b, m) \in Seq(Frame)
      BY FragmentsType, Constants DEF TypeOK
    <3>2. tx[OwnerOf[k]] \o Fragments(k, b, m) \in Seq(Frame)
      BY <3>1
    <3> QED
      BY <2>2, <3>2 DEF TypeOK
  <2> QED
    BY <2>1, <2>2, SendFacts
<1>2. seq[k] \in Nat /\ made[k] \in Nat
  BY Constants DEF TypeOK
<1>3. (seq[k] + 1) % SeqMod \in 0 .. SeqMod - 1
  <2>1. seq[k] + 1 \in Nat
    BY <1>2
  <2> QED
    BY <2>1, Remainders
<1>4. seq' \in [Key -> 0 .. SeqMod - 1] /\ made' \in [Key -> Nat]
  BY <1>2, <1>3 DEF TypeOK, Send
<1> QED
  BY <1>1, <1>4 DEF TypeOK, Send

LEMMA TypeNext ==
  ASSUME TypeOK, [Next]_vars
  PROVE  TypeOK'
<1>1. CASE UNCHANGED vars
  BY <1>1 DEF TypeOK, vars
<1>2. ASSUME NEW k \in Key, NEW len \in 1 .. MaxFrags + 1, Send(k, len)
      PROVE  TypeOK'
  BY <1>2, SendType
<1>3. ASSUME NEW d \in Device, Reboot(d)
      PROVE  TypeOK'
  <2>1. <<>> \in Seq(Frame)
    OBVIOUS
  <2>2. seq' \in [Key -> 0 .. SeqMod - 1]
    <3>1. 0 \in 0 .. SeqMod - 1
      BY Constants
    <3> QED
      BY <1>3, <3>1 DEF TypeOK, Reboot
  <2> QED
    BY <1>3, <2>1, <2>2 DEF TypeOK, Reboot
<1>4. ASSUME NEW d \in Device, Lose(d)
      PROVE  TypeOK'
  <2>1. tx[d] \in Seq(Frame) /\ tx[d] # <<>>
    BY <1>4 DEF TypeOK, Lose
  <2>2. Tail(tx[d]) \in Seq(Frame)
    BY <2>1
  <2> QED
    BY <1>4, <2>2 DEF TypeOK, Lose
<1>5. ASSUME NEW d \in Device, Seed(d)
      PROVE  TypeOK'
  <2> DEFINE f == Head(tx[d])
  <2>1. PICK s \in 1 .. nslots : Copy(s, f, <<>>)
    BY <1>5 DEF Seed
  <2>2. s \in Slots /\ <<>> \in Seq(Piece)
    BY Constants DEF TypeOK, Slots
  <2>3. Received(d) /\ f \in Frame
    BY <1>5, ReceivedType DEF Seed
  <2>4. turned' \in [Key -> BOOLEAN]
    BY <1>5 DEF Seed, TypeOK
  <2> HIDE DEF f
  <2> QED
    BY <2>1, <2>2, <2>3, <2>4, CopyType, ReceivedType DEF TypeOK, Received
<1>6. ASSUME NEW d \in Device, TurnAway(d)
      PROVE  TypeOK'
  <2>1. Received(d) /\ turned' \in [Key -> BOOLEAN]
    BY <1>6 DEF TurnAway, TypeOK
  <2> QED
    BY <1>6, <2>1, ReceivedType DEF TypeOK, TurnAway, Received
<1>7. ASSUME NEW d \in Device, Orphan(d)
      PROVE  TypeOK'
  <2>1. Received(d)
    BY <1>7 DEF Orphan
  <2> QED
    BY <1>7, <2>1, ReceivedType DEF TypeOK, Orphan, Received
<1>8. ASSUME NEW d \in Device, Extend(d)
      PROVE  TypeOK'
  <2> DEFINE f == Head(tx[d])
  <2>1. PICK s \in 1 .. nslots : Copy(s, f, slot[s].buf)
    BY <1>8 DEF Extend
  <2>2. s \in Slots
    BY Constants DEF TypeOK, Slots
  <2>3. slot[s].buf \in Seq(Piece)
    BY <2>2 DEF TypeOK, SegBuffer
  <2>4. Received(d) /\ f \in Frame
    BY <1>8, ReceivedType DEF Extend
  <2> HIDE DEF f
  <2> QED
    BY <1>8, <2>1, <2>2, <2>3, <2>4, CopyType, ReceivedType
       DEF TypeOK, Received, Extend
<1>9. ASSUME NEW d \in Device, Mismatch(d)
      PROVE  TypeOK'
  <2>1. Received(d)
    BY <1>9 DEF Mismatch
  <2>2. slot' \in [Slots -> SegBuffer]
    BY <1>9, Constants DEF Mismatch, TypeOK
  <2> QED
    BY <1>9, <2>1, <2>2, ReceivedType DEF TypeOK, Mismatch, Received
<1>10. CASE ReceiverBoot
  <2>1. <<>> \in Seq(Piece)
    OBVIOUS
  <2> QED
    BY <1>10, <2>1, Constants DEF TypeOK, ReceiverBoot
<1> QED
  BY <1>1, <1>2, <1>3, <1>4, <1>5, <1>6, <1>7, <1>8, <1>9, <1>10 DEF Next

----------------------------------------------------------------------------
(* The queues.                                                              *)

\* QueueInv of one queue q of device d, when m counts the bodies made.
FrameOk(f, d, m) ==
  /\ OwnerOf[f.key] = d
  /\ f = Fragment(f.key, f.data.body, f.data.part)
  /\ f.data.part < f.data.body.len
  /\ f.data.body.n <= m[f.key]

QueueOk(q, d, m) ==
  \A i \in 1 .. Len(q) :
    /\ FrameOk(q[i], d, m)
    /\ \A j \in i + 1 .. Len(q) :
          q[j].key = q[i].key => Precedes(q[i].data, q[j].data)

LEMMA QueueTail ==
  ASSUME NEW q \in Seq(Frame), q # <<>>, NEW d, NEW m, QueueOk(q, d, m)
  PROVE  QueueOk(Tail(q), d, m)
<1> DEFINE t == Tail(q)
<1>1. /\ Len(t) = Len(q) - 1 /\ Len(q) \in Nat \ {0}
      /\ \A i \in 1 .. Len(t) : i + 1 \in 2 .. Len(q) /\ t[i] = q[i + 1]
  BY HeadTail
<1> HIDE DEF t
<1>2. ASSUME NEW i \in 1 .. Len(t) PROVE FrameOk(t[i], d, m)
  BY <1>1, <1>2 DEF QueueOk
<1>3. ASSUME NEW i \in 1 .. Len(t), NEW j \in i + 1 .. Len(t), t[j].key = t[i].key
      PROVE  Precedes(t[i].data, t[j].data)
  <2>1. j \in 1 .. Len(t) /\ i + 1 \in 1 .. Len(q) /\ j + 1 \in (i + 1) + 1 .. Len(q)
    BY <1>1
  <2>2. t[i] = q[i + 1] /\ t[j] = q[j + 1]
    BY <2>1, <1>1
  <2> QED
    BY <1>3, <2>1, <2>2 DEF QueueOk
<1> QED
  BY <1>2, <1>3 DEF QueueOk, t

LEMMA QueueAppend ==
  ASSUME NEW q \in Seq(Frame), NEW d, NEW m \in [Key -> Nat], QueueOk(q, d, m),
         NEW k \in Key, NEW b \in Body, NEW l \in Nat,
         OwnerOf[k] = d, b.n = m[k] + 1, l <= b.len
  PROVE  QueueOk(q \o Fragments(k, b, l), d, [m EXCEPT ![k] = m[k] + 1])
<1> DEFINE e == Fragments(k, b, l)
<1> DEFINE r == q \o e
<1> DEFINE mm == [m EXCEPT ![k] = m[k] + 1]
<1>1. /\ e \in Seq(Frame) /\ Len(e) = l
      /\ \A i \in 1 .. l : e[i] = Fragment(k, b, i - 1)
  BY FragmentsType
<1> HIDE DEF e
<1>2. /\ r \in Seq(Frame) /\ Len(r) = Len(q) + l /\ Len(q) \in Nat
      /\ \A i \in 1 .. Len(q) : r[i] = q[i]
      /\ \A i \in 1 .. l : r[Len(q) + i] = e[i]
  <2>1. /\ r \in Seq(Frame) /\ Len(r) = Len(q) + Len(e) /\ Len(q) \in Nat
        /\ \A i \in 1 .. Len(q) : r[i] = q[i]
        /\ \A i \in 1 .. Len(e) : r[Len(q) + i] = e[i]
    <3>1. e \in Seq(Frame)
      BY <1>1
    <3>2. r \in Seq(Frame) /\ Len(r) = Len(q) + Len(e) /\ Len(q) \in Nat
      BY <3>1
    <3>3. \A i \in 1 .. Len(q) : r[i] = q[i]
      BY <3>1
    <3>4. \A i \in 1 .. Len(e) : r[Len(q) + i] = e[i]
      BY <3>1
    <3> QED
      BY <3>2, <3>3, <3>4
  <2> QED
    BY <2>1, <1>1
<1>3. mm \in [Key -> Nat] /\ mm[k] = b.n /\ \A x \in Key : m[x] <= mm[x]
  OBVIOUS
<1> HIDE DEF r, mm
<1>4. ASSUME NEW i \in 1 .. Len(q) PROVE FrameOk(r[i], d, mm)
  <2>1. q[i] \in Frame /\ FrameOk(q[i], d, m)
    BY ElementOf DEF QueueOk
  <2>2. q[i].key \in Key /\ q[i].data.body.n \in Nat
    BY <2>1 DEF Frame, Piece, Body
  <2>3. m[q[i].key] <= mm[q[i].key] /\ m[q[i].key] \in Nat /\ mm[q[i].key] \in Nat
    BY <2>2, <1>3
  <2>4. q[i].data.body.n <= m[q[i].key]
    BY <2>1 DEF FrameOk
  <2>5. q[i].data.body.n <= mm[q[i].key]
    BY <2>2, <2>3, <2>4
  <2> QED
    BY <2>1, <2>5, <1>2 DEF FrameOk
<1>5. ASSUME NEW i \in 1 .. l
      PROVE  /\ r[Len(q) + i] = Fragment(k, b, i - 1)
             /\ r[Len(q) + i].key = k /\ r[Len(q) + i].data.body = b
             /\ r[Len(q) + i].data.part = i - 1
             /\ FrameOk(r[Len(q) + i], d, mm)
  <2> DEFINE f == Fragment(k, b, i - 1)
  <2>1. i - 1 \in Nat /\ r[Len(q) + i] = f
    <3>1. i - 1 \in Nat
      OBVIOUS
    <3>2. r[Len(q) + i] = e[i] /\ e[i] = f
      BY <1>1, <1>2
    <3> QED
      BY <3>1, <3>2
  <2>2. f.key = k /\ f.data.body = b /\ f.data.part = i - 1
    BY <2>1, FragmentType
  <2>3. i - 1 < b.len
    BY DEF Body
  <2>4. b.n <= mm[k]
    BY <1>3 DEF Body
  <2>5. f = Fragment(f.key, f.data.body, f.data.part)
    BY <2>2
  <2> HIDE DEF f
  <2>6. FrameOk(f, d, mm)
    BY <2>2, <2>3, <2>4, <2>5 DEF FrameOk
  <2> QED
    BY <2>1, <2>2, <2>6 DEF f
<1>6. ASSUME NEW i \in 1 .. Len(r) PROVE i \in 1 .. Len(q) \/ \E x \in 1 .. l : i = Len(q) + x
  <2>1. CASE i <= Len(q)
    BY <2>1, <1>2
  <2>2. CASE i > Len(q)
    <3>1. i - Len(q) \in 1 .. l /\ i = Len(q) + (i - Len(q))
      BY <2>2, <1>2
    <3> QED
      BY <3>1
  <2> QED
    BY <2>1, <2>2, <1>2
<1>7. ASSUME NEW i \in 1 .. Len(r) PROVE FrameOk(r[i], d, mm)
  BY <1>4, <1>5, <1>6
<1>8. ASSUME NEW i \in 1 .. Len(r), NEW j \in i + 1 .. Len(r), r[j].key = r[i].key
      PROVE  Precedes(r[i].data, r[j].data)
  <2>1. j \in 1 .. Len(r) /\ i \in Nat /\ j \in Nat /\ i < j
    BY <1>2
  <2>2. CASE j \in 1 .. Len(q)
    <3>1. i \in 1 .. Len(q) /\ j \in i + 1 .. Len(q)
      BY <2>1, <2>2, <1>2
    <3> QED
      BY <3>1, <1>2, <1>8 DEF QueueOk
  <2>3. ASSUME NEW y \in 1 .. l, j = Len(q) + y PROVE Precedes(r[i].data, r[j].data)
    <3>1. r[j].key = k /\ r[j].data.body = b /\ r[j].data.part = y - 1
      BY <2>3, <1>5
    <3>2. CASE i \in 1 .. Len(q)
      <4>1. q[i] \in Frame /\ FrameOk(q[i], d, m) /\ r[i] = q[i]
        BY <3>2, <1>2, ElementOf DEF QueueOk
      <4>2. q[i].key = k /\ q[i].data.body.n \in Nat
        BY <4>1, <3>1, <1>8 DEF Frame, Piece, Body
      <4>3. q[i].data.body.n <= m[k]
        BY <4>1, <4>2 DEF FrameOk
      <4>4. q[i].data.body.n < b.n
        BY <4>2, <4>3
      <4> QED
        BY <4>1, <4>4, <3>1 DEF Precedes
    <3>3. ASSUME NEW x \in 1 .. l, i = Len(q) + x PROVE Precedes(r[i].data, r[j].data)
      <4>1. r[i].data.body = b /\ r[i].data.part = x - 1
        BY <3>3, <1>5
      <4>2. x - 1 < y - 1
        BY <2>1, <2>3, <3>3, <1>2
      <4> QED
        BY <4>1, <4>2, <3>1 DEF Precedes
    <3> QED
      BY <3>2, <3>3, <1>6
  <2> QED
    BY <2>1, <2>2, <2>3, <1>6
<1> QED
  BY <1>7, <1>8 DEF QueueOk, r, e, mm

LEMMA QueueByDevice ==
  /\ QueueInv <=> \A d \in Device : QueueOk(tx[d], d, made)
  /\ QueueInv' <=> \A d \in Device : QueueOk(tx'[d], d, made')
BY DEF QueueInv, QueueOk, FrameOk

LEMMA QueueNext ==
  ASSUME TypeOK, QueueInv, [Next]_vars
  PROVE  QueueInv'
<1> USE QueueByDevice
<1>1. CASE UNCHANGED <<tx, made>>
  BY <1>1
<1>2. ASSUME NEW d \in Device, tx[d] # <<>>, made' = made,
             tx' = [tx EXCEPT ![d] = Tail(tx[d])]
      PROVE  QueueInv'
  <2>1. \A x \in Device : tx[x] \in Seq(Frame) /\ QueueOk(tx[x], x, made)
    BY DEF TypeOK
  <2>2. QueueOk(Tail(tx[d]), d, made)
    BY <1>2, <2>1, QueueTail
  <2> QED
    BY <1>2, <2>1, <2>2 DEF TypeOK
<1>3. ASSUME NEW k \in Key, NEW len \in 1 .. MaxFrags + 1, Send(k, len)
      PROVE  QueueInv'
  <2>1. \A x \in Device : tx[x] \in Seq(Frame) /\ QueueOk(tx[x], x, made)
    BY DEF TypeOK
  <2>2. made \in [Key -> Nat] /\ made' = [made EXCEPT ![k] = made[k] + 1]
    BY <1>3, SendFacts DEF TypeOK
  <2>3. ASSUME NEW x \in Device, NEW i \in 1 .. Len(tx[x])
        PROVE  FrameOk(tx[x][i], x, made')
    <3>1. tx[x][i] \in Frame /\ FrameOk(tx[x][i], x, made)
      BY <2>1, ElementOf DEF QueueOk
    <3>2. tx[x][i].key \in Key /\ tx[x][i].data.body.n \in Nat
      BY <3>1 DEF Frame, Piece, Body
    <3>3. /\ made[tx[x][i].key] \in Nat /\ made'[tx[x][i].key] \in Nat
          /\ made[tx[x][i].key] <= made'[tx[x][i].key]
      BY <3>2, <2>2
    <3>4. tx[x][i].data.body.n <= made[tx[x][i].key]
      BY <3>1 DEF FrameOk
    <3>5. tx[x][i].data.body.n <= made'[tx[x][i].key]
      BY <3>2, <3>3, <3>4
    <3> QED
      BY <3>1, <3>5 DEF FrameOk
  <2>4. \A x \in Device : QueueOk(tx[x], x, made')
    BY <2>1, <2>3 DEF QueueOk
  <2>5. CASE tx' = tx
    BY <2>4, <2>5
  <2>6. ASSUME NEW b \in Body, NEW l \in Nat, b.n = made[k] + 1, l <= b.len,
               tx' = [tx EXCEPT ![OwnerOf[k]] = @ \o Fragments(k, b, l)]
        PROVE  QueueInv'
    <3>1. OwnerOf[k] \in Device
      BY Constants
    <3>2. QueueOk(tx[OwnerOf[k]] \o Fragments(k, b, l), OwnerOf[k], made')
      BY <2>1, <2>2, <2>6, <3>1, QueueAppend
    <3> QED
      BY <2>4, <2>6, <3>1, <3>2 DEF TypeOK
  <2> QED
    BY <1>3, <2>5, <2>6, SendFacts
<1>4. ASSUME NEW d \in Device, Reboot(d)
      PROVE  QueueInv'
  <2>1. \A x \in Device : tx'[x] = <<>> \/ tx'[x] = tx[x]
    BY <1>4 DEF Reboot, TypeOK
  <2>2. \A x \in Device : QueueOk(<<>>, x, made)
    BY DEF QueueOk
  <2>3. made' = made
    BY <1>4 DEF Reboot
  <2> QED
    BY <2>1, <2>2, <2>3
<1> QED
  BY <1>1, <1>2, <1>3, <1>4 DEF Next, vars, Lose, Seed, TurnAway, Orphan, Extend,
     Mismatch, ReceiverBoot, Received

----------------------------------------------------------------------------
(* The slots.                                                               *)

LEMMA BufferGrows ==
  ASSUME NEW buf \in Seq(Piece), NEW p \in Piece, NEW lo,
         OneSeqLo(buf, lo), p.part = Len(buf), p.body.seq % SeqLoMod = lo
  PROVE  OneSeqLo(Append(buf, p), lo)
<1> DEFINE w == Append(buf, p)
<1>1. /\ Len(w) = Len(buf) + 1 /\ w[Len(buf) + 1] = p /\ Len(buf) \in Nat
      /\ \A i \in 1 .. Len(buf) : w[i] = buf[i]
  BY Appended
<1> HIDE DEF w
<1>2. ASSUME NEW i \in 1 .. Len(w)
      PROVE  w[i].part = i - 1 /\ w[i].body.seq % SeqLoMod = lo
  <2>1. CASE i \in 1 .. Len(buf)
    BY <2>1, <1>1 DEF OneSeqLo
  <2>2. CASE i = Len(buf) + 1
    BY <2>2, <1>1
  <2> QED
    BY <2>1, <2>2, <1>1
<1> QED
  BY <1>2 DEF OneSeqLo, w

\* With one SEQLO and all its parts, a buffer fails only for a second body.
LEMMA MixedWhenRefused ==
  ASSUME NEW w \in Seq(Piece), w # <<>>, NEW lo, OneSeqLo(w, lo), ~CrcOk(w),
         w[Len(w)].part = w[Len(w)].body.len - 1
  PROVE  /\ OneSeqLo(w, w[1].body.seq % SeqLoMod)
         /\ \E i \in 1 .. Len(w) : w[i].body # w[1].body
<1>1. Len(w) \in Nat \ {0} /\ 1 \in 1 .. Len(w) /\ Len(w) \in 1 .. Len(w)
  OBVIOUS
<1>2. w[1].body.seq % SeqLoMod = lo
  BY <1>1 DEF OneSeqLo
<1>3. ASSUME \A i \in 1 .. Len(w) : w[i].body = w[1].body
      PROVE  FALSE
  <2>1. ASSUME NEW i \in 1 .. Len(w)
        PROVE  w[i] = [body |-> w[1].body, part |-> i - 1]
    <3>1. w[i] \in Piece
      OBVIOUS
    <3>2. w[i] = [body |-> w[i].body, part |-> w[i].part]
      BY <3>1 DEF Piece
    <3> QED
      BY <3>2, <1>3 DEF OneSeqLo
  <2>2. w[Len(w)].part = Len(w) - 1 /\ w[Len(w)].body = w[1].body
    BY <1>1, <1>3 DEF OneSeqLo
  <2>3. w[1] \in Piece
    BY <1>1
  <2>4. w[1].body.len \in Nat
    BY <2>3, Constants DEF Piece, Body
  <2>5. Len(w) = w[1].body.len
    BY <2>2, <2>4, <1>1
  <2> QED
    BY <2>1, <2>5 DEF CrcOk
<1> QED
  BY <1>2, <1>3

\* No other slot is bound to k.
OthersFree(s, k) == \A t \in Slots \ {s} : slot[t].active => slot[t].key # k

LEMMA SeededAlone ==
  ASSUME TypeOK, SlotInv, NEW s \in 1 .. nslots, NEW k \in Key, Seeds(s, k)
  PROVE  OthersFree(s, k) /\ s \in Slots /\ (~slot[s].active \/ slot[s].key = k)
<1>1. s \in Slots /\ nslots \in Nat
  BY Constants DEF TypeOK, Slots
<1>2. CASE Bound(s, k)
  BY <1>1, <1>2 DEF Bound, SlotInv, OthersFree
<1>3. CASE Unbound(k) /\ FreeSlot(s)
  <2>1. ASSUME NEW t \in Slots, slot[t].active, slot[t].key = k PROVE FALSE
    <3>1. t \in 1 .. nslots
      BY <1>1, <2>1 DEF SlotInv, Slots
    <3> QED
      BY <3>1, <2>1, <1>3 DEF Unbound, Bound
  <2> QED
    BY <2>1, <1>1, <1>3 DEF OthersFree, FreeSlot
<1> QED
  BY <1>2, <1>3 DEF Seeds

LEMMA BoundAlone ==
  ASSUME TypeOK, SlotInv, NEW s \in 1 .. nslots, NEW k \in Key, Bound(s, k)
  PROVE  /\ OthersFree(s, k) /\ s \in Slots /\ slot[s].active /\ slot[s].key = k
         /\ slot[s].buf \in Seq(Piece) /\ OneSeqLo(slot[s].buf, slot[s].seqlo)
<1>1. s \in Slots /\ nslots \in Nat
  BY Constants DEF TypeOK, Slots
<1>2. slot[s].buf \in Seq(Piece)
  BY <1>1 DEF TypeOK, SegBuffer
<1> QED
  BY <1>1, <1>2 DEF Bound, SlotInv, OthersFree

LEMMA CopySlots ==
  ASSUME TypeOK, SlotInv, OnlyAliasesFailCrc, nslots' = nslots,
         NEW d, NEW f, HeadOf(d, f), NEW s \in 1 .. nslots, NEW buf \in Seq(Piece),
         s \in Slots, OthersFree(s, f.key), OneSeqLo(buf, f.seqlo),
         f.data.part = Len(buf), Copy(s, f, buf)
  PROVE  SlotInv' /\ OnlyAliasesFailCrc'
<1> DEFINE w == Append(buf, f.data)
<1>1. /\ f.data \in Piece /\ f.key \in Key /\ f.data.body.seq % SeqLoMod = f.seqlo
      /\ f.last = (f.data.part = f.data.body.len - 1)
  BY DEF HeadOf
<1>2. OneSeqLo(w, f.seqlo)
  BY <1>1, BufferGrows
<1>3. w \in Seq(Piece) /\ w # <<>> /\ Len(w) = Len(buf) + 1 /\ w[Len(w)] = f.data
  BY <1>1, Appended
<1>4. /\ f.last => slot' = [slot EXCEPT ![s] = Free]
      /\ ~f.last => slot' = [slot EXCEPT ![s] =
            [active |-> TRUE, key |-> f.key, seqlo |-> f.seqlo, buf |-> w]]
      /\ failed' = failed \/ (f.last /\ ~CrcOk(w) /\ failed' = w)
  BY DEF Copy
<1> HIDE DEF w
<1>5. slot \in [Slots -> SegBuffer] /\ nslots \in Nat /\ s <= nslots
  BY Constants DEF TypeOK, Slots
<1>6. SlotInv'
  <2>1. CASE f.last
    <3>1. ~slot'[s].active /\ \A t \in Slots \ {s} : slot'[t] = slot[t]
      BY <2>1, <1>4, <1>5, Constants
    <3> QED
      BY <3>1 DEF SlotInv
  <2>2. CASE ~f.last
    <3>1. /\ slot'[s].active /\ slot'[s].key = f.key
          /\ slot'[s].seqlo = f.seqlo /\ slot'[s].buf = w
          /\ \A t \in Slots \ {s} : slot'[t] = slot[t]
      BY <2>2, <1>4, <1>5
    <3> QED
      BY <3>1, <1>2, <1>3, <1>5 DEF SlotInv, OthersFree
  <2> QED
    BY <2>1, <2>2, <1>1
<1>7. OnlyAliasesFailCrc'
  <2>1. CASE failed' = failed
    BY <2>1 DEF OnlyAliasesFailCrc
  <2>2. CASE f.last /\ ~CrcOk(w) /\ failed' = w
    <3>1. w[Len(w)].part = w[Len(w)].body.len - 1
      BY <2>2, <1>1, <1>3
    <3>2. /\ OneSeqLo(w, w[1].body.seq % SeqLoMod)
          /\ \E i \in 1 .. Len(w) : w[i].body # w[1].body
      BY <3>1, <2>2, <1>2, <1>3, MixedWhenRefused
    <3> QED
      BY <3>2, <2>2 DEF OnlyAliasesFailCrc
  <2> QED
    BY <2>1, <2>2, <1>4
<1> QED
  BY <1>6, <1>7

LEMMA EmptyBuffer ==
  ASSUME NEW lo
  PROVE  <<>> \in Seq(Piece) /\ Len(<<>>) = 0 /\ OneSeqLo(<<>>, lo)
BY DEF OneSeqLo

LEMMA SlotNext ==
  ASSUME TypeOK, QueueInv, SlotInv, OnlyAliasesFailCrc, [Next]_vars
  PROVE  SlotInv' /\ OnlyAliasesFailCrc'
<1>1. CASE UNCHANGED <<nslots, slot, failed>>
  BY <1>1 DEF SlotInv, OnlyAliasesFailCrc
<1>2. ASSUME NEW d \in Device, Seed(d)
      PROVE  SlotInv' /\ OnlyAliasesFailCrc'
  <2> DEFINE f == Head(tx[d])
  <2>1. tx[d] # <<>> /\ nslots' = nslots /\ f.first
    BY <1>2 DEF Seed, Received
  <2>2. HeadOf(d, f)
    BY <2>1, HeadFacts
  <2>3. PICK s \in 1 .. nslots : Seeds(s, f.key) /\ Copy(s, f, <<>>)
    BY <1>2 DEF Seed
  <2> HIDE DEF f
  <2>4. f.key \in Key /\ f.data.part = 0
    BY <2>1, <2>2 DEF HeadOf
  <2>5. OthersFree(s, f.key) /\ s \in Slots
    BY <2>3, <2>4, SeededAlone
  <2> QED
    BY <2>1, <2>2, <2>3, <2>4, <2>5, EmptyBuffer, CopySlots
<1>3. ASSUME NEW d \in Device, Extend(d)
      PROVE  SlotInv' /\ OnlyAliasesFailCrc'
  <2> DEFINE f == Head(tx[d])
  <2>1. tx[d] # <<>> /\ nslots' = nslots
    BY <1>3 DEF Extend, Received
  <2>2. HeadOf(d, f)
    BY <2>1, HeadFacts
  <2>3. PICK s \in 1 .. nslots :
          Bound(s, f.key) /\ Fits(s, f) /\ Copy(s, f, slot[s].buf)
    BY <1>3 DEF Extend
  <2> HIDE DEF f
  <2>4. f.key \in Key /\ f.idx = f.data.part
    BY <2>2 DEF HeadOf
  <2>5. /\ OthersFree(s, f.key) /\ s \in Slots /\ slot[s].buf \in Seq(Piece)
        /\ OneSeqLo(slot[s].buf, slot[s].seqlo)
    BY <2>3, <2>4, BoundAlone
  <2>6. f.data.part = Len(slot[s].buf) /\ f.seqlo = slot[s].seqlo
    BY <2>3, <2>4 DEF Fits
  <2> QED
    BY <2>1, <2>2, <2>3, <2>5, <2>6, CopySlots
<1>4. ASSUME NEW d \in Device, Mismatch(d)
      PROVE  SlotInv' /\ OnlyAliasesFailCrc'
  <2>1. PICK s : slot' = [slot EXCEPT ![s] = Free]
    BY <1>4 DEF Mismatch
  <2>2. nslots' = nslots /\ failed' = failed /\ slot \in [Slots -> SegBuffer]
    BY <1>4 DEF Mismatch, Received, TypeOK
  <2>3. \A t \in Slots : slot'[t] = slot[t] \/ ~slot'[t].active
    BY <2>1, <2>2, Constants
  <2> QED
    BY <2>2, <2>3 DEF SlotInv, OnlyAliasesFailCrc
<1>5. CASE ReceiverBoot
  <2>1. \A t \in Slots : ~slot'[t].active
    BY <1>5, Constants DEF ReceiverBoot
  <2> QED
    BY <2>1, <1>5 DEF SlotInv, OnlyAliasesFailCrc, ReceiverBoot
<1> QED
  BY <1>1, <1>2, <1>3, <1>4, <1>5 DEF Next, vars, Send, Reboot, Lose, TurnAway,
     Orphan, Received

----------------------------------------------------------------------------
(* Slot pressure.                                                           *)

\* Every slot bound to a key of its own, none of them k: the keys outnumber
\* the slots.
LEMMA Crowded ==
  ASSUME TypeOK, SlotInv, NEW k \in Key, ~ \E s \in 1 .. nslots : Seeds(s, k)
  PROVE  nslots < Cardinality(Key)
<1>1. nslots \in Nat \ {0} /\ (1 .. nslots) \subseteq Slots
  BY Constants DEF TypeOK, Slots
<1>2. \A s \in 1 .. nslots : ~Bound(s, k)
  BY DEF Seeds
<1>3. \A s \in 1 .. nslots : slot[s].active
  BY <1>2 DEF Seeds, Unbound, FreeSlot
<1>4. \A s \in 1 .. nslots : slot[s].key \in Key \ {k}
  BY <1>1, <1>2, <1>3 DEF Bound, TypeOK, SegBuffer
<1> DEFINE g == [s \in 1 .. nslots |-> slot[s].key]
<1>5. g \in [1 .. nslots -> Key \ {k}]
  BY <1>4
<1>6. /\ IsFiniteSet(Key \ {k}) /\ Cardinality(Key \ {k}) = Cardinality(Key) - 1
      /\ IsFiniteSet(Key)
  BY Constants, FS_RemoveElement
<1>7. IsFiniteSet(1 .. nslots) /\ Cardinality(1 .. nslots) = nslots
  BY <1>1, FS_Interval
<1>8. Cardinality(Key) \in Nat
  BY <1>6, FS_CardinalityType
<1>9. \A s, t \in 1 .. nslots : s # t => g[s] # g[t]
  BY <1>1, <1>3 DEF SlotInv
<1> HIDE DEF g
<1>10. ~(Cardinality(Key \ {k}) < Cardinality(1 .. nslots))
  <2>1. ASSUME Cardinality(Key \ {k}) < Cardinality(1 .. nslots) PROVE FALSE
    <3>1. \E x, y \in 1 .. nslots : x # y /\ g[x] = g[y]
      BY <1>5, <1>6, <1>7, <2>1, FS_PigeonHole
    <3> QED
      BY <3>1, <1>9
  <2> QED
    BY <2>1
<1> QED
  BY <1>1, <1>6, <1>7, <1>8, <1>10

LEMMA TurnedNext ==
  ASSUME TypeOK, QueueInv, SlotInv, TurnedOnlyWhenCrowded, [Next]_vars
  PROVE  TurnedOnlyWhenCrowded'
<1>1. nslots' = nslots
  BY DEF Next, vars, Send, Reboot, Lose, Seed, TurnAway, Orphan, Extend, Mismatch,
     Received, ReceiverBoot
<1>2. ASSUME NEW d \in Device, TurnAway(d)
      PROVE  TurnedOnlyWhenCrowded'
  <2> DEFINE f == Head(tx[d])
  <2>1. f.key \in Key
    <3>1. tx[d] # <<>>
      BY <1>2 DEF TurnAway, Received
    <3> QED
      BY <3>1, HeadFacts DEF HeadOf
  <2>2. nslots < Cardinality(Key)
    BY <2>1, <1>2, Crowded DEF TurnAway
  <2> QED
    BY <2>2, <1>1 DEF TurnedOnlyWhenCrowded
<1>3. ASSUME \A k \in Key : turned'[k] => turned[k]
      PROVE  TurnedOnlyWhenCrowded'
  BY <1>1, <1>3 DEF TurnedOnlyWhenCrowded
<1>4. CASE turned' = turned
  BY <1>3, <1>4
<1>5. ASSUME NEW d \in Device, Seed(d)
      PROVE  TurnedOnlyWhenCrowded'
  <2>1. \A k \in Key : turned'[k] => turned[k]
    BY <1>5 DEF Seed, TypeOK
  <2> QED
    BY <2>1, <1>3
<1>6. CASE ReceiverBoot
  <2>1. \A k \in Key : turned'[k] => turned[k]
    BY <1>6 DEF ReceiverBoot
  <2> QED
    BY <2>1, <1>3
<1> QED
  BY <1>2, <1>4, <1>5, <1>6 DEF Next, vars, Send, Reboot, Lose, Orphan, Extend, Mismatch

----------------------------------------------------------------------------
(* What is handed over.                                                     *)

\* HandedInv of key k, given what was handed over g, its device's queue q
\* and the number m of its bodies.
HandedOk(k, g, q, m) ==
  \A i \in 1 .. Len(g) :
    /\ g[i] # <<>> /\ CrcOk(g[i])
    /\ g[i][1].body.n <= m
    /\ \A j \in i + 1 .. Len(g) : g[i][1].body.n < g[j][1].body.n
    /\ \A j \in 1 .. Len(q) : q[j].key = k => g[i][1].body.n < q[j].data.body.n

LEMMA HandedByKey ==
  /\ HandedInv <=> \A k \in Key : HandedOk(k, got[k], tx[OwnerOf[k]], made[k])
  /\ HandedInv' <=> \A k \in Key : HandedOk(k, got'[k], tx'[OwnerOf[k]], made'[k])
BY DEF HandedInv, HandedOk

LEMMA HandedTail ==
  ASSUME NEW k, NEW g, NEW q \in Seq(Frame), q # <<>>, NEW m, HandedOk(k, g, q, m)
  PROVE  HandedOk(k, g, Tail(q), m)
<1> DEFINE t == Tail(q)
<1>1. \A i \in 1 .. Len(t) : i + 1 \in 1 .. Len(q) /\ t[i] = q[i + 1]
  <2>1. /\ Len(q) \in Nat /\ Len(t) = Len(q) - 1
        /\ \A i \in 1 .. Len(t) : i + 1 \in 2 .. Len(q) /\ t[i] = q[i + 1]
    BY HeadTail
  <2> HIDE DEF t
  <2> QED
    BY <2>1
<1> HIDE DEF t
<1>2. \A i \in 1 .. Len(g), j \in 1 .. Len(t) :
        t[j].key = k => g[i][1].body.n < t[j].data.body.n
  BY <1>1 DEF HandedOk
<1> QED
  BY <1>2 DEF HandedOk, t

\* A body handed over when its LAST is the head of the queue.
LEMMA HandedAppend ==
  ASSUME TypeOK, QueueInv, NEW d \in Device, NEW f, HeadOf(d, f), tx[d] # <<>>,
         NEW w \in Seq(Piece), w # <<>>, w[Len(w)] = f.data, CrcOk(w), f.last,
         NEW g \in Seq(Seq(Piece)), HandedOk(f.key, g, tx[d], made[f.key])
  PROVE  HandedOk(f.key, Append(g, w), Tail(tx[d]), made[f.key])
<1> DEFINE q == tx[d]
<1> DEFINE h == Append(g, w)
<1> DEFINE m == made[f.key]
<1>1. q \in Seq(Frame) /\ q # <<>>
  BY DEF TypeOK
<1>2. HandedOk(f.key, g, Tail(q), m)
  BY <1>1, HandedTail
<1>3. /\ f = q[1] /\ 1 \in 1 .. Len(q) /\ Len(q) \in Nat
      /\ Len(Tail(q)) = Len(q) - 1
      /\ \A i \in 1 .. Len(Tail(q)) : i + 1 \in 2 .. Len(q) /\ Tail(q)[i] = q[i + 1]
  <2>1. Head(q) = q[1] /\ Len(q) \in Nat \ {0} /\ f = Head(q)
    BY <1>1, HeadTail DEF HeadOf
  <2>2. /\ Len(Tail(q)) = Len(q) - 1
        /\ \A i \in 1 .. Len(Tail(q)) : i + 1 \in 2 .. Len(q) /\ Tail(q)[i] = q[i + 1]
    BY <1>1, HeadTail
  <2> QED
    BY <2>1, <2>2
<1>4. w[1].body = f.data.body
  <2>1. Len(w) \in 1 .. Len(w)
    OBVIOUS
  <2>2. w[Len(w)] = [body |-> w[1].body, part |-> Len(w) - 1]
    BY <2>1 DEF CrcOk
  <2> QED
    BY <2>2
<1>5. f.data.body.n \in Nat /\ f.data.body.n <= m /\ f.key \in Key
  BY DEF HeadOf, Body
<1>6. /\ Len(h) = Len(g) + 1 /\ Len(g) \in Nat /\ h[Len(g) + 1] = w
      /\ \A i \in 1 .. Len(g) : h[i] = g[i]
  BY Appended
<1>7. \A i \in 1 .. Len(g) : g[i][1].body.n < w[1].body.n
  BY <1>3, <1>4 DEF HandedOk
<1>8. ASSUME NEW j \in 1 .. Len(Tail(q)), Tail(q)[j].key = f.key
      PROVE  w[1].body.n < Tail(q)[j].data.body.n
  <2> DEFINE e == q[j + 1]
  <2>1. j + 1 \in 2 .. Len(q) /\ Tail(q)[j] = e
    BY <1>3
  <2>2. j + 1 \in 1 .. Len(q) /\ j + 1 \in 1 + 1 .. Len(q)
    BY <2>1, <1>3
  <2>3. e \in Frame
    BY <1>1, <2>2
  <2>4. Precedes(f.data, e.data) /\ FrameOk(e, d, made)
    BY <2>1, <2>2, <1>3, <1>8, QueueByDevice DEF QueueOk
  <2> HIDE DEF e
  <2>5. e.data.body.n \in Nat /\ e.data.body.len \in Nat /\ e.data.part \in Nat
    <3>1. e.data.body \in Body /\ e.data.part \in Nat
      BY <2>3 DEF Frame, Piece
    <3> QED
      BY <3>1 DEF Body
  <2>6. e.data.part < e.data.body.len
    BY <2>4 DEF FrameOk
  <2>7. f.data.part = f.data.body.len - 1
    BY DEF HeadOf
  <2>8. f.data.body.n < e.data.body.n
    BY <2>4, <2>5, <2>6, <2>7 DEF Precedes
  <2> QED
    BY <2>1, <2>8, <1>4
<1> HIDE DEF h, q, m
<1>9. ASSUME NEW i \in 1 .. Len(h)
      PROVE  /\ h[i] # <<>> /\ CrcOk(h[i]) /\ h[i][1].body.n <= m
             /\ \A j \in i + 1 .. Len(h) : h[i][1].body.n < h[j][1].body.n
             /\ \A j \in 1 .. Len(Tail(q)) :
                   Tail(q)[j].key = f.key => h[i][1].body.n < Tail(q)[j].data.body.n
  <2>1. CASE i \in 1 .. Len(g)
    <3>1. h[i] = g[i]
      BY <2>1, <1>6
    <3>2. /\ g[i] # <<>> /\ CrcOk(g[i]) /\ g[i][1].body.n <= m
          /\ \A j \in 1 .. Len(Tail(q)) :
                Tail(q)[j].key = f.key => g[i][1].body.n < Tail(q)[j].data.body.n
      BY <2>1, <1>2 DEF HandedOk
    <3>3. ASSUME NEW j \in i + 1 .. Len(h) PROVE g[i][1].body.n < h[j][1].body.n
      <4>1. CASE j \in i + 1 .. Len(g)
        <5>1. g[i][1].body.n < g[j][1].body.n /\ j \in 1 .. Len(g)
          BY <2>1, <4>1, <1>2 DEF HandedOk
        <5> QED
          BY <5>1, <1>6
      <4>2. CASE j = Len(g) + 1
        BY <4>2, <2>1, <1>6, <1>7
      <4> QED
        BY <4>1, <4>2, <1>6, <2>1
    <3> QED
      BY <3>1, <3>2, <3>3
  <2>2. CASE i = Len(g) + 1
    <3>1. h[i] = w /\ i + 1 > Len(h)
      BY <2>2, <1>6
    <3>2. w[1].body.n <= m
      BY <1>4, <1>5
    <3>3. \A j \in i + 1 .. Len(h) : FALSE
      BY <2>2, <1>6
    <3> QED
      BY <3>1, <3>2, <3>3, <1>8
  <2> QED
    BY <2>1, <2>2, <1>6
<1>10. HandedOk(f.key, h, Tail(q), m)
  BY <1>9 DEF HandedOk
<1> QED
  BY <1>10 DEF h, q, m

\* What Copy does to the bodies handed over.
LEMMA CopyGot ==
  ASSUME NEW s, NEW f, NEW buf, Copy(s, f, buf)
  PROVE  \/ got' = got
         \/ /\ f.last /\ CrcOk(Append(buf, f.data))
            /\ got' = [got EXCEPT ![f.key] = Append(got[f.key], Append(buf, f.data))]
BY DEF Copy

LEMMA CopyHanded ==
  ASSUME TypeOK, QueueInv, HandedInv, NEW d \in Device, tx[d] # <<>>,
         NEW f, HeadOf(d, f), NEW s, NEW buf \in Seq(Piece), Copy(s, f, buf),
         tx' = [tx EXCEPT ![d] = Tail(tx[d])], made' = made
  PROVE  HandedInv'
<1> DEFINE w == Append(buf, f.data)
<1>1. /\ tx \in [Device -> Seq(Frame)] /\ got \in [Key -> Seq(Seq(Piece))]
      /\ f.key \in Key /\ f.data \in Piece /\ OwnerOf[f.key] = d
      /\ \A k \in Key : OwnerOf[k] \in Device
  BY Constants DEF TypeOK, HeadOf
<1>2. \A k \in Key : HandedOk(k, got[k], tx[OwnerOf[k]], made[k])
  BY HandedByKey
<1>3. \A k \in Key : HandedOk(k, got[k], tx'[OwnerOf[k]], made[k])
  <2> TAKE k \in Key
  <2>1. CASE OwnerOf[k] = d
    <3>1. tx[d] \in Seq(Frame) /\ HandedOk(k, got[k], tx[d], made[k])
      BY <1>1, <1>2, <2>1
    <3>2. HandedOk(k, got[k], Tail(tx[d]), made[k])
      BY <3>1, HandedTail
    <3> QED
      BY <3>2, <2>1, <1>1
  <2>2. CASE OwnerOf[k] # d
    <3>1. tx'[OwnerOf[k]] = tx[OwnerOf[k]]
      BY <2>2, <1>1
    <3> QED
      BY <3>1, <1>2
  <2> QED
    BY <2>1, <2>2
<1>4. CASE got' = got
  BY <1>3, <1>4, HandedByKey
<1>5. CASE /\ f.last /\ CrcOk(w)
           /\ got' = [got EXCEPT ![f.key] = Append(got[f.key], w)]
  <2>1. w \in Seq(Piece) /\ w # <<>> /\ w[Len(w)] = f.data
    <3>1. /\ w \in Seq(Piece) /\ Len(w) = Len(buf) + 1 /\ Len(buf) \in Nat
          /\ w[Len(buf) + 1] = f.data
      BY <1>1, Appended
    <3> HIDE DEF w
    <3> QED
      BY <3>1
  <2>2. got[f.key] \in Seq(Seq(Piece)) /\ HandedOk(f.key, got[f.key], tx[d], made[f.key])
    BY <1>1, <1>2
  <2> HIDE DEF w
  <2>3. HandedOk(f.key, Append(got[f.key], w), Tail(tx[d]), made[f.key])
    BY <2>1, <2>2, <1>5, HandedAppend
  <2>4. got'[f.key] = Append(got[f.key], w) /\ tx'[OwnerOf[f.key]] = Tail(tx[d])
    BY <1>1, <1>5
  <2>5. \A k \in Key \ {f.key} : got'[k] = got[k]
    BY <1>1, <1>5
  <2> QED
    BY <2>3, <2>4, <2>5, <1>3, HandedByKey
<1> QED
  BY <1>4, <1>5, CopyGot

LEMMA SendHanded ==
  ASSUME TypeOK, HandedInv, NEW k \in Key, NEW len \in 1 .. MaxFrags + 1, Send(k, len)
  PROVE  HandedInv'
<1>1. /\ got' = got /\ made \in [Key -> Nat] /\ OwnerOf[k] \in Device
      /\ made' = [made EXCEPT ![k] = made[k] + 1]
      /\ \A x \in Key : made[x] <= made'[x]
  <2>1. /\ got' = got /\ made \in [Key -> Nat] /\ OwnerOf[k] \in Device
        /\ made' = [made EXCEPT ![k] = made[k] + 1]
    BY SendFacts DEF TypeOK
  <2>2. \A x \in Key : made[x] <= made'[x]
    BY <2>1
  <2> QED
    BY <2>1, <2>2
<1>2. ASSUME NEW x \in Key, NEW i \in 1 .. Len(got[x])
      PROVE  /\ got[x][i][1].body.n \in Nat
             /\ got[x][i][1].body.n <= made[x]
  <2>1. got[x] \in Seq(Seq(Piece))
    BY DEF TypeOK
  <2>2. got[x][i] \in Seq(Piece) /\ got[x][i] # <<>>
    BY <2>1 DEF HandedInv
  <2>3. got[x][i][1] \in Piece
    BY <2>2
  <2>4. got[x][i][1].body \in Body
    BY <2>3 DEF Piece
  <2> QED
    BY <2>4 DEF Body, HandedInv
<1>3. ASSUME NEW x \in Key, NEW i \in 1 .. Len(got[x]), NEW j \in 1 .. Len(tx'[OwnerOf[x]]),
             tx'[OwnerOf[x]][j].key = x
      PROVE  got[x][i][1].body.n < tx'[OwnerOf[x]][j].data.body.n
  <2>1. CASE tx'[OwnerOf[x]] = tx[OwnerOf[x]]
    BY <2>1, <1>3 DEF HandedInv
  <2>2. ASSUME NEW b \in Body, NEW m \in Nat, b.n = made[k] + 1, OwnerOf[x] = OwnerOf[k],
               tx' = [tx EXCEPT ![OwnerOf[k]] = @ \o Fragments(k, b, m)]
        PROVE  got[x][i][1].body.n < tx'[OwnerOf[x]][j].data.body.n
    <3> DEFINE q == tx[OwnerOf[k]]
    <3> DEFINE e == Fragments(k, b, m)
    <3>1. q \in Seq(Frame) /\ e \in Seq(Frame) /\ Len(e) = m
          /\ \A y \in 1 .. m : e[y] = Fragment(k, b, y - 1)
      BY <1>1, FragmentsType DEF TypeOK
    <3>2. tx'[OwnerOf[x]] = q \o e
      BY <2>2, <1>1 DEF TypeOK
    <3> HIDE DEF q, e
    <3>3. /\ Len(q \o e) = Len(q) + Len(e) /\ Len(q) \in Nat
          /\ \A y \in 1 .. Len(q) : (q \o e)[y] = q[y]
          /\ \A y \in 1 .. Len(e) : (q \o e)[Len(q) + y] = e[y]
      BY <3>1, Concatenated
    <3>4. CASE j \in 1 .. Len(q)
      <4>1. (q \o e)[j] = q[j]
        BY <3>4, <3>3
      <4> QED
        BY <4>1, <3>2, <3>4, <1>3, <2>2 DEF q, HandedInv
    <3>5. CASE j > Len(q)
      <4>1. j - Len(q) \in 1 .. m /\ j = Len(q) + (j - Len(q))
        BY <3>1, <3>2, <3>3, <3>5
      <4>2. (q \o e)[j] = e[j - Len(q)]
        BY <4>1, <3>1, <3>3
      <4>3. e[j - Len(q)] = Fragment(k, b, (j - Len(q)) - 1) /\ (j - Len(q)) - 1 \in Nat
        BY <4>1, <3>1
      <4>4. /\ Fragment(k, b, (j - Len(q)) - 1).key = k
            /\ Fragment(k, b, (j - Len(q)) - 1).data.body = b
        BY <4>3, FragmentType
      <4>5. x = k /\ tx'[OwnerOf[x]][j].data.body.n = made[k] + 1
        BY <4>2, <4>3, <4>4, <3>2, <2>2, <1>3
      <4>6. made[k] \in Nat /\ got[k][i][1].body.n \in Nat /\ got[k][i][1].body.n <= made[k]
        BY <4>5, <1>1, <1>2
      <4> QED
        BY <4>5, <4>6
    <3>6. j \in 1 .. Len(q) \/ j > Len(q)
      BY <3>2, <3>3, <3>1
    <3> QED
      BY <3>4, <3>5, <3>6
  <2>3. OwnerOf[x] \in Device
    BY Constants
  <2> QED
    BY <2>1, <2>2, <2>3, SendFacts DEF TypeOK
<1>4. ASSUME NEW x \in Key, NEW i \in 1 .. Len(got[x])
      PROVE  got[x][i][1].body.n <= made'[x]
  <2>1. made[x] \in Nat /\ made'[x] \in Nat /\ made[x] <= made'[x]
    BY <1>1
  <2> QED
    BY <2>1, <1>2
<1> QED
  BY <1>1, <1>3, <1>4 DEF HandedInv

LEMMA HandedNext ==
  ASSUME TypeOK, QueueInv, SlotInv, HandedInv, [Next]_vars
  PROVE  HandedInv'
<1>1. CASE UNCHANGED <<got, tx, made>>
  BY <1>1 DEF HandedInv
<1>2. ASSUME NEW k \in Key, NEW len \in 1 .. MaxFrags + 1, Send(k, len)
      PROVE  HandedInv'
  BY <1>2, SendHanded
<1>3. ASSUME NEW d \in Device, tx[d] # <<>>, got' = got, made' = made,
             tx' = [tx EXCEPT ![d] = Tail(tx[d])]
      PROVE  HandedInv'
  <2>1. ASSUME NEW k \in Key
        PROVE  HandedOk(k, got[k], tx'[OwnerOf[k]], made[k])
    <3>1. /\ tx[d] \in Seq(Frame) /\ OwnerOf[k] \in Device
          /\ HandedOk(k, got[k], tx[OwnerOf[k]], made[k])
      BY Constants, HandedByKey DEF TypeOK
    <3>2. CASE OwnerOf[k] = d
      <4>1. HandedOk(k, got[k], Tail(tx[d]), made[k])
        BY <3>1, <3>2, <1>3, HandedTail
      <4> QED
        BY <4>1, <3>1, <3>2, <1>3 DEF TypeOK
    <3>3. CASE OwnerOf[k] # d
      BY <3>1, <3>3, <1>3 DEF TypeOK
    <3> QED
      BY <3>2, <3>3
  <2> QED
    BY <2>1, <1>3, HandedByKey
<1>4. ASSUME NEW d \in Device, Reboot(d)
      PROVE  HandedInv'
  <2>1. \A x \in Device : tx'[x] = <<>> \/ tx'[x] = tx[x]
    BY <1>4 DEF Reboot, TypeOK
  <2>2. \A k \in Key : OwnerOf[k] \in Device
    BY Constants
  <2> QED
    BY <2>1, <2>2, <1>4 DEF HandedInv, Reboot
<1>5. ASSUME NEW d \in Device, Seed(d)
      PROVE  HandedInv'
  <2> DEFINE f == Head(tx[d])
  <2>1. /\ tx[d] # <<>> /\ made' = made
        /\ tx' = [tx EXCEPT ![d] = Tail(tx[d])]
    BY <1>5 DEF Seed, Received
  <2>2. HeadOf(d, f)
    BY <2>1, HeadFacts
  <2>3. \E s \in 1 .. nslots : Copy(s, f, <<>>)
    BY <1>5 DEF Seed
  <2> HIDE DEF f
  <2> QED
    BY <2>1, <2>2, <2>3, EmptyBuffer, CopyHanded
<1>6. ASSUME NEW d \in Device, Extend(d)
      PROVE  HandedInv'
  <2> DEFINE f == Head(tx[d])
  <2>1. /\ tx[d] # <<>> /\ made' = made
        /\ tx' = [tx EXCEPT ![d] = Tail(tx[d])]
    BY <1>6 DEF Extend, Received
  <2>2. HeadOf(d, f)
    BY <2>1, HeadFacts
  <2>3. PICK s \in 1 .. nslots : Copy(s, f, slot[s].buf)
    BY <1>6 DEF Extend
  <2>4. s \in Slots
    BY Constants DEF TypeOK, Slots
  <2>5. slot[s].buf \in Seq(Piece)
    BY <2>4 DEF TypeOK, SegBuffer
  <2> HIDE DEF f
  <2> QED
    BY <2>1, <2>2, <2>3, <2>5, CopyHanded
<1> QED
  BY <1>1, <1>2, <1>3, <1>4, <1>5, <1>6 DEF Next, vars, Lose, TurnAway, Orphan,
     Mismatch, Received, ReceiverBoot

----------------------------------------------------------------------------
(* Unbroken bodies.                                                         *)

\* ReassemblyInv of key k, whose pieces since its FIRST are z, in slots l,
\* with g handed over and t whether the FIRST was turned away.
KeptOk(k, z, l, g, t) ==
  Unbroken(z) /\ ~t =>
    IF Len(z) < z[1].body.len
    THEN \E s \in Slots : l[s].active /\ l[s].key = k /\ l[s].buf = z
    ELSE g # <<>> /\ g[Len(g)] = z

LEMMA KeptByKey ==
  /\ ReassemblyInv <=> \A k \in Key : KeptOk(k, seen[k], slot, got[k], turned[k])
  /\ ReassemblyInv' <=> \A k \in Key : KeptOk(k, seen'[k], slot', got'[k], turned'[k])
BY DEF ReassemblyInv, KeptOk

\* Copy touches the slot and the bodies of f's key only.
LEMMA CopyOthers ==
  ASSUME TypeOK, ReassemblyInv, NEW d \in Device, NEW f, HeadOf(d, f),
         NEW s \in Slots, NEW buf, Copy(s, f, buf),
         ~slot[s].active \/ slot[s].key = f.key,
         NEW k \in Key \ {f.key}, seen'[k] = seen[k], turned'[k] = turned[k]
  PROVE  KeptOk(k, seen'[k], slot', got'[k], turned'[k])
<1>1. \A t \in Slots \ {s} : slot'[t] = slot[t]
  BY DEF Copy, TypeOK
<1>2. got'[k] = got[k]
  <2>1. got' = got \/ \E x : got' = [got EXCEPT ![f.key] = x]
    BY DEF Copy
  <2> QED
    BY <2>1 DEF TypeOK
<1>3. KeptOk(k, seen[k], slot, got[k], turned[k])
  BY KeptByKey
<1>4. \A t \in Slots : slot[t].active /\ slot[t].key = k => t # s
  OBVIOUS
<1> QED
  BY <1>1, <1>2, <1>3, <1>4 DEF KeptOk

\* The key of f itself: its buffer is what has been seen of it.
LEMMA CopyOwn ==
  ASSUME TypeOK, NEW d \in Device, NEW f, HeadOf(d, f), NEW s \in Slots,
         NEW buf \in Seq(Piece), Copy(s, f, buf),
         seen'[f.key] = Append(buf, f.data)
  PROVE  KeptOk(f.key, seen'[f.key], slot', got'[f.key], turned'[f.key])
<1> DEFINE w == Append(buf, f.data)
<1>1. f.key \in Key /\ f.data \in Piece /\ f.last = (f.data.part = f.data.body.len - 1)
      /\ f.data.part \in Nat /\ f.data.part < f.data.body.len /\ f.data.body \in Body
  BY DEF HeadOf
<1>2. /\ w \in Seq(Piece) /\ Len(w) = Len(buf) + 1 /\ Len(buf) \in Nat
      /\ w[Len(buf) + 1] = f.data
  BY <1>1, Appended
<1>3. /\ ~f.last => /\ slot'[s].active /\ slot'[s].key = f.key /\ slot'[s].buf = w
      /\ f.last /\ CrcOk(w) => got' = [got EXCEPT ![f.key] = Append(got[f.key], w)]
  BY DEF Copy, TypeOK
<1> HIDE DEF w
<1>4. ASSUME Unbroken(w)
      PROVE  IF Len(w) < w[1].body.len
             THEN \E x \in Slots : slot'[x].active /\ slot'[x].key = f.key /\ slot'[x].buf = w
             ELSE got'[f.key] # <<>> /\ got'[f.key][Len(got'[f.key])] = w
  <2>1. f.data = [body |-> w[1].body, part |-> Len(buf)]
    <3>1. Len(buf) + 1 \in 1 .. Len(w) /\ (Len(buf) + 1) - 1 = Len(buf)
      BY <1>2
    <3> QED
      BY <3>1, <1>2, <1>4 DEF Unbroken
  <2>2. f.data.body = w[1].body /\ f.data.part = Len(buf)
    BY <2>1
  <2>3. w[1].body.len \in Nat
    BY <2>2, <1>1 DEF Body
  <2>4. CASE f.last
    <3>0. f.data.part = f.data.body.len - 1
      BY <2>4, <1>1
    <3>1. Len(w) = w[1].body.len
      BY <3>0, <2>2, <2>3, <1>2
    <3>2. CrcOk(w)
      BY <3>1, <1>4 DEF CrcOk, Unbroken
    <3>3. got[f.key] \in Seq(Seq(Piece))
      BY <1>1 DEF TypeOK
    <3>4. got'[f.key] = Append(got[f.key], w)
      BY <3>2, <2>4, <1>1, <1>3 DEF TypeOK
    <3> DEFINE g == Append(got[f.key], w)
    <3>5. /\ g \in Seq(Seq(Piece)) /\ Len(g) = Len(got[f.key]) + 1
          /\ Len(got[f.key]) \in Nat /\ g[Len(got[f.key]) + 1] = w
      BY <3>3, <1>2, Appended
    <3> HIDE DEF g
    <3>6. g # <<>> /\ g[Len(g)] = w
      BY <3>5
    <3> QED
      BY <3>1, <3>4, <3>6, <2>3 DEF g
  <2>5. CASE ~f.last
    <3>0. f.data.part # f.data.body.len - 1 /\ f.data.part < f.data.body.len
      BY <2>5, <1>1
    <3>1. Len(w) < w[1].body.len
      BY <3>0, <2>2, <2>3, <1>2
    <3> QED
      BY <3>1, <2>5, <1>3
  <2> QED
    BY <2>4, <2>5, <1>1
<1> QED
  BY <1>4 DEF KeptOk, w

\* A step that touches neither the slots nor what was handed over, nor what
\* was seen but for the key k0, keeps ReassemblyInv if it does for k0.
LEMMA KeptElsewhere ==
  ASSUME TypeOK, ReassemblyInv, slot' = slot, got' = got, NEW k0,
         \A k \in Key \ {k0} : seen'[k] = seen[k] /\ turned'[k] = turned[k],
         k0 \in Key => KeptOk(k0, seen'[k0], slot', got'[k0], turned'[k0])
  PROVE  ReassemblyInv'
<1>1. ASSUME NEW k \in Key
      PROVE  KeptOk(k, seen'[k], slot', got'[k], turned'[k])
  <2>1. CASE k = k0
    BY <2>1
  <2>2. CASE k # k0
    BY <2>2, KeptByKey
  <2> QED
    BY <2>1, <2>2
<1> QED
  BY <1>1, KeptByKey

\* What Received makes of the pieces seen.
LEMMA SeenFacts ==
  ASSUME TypeOK, QueueInv, NEW d \in Device, Received(d)
  PROVE  LET f == Head(tx[d]) IN
         /\ tx[d] # <<>> /\ HeadOf(d, f)
         /\ \A k \in Key \ {f.key} : seen'[k] = seen[k]
         /\ seen'[f.key] = IF f.first THEN <<f.data>> ELSE Append(seen[f.key], f.data)
         /\ seen[f.key] \in Seq(Piece)
<1> DEFINE f == Head(tx[d])
<1>1. tx[d] # <<>> /\ seen \in [Key -> Seq(Piece)]
  BY DEF Received, TypeOK
<1>2. HeadOf(d, f)
  BY <1>1, HeadFacts
<1>3. f.key \in Key
  BY <1>2 DEF HeadOf
<1> HIDE DEF f
<1>4. seen' = [seen EXCEPT ![f.key] = IF f.first THEN <<f.data>>
                                      ELSE Append(seen[f.key], f.data)]
  BY DEF Received, f
<1>5. /\ \A k \in Key \ {f.key} : seen'[k] = seen[k]
      /\ seen'[f.key] = IF f.first THEN <<f.data>> ELSE Append(seen[f.key], f.data)
      /\ seen[f.key] \in Seq(Piece)
  BY <1>1, <1>3, <1>4
<1> QED
  BY <1>1, <1>2, <1>5 DEF f

\* A fragment that is no FIRST leaves its key unbroken only if it is the part
\* that the open slot of its key expects.
LEMMA ExpectedPart ==
  ASSUME TypeOK, SlotInv, ReassemblyInv, NEW d \in Device, NEW f, HeadOf(d, f),
         ~f.first, ~turned[f.key], Unbroken(Append(seen[f.key], f.data))
  PROVE  \E s \in 1 .. nslots : /\ Bound(s, f.key) /\ Fits(s, f)
                                /\ slot[s].buf = seen[f.key]
<1> DEFINE z == seen[f.key]
<1> DEFINE w == Append(z, f.data)
<1>1. /\ f.key \in Key /\ f.data \in Piece /\ f.data.part # 0
      /\ f.data.part < f.data.body.len /\ f.idx = f.data.part
      /\ f.seqlo = f.data.body.seq % SeqLoMod
  BY DEF HeadOf
<1>2. z \in Seq(Piece)
  BY <1>1 DEF TypeOK
<1>3. /\ Len(w) = Len(z) + 1 /\ Len(z) \in Nat /\ w[Len(z) + 1] = f.data
      /\ \A i \in 1 .. Len(z) : w[i] = z[i]
  BY <1>1, <1>2, Appended
<1>4. Unbroken(w)
  OBVIOUS
<1> HIDE DEF w, z
<1>5. f.data = [body |-> w[1].body, part |-> Len(z)]
  <2>1. Len(z) + 1 \in 1 .. Len(w) /\ (Len(z) + 1) - 1 = Len(z)
    BY <1>3
  <2> QED
    BY <2>1, <1>3, <1>4 DEF Unbroken
<1>6. f.data.body = w[1].body /\ f.data.part = Len(z)
  BY <1>5
<1>7. z # <<>> /\ 1 \in 1 .. Len(z) /\ w[1] = z[1]
  <2>1. Len(z) # 0
    BY <1>1, <1>6
  <2>2. 1 \in 1 .. Len(z)
    BY <2>1, <1>3
  <2> QED
    BY <2>1, <2>2, <1>2, <1>3
<1>8. Unbroken(z)
  BY <1>3, <1>4, <1>7 DEF Unbroken
<1>9. Len(z) < z[1].body.len
  BY <1>1, <1>6, <1>7
<1>10. PICK s \in Slots : slot[s].active /\ slot[s].key = f.key /\ slot[s].buf = z
  BY <1>1, <1>8, <1>9 DEF ReassemblyInv, z
<1>11. s \in 1 .. nslots /\ Bound(s, f.key)
  <2>1. s <= nslots /\ nslots \in Nat
    BY <1>10, Constants DEF SlotInv, TypeOK, Slots
  <2>2. s \in 1 .. nslots
    BY <2>1 DEF Slots
  <2> QED
    BY <2>2, <1>10 DEF Bound
<1>12. z[1].body.seq % SeqLoMod = slot[s].seqlo
  BY <1>7, <1>10 DEF SlotInv, OneSeqLo
<1>13. Fits(s, f)
  BY <1>1, <1>6, <1>7, <1>10, <1>12 DEF Fits
<1> QED
  BY <1>10, <1>11, <1>13 DEF z

LEMMA ReassemblyNext ==
  ASSUME TypeOK, QueueInv, SlotInv, ReassemblyInv, [Next]_vars
  PROVE  ReassemblyInv'
<1>1. CASE UNCHANGED <<slot, got, seen, turned>>
  BY <1>1 DEF ReassemblyInv
<1>2. ASSUME NEW d \in Device, Seed(d)
      PROVE  ReassemblyInv'
  <2> DEFINE f == Head(tx[d])
  <2>1. /\ HeadOf(d, f) /\ f.key \in Key /\ f.first
        /\ \A k \in Key \ {f.key} : seen'[k] = seen[k] /\ turned'[k] = turned[k]
        /\ seen'[f.key] = <<f.data>>
    BY <1>2, SeenFacts DEF Seed, HeadOf, TypeOK
  <2>2. PICK s \in 1 .. nslots : Seeds(s, f.key) /\ Copy(s, f, <<>>)
    BY <1>2 DEF Seed
  <2> HIDE DEF f
  <2>3. s \in Slots /\ (~slot[s].active \/ slot[s].key = f.key)
    BY <2>1, <2>2, SeededAlone
  <2>4. seen'[f.key] = Append(<<>>, f.data) /\ <<>> \in Seq(Piece)
    BY <2>1
  <2>5. KeptOk(f.key, seen'[f.key], slot', got'[f.key], turned'[f.key])
    BY <2>1, <2>2, <2>3, <2>4, CopyOwn
  <2>6. \A k \in Key \ {f.key} : KeptOk(k, seen'[k], slot', got'[k], turned'[k])
    BY <2>1, <2>2, <2>3, CopyOthers
  <2> QED
    BY <2>5, <2>6, KeptByKey
<1>3. ASSUME NEW d \in Device, TurnAway(d)
      PROVE  ReassemblyInv'
  <2> DEFINE f == Head(tx[d])
  <2>1. /\ f.key \in Key /\ slot' = slot /\ got' = got
        /\ \A k \in Key \ {f.key} : seen'[k] = seen[k] /\ turned'[k] = turned[k]
        /\ turned'[f.key] = TRUE
    BY <1>3, SeenFacts DEF TurnAway, HeadOf, TypeOK
  <2> HIDE DEF f
  <2>2. KeptOk(f.key, seen'[f.key], slot', got'[f.key], turned'[f.key])
    BY <2>1 DEF KeptOk
  <2> QED
    BY <2>1, <2>2, KeptElsewhere
<1>4. ASSUME NEW d \in Device, Orphan(d)
      PROVE  ReassemblyInv'
  <2> DEFINE f == Head(tx[d])
  <2>1. /\ HeadOf(d, f) /\ ~f.first /\ slot' = slot /\ got' = got /\ turned' = turned
        /\ \A k \in Key \ {f.key} : seen'[k] = seen[k]
        /\ seen'[f.key] = Append(seen[f.key], f.data)
        /\ Unbound(f.key)
    BY <1>4, SeenFacts DEF Orphan
  <2> HIDE DEF f
  <2>2. ~turned[f.key] => ~Unbroken(Append(seen[f.key], f.data))
    BY <2>1, ExpectedPart DEF Unbound
  <2>3. KeptOk(f.key, seen'[f.key], slot', got'[f.key], turned'[f.key])
    BY <2>1, <2>2 DEF KeptOk
  <2> QED
    BY <2>1, <2>3, KeptElsewhere
<1>5. ASSUME NEW d \in Device, Extend(d)
      PROVE  ReassemblyInv'
  <2> DEFINE f == Head(tx[d])
  <2>1. /\ HeadOf(d, f) /\ ~f.first /\ turned' = turned /\ f.key \in Key
        /\ \A k \in Key \ {f.key} : seen'[k] = seen[k]
        /\ seen'[f.key] = Append(seen[f.key], f.data)
    BY <1>5, SeenFacts DEF Extend, HeadOf
  <2>2. PICK s \in 1 .. nslots : Bound(s, f.key) /\ Copy(s, f, slot[s].buf)
    BY <1>5 DEF Extend
  <2> HIDE DEF f
  <2>3. /\ s \in Slots /\ slot[s].key = f.key /\ slot[s].buf \in Seq(Piece)
        /\ OthersFree(s, f.key)
    BY <2>1, <2>2, BoundAlone
  <2>4. KeptOk(f.key, seen'[f.key], slot', got'[f.key], turned'[f.key])
    <3>1. CASE slot[s].buf = seen[f.key]
      BY <3>1, <2>1, <2>2, <2>3, CopyOwn
    <3>2. CASE slot[s].buf # seen[f.key]
      <4>1. ASSUME ~turned[f.key], Unbroken(Append(seen[f.key], f.data)) PROVE FALSE
        <5>1. PICK t \in 1 .. nslots : Bound(t, f.key) /\ slot[t].buf = seen[f.key]
          BY <4>1, <2>1, ExpectedPart
        <5>2. t \in Slots /\ slot[t].active /\ slot[t].key = f.key
          BY <5>1, <2>1, BoundAlone
        <5> QED
          BY <5>1, <5>2, <3>2, <2>3 DEF OthersFree
      <4> QED
        BY <4>1, <2>1 DEF KeptOk
    <3> QED
      BY <3>1, <3>2
  <2>5. \A k \in Key \ {f.key} : KeptOk(k, seen'[k], slot', got'[k], turned'[k])
    BY <2>1, <2>2, <2>3, CopyOthers
  <2> QED
    BY <2>4, <2>5, KeptByKey
<1>6. ASSUME NEW d \in Device, Mismatch(d)
      PROVE  ReassemblyInv'
  <2> DEFINE f == Head(tx[d])
  <2>1. /\ HeadOf(d, f) /\ ~f.first /\ turned' = turned /\ got' = got /\ f.key \in Key
        /\ \A k \in Key \ {f.key} : seen'[k] = seen[k]
        /\ seen'[f.key] = Append(seen[f.key], f.data)
    BY <1>6, SeenFacts DEF Mismatch, HeadOf
  <2>2. PICK s \in 1 .. nslots : /\ Bound(s, f.key) /\ ~Fits(s, f)
                                 /\ slot' = [slot EXCEPT ![s] = Free]
    BY <1>6 DEF Mismatch
  <2> HIDE DEF f
  <2>3. s \in Slots /\ slot[s].key = f.key /\ OthersFree(s, f.key)
    BY <2>1, <2>2, BoundAlone
  <2>4. ASSUME ~turned[f.key], Unbroken(Append(seen[f.key], f.data)) PROVE FALSE
    <3>1. PICK t \in 1 .. nslots : Bound(t, f.key) /\ Fits(t, f)
      BY <2>4, <2>1, ExpectedPart
    <3>2. t \in Slots /\ slot[t].active /\ slot[t].key = f.key
      BY <3>1, <2>1, BoundAlone
    <3> QED
      BY <3>1, <3>2, <2>2, <2>3 DEF OthersFree
  <2>5. KeptOk(f.key, seen'[f.key], slot', got'[f.key], turned'[f.key])
    BY <2>1, <2>4 DEF KeptOk
  <2>6. ASSUME NEW k \in Key \ {f.key}
        PROVE  KeptOk(k, seen'[k], slot', got'[k], turned'[k])
    <3>1. KeptOk(k, seen[k], slot, got[k], turned[k])
      BY KeptByKey
    <3>2. \A t \in Slots : slot[t].active /\ slot[t].key = k => slot'[t] = slot[t]
      BY <2>2, <2>3 DEF TypeOK
    <3> QED
      BY <3>1, <3>2, <2>1 DEF KeptOk
  <2> QED
    BY <2>5, <2>6, KeptByKey
<1>7. CASE ReceiverBoot
  <2>1. \A k \in Key : ~Unbroken(seen'[k])
    BY <1>7 DEF ReceiverBoot, Unbroken
  <2> QED
    BY <2>1 DEF ReassemblyInv
<1> QED
  BY <1>1, <1>2, <1>3, <1>4, <1>5, <1>6, <1>7 DEF Next, vars, Send, Reboot, Lose

----------------------------------------------------------------------------
(* The theorems.                                                            *)

LEMMA InitIInv ==
  ASSUME Init
  PROVE  IInv
<1>1. <<>> \in Seq(Frame) /\ <<>> \in Seq(Piece) /\ <<>> \in Seq(Seq(Piece))
  OBVIOUS
<1>2. 0 \in 0 .. SeqMod - 1
  BY Constants
<1>3. TypeOK
  BY <1>1, <1>2, Constants DEF Init, TypeOK
<1>4. \A s \in Slots : ~slot[s].active
  BY Constants DEF Init
<1>5. QueueInv /\ SlotInv /\ OnlyAliasesFailCrc /\ TurnedOnlyWhenCrowded
  BY <1>4 DEF Init, QueueInv, SlotInv, OnlyAliasesFailCrc, TurnedOnlyWhenCrowded
<1>6. ReassemblyInv /\ HandedInv
  BY DEF Init, ReassemblyInv, HandedInv, Unbroken
<1> QED
  BY <1>3, <1>5, <1>6 DEF IInv

LEMMA IInvNext ==
  ASSUME IInv, [Next]_vars
  PROVE  IInv'
<1> USE DEF IInv
<1>1. TypeOK' /\ QueueInv'
  BY TypeNext, QueueNext
<1>2. SlotInv' /\ OnlyAliasesFailCrc'
  BY SlotNext
<1>3. ReassemblyInv' /\ HandedInv' /\ TurnedOnlyWhenCrowded'
  BY ReassemblyNext, HandedNext, TurnedNext
<1> QED
  BY <1>1, <1>2, <1>3

\* The inductive invariant holds: the queues keep the order of the bodies, no
\* key has two buffers, a buffer holds consecutive parts under one SEQLO.
THEOREM ReassemblerSound == Spec => []IInv
<1>1. Init => IInv
  BY InitIInv
<1>2. IInv /\ [Next]_vars => IInv'
  BY IInvNext
<1> QED
  BY <1>1, <1>2, PTL DEF Spec

\* on_body gets whole bodies, each once, those of a key in order.
THEOREM WholeBodiesInOrder == Spec => []WholeAndInOrder
<1>1. IInv => WholeAndInOrder
  <2> SUFFICES ASSUME IInv, NEW k \in Key, NEW i \in 1 .. Len(got[k])
               PROVE  /\ \E b \in {got[k][i][1].body} :
                           got[k][i] = [j \in 1 .. b.len |-> [body |-> b, part |-> j - 1]]
                      /\ \A j \in i + 1 .. Len(got[k]) :
                           got[k][i][1].body.n < got[k][j][1].body.n
    BY DEF WholeAndInOrder
  <2> DEFINE w == got[k][i]
  <2> DEFINE b == w[1].body
  <2>1. got[k] \in Seq(Seq(Piece))
    BY DEF IInv, TypeOK
  <2>2. w \in Seq(Piece)
    BY <2>1
  <2>3. /\ CrcOk(w)
        /\ \A j \in i + 1 .. Len(got[k]) : got[k][i][1].body.n < got[k][j][1].body.n
    BY DEF IInv, HandedInv
  <2> HIDE DEF w
  <2>4. /\ Len(w) = b.len /\ DOMAIN w = 1 .. Len(w)
        /\ \A j \in 1 .. Len(w) : w[j] = [body |-> b, part |-> j - 1]
    BY <2>2, <2>3 DEF CrcOk
  <2>5. w = [j \in 1 .. b.len |-> [body |-> b, part |-> j - 1]]
    <3> HIDE DEF b
    <3>1. w = [j \in 1 .. Len(w) |-> w[j]]
      BY <2>2
    <3>2. [j \in 1 .. Len(w) |-> w[j]]
            = [j \in 1 .. Len(w) |-> [body |-> b, part |-> j - 1]]
      BY <2>4
    <3> QED
      BY <3>1, <3>2, <2>4
  <2> QED
    BY <2>3, <2>5 DEF w
<1> QED
  BY <1>1, ReassemblerSound, PTL

\* A body that came without a gap is handed over, unless its FIRST was turned
\* away.
THEOREM UnbrokenBodiesArrive == Spec => []UnbrokenIsDelivered
<1>1. IInv => UnbrokenIsDelivered
  <2> SUFFICES ASSUME IInv, NEW k \in Key, Unbroken(seen[k]), ~turned[k],
                      Len(seen[k]) = seen[k][1].body.len
               PROVE  got[k] # <<>> /\ got[k][Len(got[k])] = seen[k]
    BY DEF UnbrokenIsDelivered
  <2>1. seen[k] \in Seq(Piece)
    BY DEF IInv, TypeOK
  <2>2. Len(seen[k]) \in Nat
    BY <2>1
  <2>3. ~(Len(seen[k]) < seen[k][1].body.len)
    BY <2>2
  <2> QED
    BY <2>3 DEF IInv, ReassemblyInv
<1> QED
  BY <1>1, ReassemblerSound, PTL

\* With a slot for every key no FIRST is ever turned away.
THEOREM SlotsSuffice == Spec => []TurnedOnlyWhenCrowded
<1>1. IInv => TurnedOnlyWhenCrowded
  BY DEF IInv
<1> QED
  BY <1>1, ReassemblerSound, PTL

\* What the CRC has to catch is the mix of bodies whose SEQLO is the same.
THEOREM CrcCatchesAliases == Spec => []OnlyAliasesFailCrc
<1>1. IInv => OnlyAliasesFailCrc
  BY DEF IInv
<1> QED
  BY <1>1, ReassemblerSound, PTL
=============================================================================
