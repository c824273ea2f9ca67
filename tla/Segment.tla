------------------------------ MODULE Segment ------------------------------
(***************************************************************************)
(* CAN segmentation and reassembly: firmware/src/segment.c with the two    *)
(* sends of link_esp32.cpp that split a body onto the bus and the pump     *)
(* that feeds one receiver.  A body is a number, a seq and a length in     *)
(* fragments; a piece is one fragment's worth of its bytes.  The CRC is    *)
(* taken as ideal: it accepts the pieces of one body, all of them in       *)
(* order, and nothing else.  Every slot that is not active is written      *)
(* afresh before it is read, so it is kept as Free.  Of the counters of    *)
(* SegReasm, which nothing reads back, rx_crc_fail is kept as the buffer   *)
(* that last moved it (failed).                                            *)
(***************************************************************************)
EXTENDS Naturals, Sequences, FiniteSets

CONSTANTS
    Device,    \* devices that send on the bus
    Key,       \* the (node, port) pairs in use
    OwnerOf,   \* the one device that sends the bodies of a key
    MaxSlots,  \* the largest SEG_MAX_SLOTS considered
    MaxFrags,  \* SEG_MAX_FRAGS
    SeqMod,    \* values of a 16-bit seq
    SeqLoMod,  \* values of the SEQLO field
    MaxBodies, \* bound: bodies made for each key
    TxCap,     \* bound: frames that wait in a device's TX queue
    MaxBoots   \* bound: reboots

ASSUME KeyAssumption == IsFiniteSet(Key) /\ Key # {}
ASSUME OwnerAssumption == OwnerOf \in [Key -> Device]
ASSUME SizeAssumption == /\ MaxSlots \in Nat \ {0} /\ MaxFrags \in Nat \ {0}
                         /\ SeqMod \in Nat \ {0} /\ SeqLoMod \in Nat \ {0}

VARIABLES
    nslots,  \* SEG_MAX_SLOTS of this build
    slot,    \* the receiver's slots
    seq,     \* the next seq of each key's producer
    made,    \* ghost: bodies made for each key so far
    tx,      \* frames queued in each device's TWAI driver
    got,     \* bodies handed to on_body, oldest first
    failed,  \* ghost: the last buffer that failed its CRC
    seen,    \* ghost: the pieces of a key that arrived since its last FIRST
    turned,  \* ghost: whether that FIRST found every slot busy
    boots

vars == <<nslots, slot, seq, made, tx, got, failed, seen, turned, boots>>

Slots == 1 .. MaxSlots
Body == [n : Nat \ {0}, seq : 0 .. SeqMod - 1, len : 1 .. MaxFrags]
Piece == [body : Body, part : Nat]
Frame == [key : Key, first : BOOLEAN, last : BOOLEAN,
          seqlo : 0 .. SeqLoMod - 1, idx : Nat, data : Piece]

Free == [active |-> FALSE, key |-> CHOOSE k \in Key : TRUE,
         seqlo |-> 0, buf |-> <<>>]
SegBuffer == [active : BOOLEAN, key : Key, seqlo : 0 .. SeqLoMod - 1,
              buf : Seq(Piece)]

Init ==
    /\ nslots \in Slots
    /\ slot = [s \in Slots |-> Free]
    /\ seq = [k \in Key |-> 0]
    /\ made = [k \in Key |-> 0]
    /\ tx = [d \in Device |-> <<>>]
    /\ got = [k \in Key |-> <<>>]
    /\ failed = <<>>
    /\ seen = [k \in Key |-> <<>>]
    /\ turned = [k \in Key |-> FALSE]
    /\ boots = 0

----------------------------------------------------------------------------
(* Sending: seg_split, then the fragments back to back.                    *)

\* Fragment i of body b, with the fields that seg_id_pack puts in the id.
Fragment(k, b, i) ==
    [key |-> k, first |-> i = 0, last |-> i = b.len - 1,
     seqlo |-> b.seq % SeqLoMod, idx |-> i,
     data |-> [body |-> b, part |-> i]]

\* The first m fragments of b: all of them, or those that went out before
\* twai_transmit failed.
Fragments(k, b, m) == [i \in 1 .. m |-> Fragment(k, b, i - 1)]

\* A producer makes a body of len fragments and gives it to its device.  The
\* device abandons it after m of them when the driver's queue stays full.  A
\* body over the ceiling is made and not sent.
Send(k, len) ==
    LET d == OwnerOf[k]
        b == [n |-> made[k] + 1, seq |-> seq[k], len |-> len]
    IN  /\ made[k] < MaxBodies[k]
        /\ made' = [made EXCEPT ![k] = @ + 1]
        /\ seq' = [seq EXCEPT ![k] = (@ + 1) % SeqMod]
        /\ \/ /\ len > MaxFrags
              /\ UNCHANGED tx
           \/ /\ len <= MaxFrags
              /\ \E m \in 0 .. len :
                    /\ Len(tx[d]) + m <= TxCap
                    /\ tx' = [tx EXCEPT ![d] = @ \o Fragments(k, b, m)]
        /\ UNCHANGED <<nslots, slot, got, failed, seen, turned, boots>>

\* A device reboots: what its driver had queued is gone, its seqs start over.
Reboot(d) ==
    /\ boots < MaxBoots
    /\ boots' = boots + 1
    /\ tx' = [tx EXCEPT ![d] = <<>>]
    /\ seq' = [k \in Key |-> IF OwnerOf[k] = d THEN 0 ELSE seq[k]]
    /\ UNCHANGED <<nslots, slot, made, got, failed, seen, turned>>

----------------------------------------------------------------------------
(* The bus and the receiver: seg_reasm_feed.                               *)

\* The next frame of d is lost on the bus, or in a full RX queue.
Lose(d) ==
    /\ tx[d] # <<>>
    /\ tx' = [tx EXCEPT ![d] = Tail(@)]
    /\ UNCHANGED <<nslots, slot, seq, made, got, failed, seen, turned, boots>>

\* The receiver takes the next frame of d.
Received(d) ==
    /\ tx[d] # <<>>
    /\ tx' = [tx EXCEPT ![d] = Tail(@)]
    /\ LET f == Head(tx[d]) IN
         seen' = [seen EXCEPT ![f.key] =
                    IF f.first THEN <<f.data>> ELSE Append(@, f.data)]
    /\ UNCHANGED <<nslots, seq, made, boots>>

Bound(s, k) == s \in 1 .. nslots /\ slot[s].active /\ slot[s].key = k
Unbound(k) == \A s \in 1 .. nslots : ~Bound(s, k)
FreeSlot(s) == s \in 1 .. nslots /\ ~slot[s].active

\* The slot that a FIRST of k seeds: the one bound to k, or else a free one.
\* The code takes the first that is free; the slots are alike.
\* Mutant: the search for the bound slot is left out.
SeedsFree(s, k) == FreeSlot(s)

Seeds(s, k) == Bound(s, k) \/ (Unbound(k) /\ FreeSlot(s))

\* The CRC accepts a buffer: the pieces of one body, complete and in order.
\* Mutant: the body goes out without its CRC being checked.
CrcAny(buf) == TRUE
CrcOk(buf) ==
    LET b == buf[1].body
    IN  /\ Len(buf) = b.len
        /\ \A i \in 1 .. Len(buf) : buf[i] = [body |-> b, part |-> i - 1]

\* The copy of f's data into slot s, whose buffer was buf, and, for a LAST,
\* what becomes of the body.
Copy(s, f, buf) ==
    LET whole == Append(buf, f.data) IN
    \/ /\ ~f.last
       /\ slot' = [slot EXCEPT ![s] = [active |-> TRUE, key |-> f.key,
                                       seqlo |-> f.seqlo, buf |-> whole]]
       /\ UNCHANGED <<got, failed>>
    \/ /\ f.last
       /\ slot' = [slot EXCEPT ![s] = Free]
       /\ \/ /\ CrcOk(whole)
             /\ got' = [got EXCEPT ![f.key] = Append(@, whole)]
             /\ UNCHANGED failed
          \/ /\ ~CrcOk(whole)
             /\ failed' = whole
             /\ UNCHANGED got

\* Mutant: a re-seeded buffer keeps what it held.
SeedKeeps(d) ==
    /\ Received(d)
    /\ LET f == Head(tx[d]) IN
         /\ f.first
         /\ \E s \in 1 .. nslots : Seeds(s, f.key) /\ Copy(s, f, slot[s].buf)
         /\ turned' = [turned EXCEPT ![f.key] = FALSE]

\* A FIRST seeds a slot, or re-seeds the one its key has open.
Seed(d) ==
    /\ Received(d)
    /\ LET f == Head(tx[d]) IN
         /\ f.first
         /\ \E s \in 1 .. nslots : Seeds(s, f.key) /\ Copy(s, f, <<>>)
         /\ turned' = [turned EXCEPT ![f.key] = FALSE]

\* A FIRST finds every slot busy with another key.
TurnAway(d) ==
    /\ Received(d)
    /\ LET f == Head(tx[d]) IN
         /\ f.first
         /\ ~ \E s \in 1 .. nslots : Seeds(s, f.key)
         /\ turned' = [turned EXCEPT ![f.key] = TRUE]
    /\ UNCHANGED <<slot, got, failed>>

\* A fragment that is no FIRST and has no open buffer.
Orphan(d) ==
    /\ Received(d)
    /\ ~Head(tx[d]).first /\ Unbound(Head(tx[d]).key)
    /\ UNCHANGED <<slot, got, failed, turned>>

\* Whether f is the fragment that slot s expects next.
\* Mutant: the SEQLO field is not compared.
FitsAnySeq(s, f) == f.idx = Len(slot[s].buf)
Fits(s, f) == f.idx = Len(slot[s].buf) /\ f.seqlo = slot[s].seqlo

\* The expected fragment is appended to its buffer.
Extend(d) ==
    /\ Received(d)
    /\ LET f == Head(tx[d]) IN
         /\ ~f.first
         /\ \E s \in 1 .. nslots : /\ Bound(s, f.key) /\ Fits(s, f)
                                   /\ Copy(s, f, slot[s].buf)
    /\ UNCHANGED turned

\* A gap, a reordering or another body's SEQLO: the partial is abandoned.
Mismatch(d) ==
    /\ Received(d)
    /\ LET f == Head(tx[d]) IN
         /\ ~f.first
         /\ \E s \in 1 .. nslots : /\ Bound(s, f.key) /\ ~Fits(s, f)
                                   /\ slot' = [slot EXCEPT ![s] = Free]
    /\ UNCHANGED <<got, failed, turned>>

\* The receiver reboots: seg_reasm_init.
ReceiverBoot ==
    /\ boots < MaxBoots
    /\ boots' = boots + 1
    /\ slot' = [s \in Slots |-> Free]
    /\ seen' = [k \in Key |-> <<>>]
    /\ turned' = [k \in Key |-> FALSE]
    /\ UNCHANGED <<nslots, seq, made, tx, got, failed>>

Next ==
    \/ \E k \in Key, len \in 1 .. MaxFrags + 1 : Send(k, len)
    \/ \E d \in Device : \/ Reboot(d) \/ Lose(d) \/ Seed(d) \/ TurnAway(d)
                         \/ Orphan(d) \/ Extend(d) \/ Mismatch(d)
    \/ ReceiverBoot

Spec == Init /\ [][Next]_vars

----------------------------------------------------------------------------
(* Invariants and properties.                                              *)

TypeOK ==
    /\ nslots \in Slots
    /\ slot \in [Slots -> SegBuffer]
    /\ seq \in [Key -> 0 .. SeqMod - 1]
    /\ made \in [Key -> Nat]
    /\ tx \in [Device -> Seq(Frame)]
    /\ got \in [Key -> Seq(Seq(Piece))]
    /\ failed \in Seq(Piece)
    /\ seen \in [Key -> Seq(Piece)]
    /\ turned \in [Key -> BOOLEAN]
    /\ boots \in Nat

\* p comes before q among the pieces of one key: q is a later piece of the
\* same body, or belongs to a later body.
Precedes(p, q) == \/ p.body.n < q.body.n
                  \/ p.body = q.body /\ p.part < q.part

\* What waits in a queue are fragments of bodies made, in their order.
QueueInv ==
    \A d \in Device : \A i \in 1 .. Len(tx[d]) :
        LET f == tx[d][i] IN
        /\ OwnerOf[f.key] = d
        /\ f = Fragment(f.key, f.data.body, f.data.part)
        /\ f.data.part < f.data.body.len
        /\ f.data.body.n <= made[f.key]
        /\ \A j \in i + 1 .. Len(tx[d]) :
              tx[d][j].key = f.key => Precedes(f.data, tx[d][j].data)

\* The pieces of a buffer: parts 0, 1, 2, ... of bodies with one SEQLO.
OneSeqLo(buf, seqlo) ==
    \A i \in 1 .. Len(buf) : /\ buf[i].part = i - 1
                             /\ buf[i].body.seq % SeqLoMod = seqlo

\* An open buffer holds consecutive parts under one SEQLO, and no key has
\* two of them.
SlotInv ==
    \A s \in Slots : slot[s].active =>
        /\ s <= nslots
        /\ slot[s].buf # <<>>
        /\ OneSeqLo(slot[s].buf, slot[s].seqlo)
        /\ \A t \in Slots \ {s} :
              slot[t].active => slot[t].key # slot[s].key

\* The pieces of one body, from its FIRST on and with no gap, are in s.
Unbroken(s) ==
    /\ s # <<>>
    /\ \A i \in 1 .. Len(s) : s[i] = [body |-> s[1].body, part |-> i - 1]

\* A body of which no fragment was lost so far and whose FIRST got a slot is
\* either in its slot, or, when its LAST has come, the last one handed over.
ReassemblyInv ==
    \A k \in Key : Unbroken(seen[k]) /\ ~turned[k] =>
        IF Len(seen[k]) < seen[k][1].body.len
        THEN \E s \in Slots : /\ slot[s].active /\ slot[s].key = k
                               /\ slot[s].buf = seen[k]
        ELSE got[k] # <<>> /\ got[k][Len(got[k])] = seen[k]

\* Bodies handed over come before every fragment still to arrive, and in the
\* order in which they were made.
HandedInv ==
    \A k \in Key : \A i \in 1 .. Len(got[k]) :
        /\ got[k][i] # <<>> /\ CrcOk(got[k][i])
        /\ got[k][i][1].body.n <= made[k]
        /\ \A j \in i + 1 .. Len(got[k]) :
              got[k][i][1].body.n < got[k][j][1].body.n
        /\ \A j \in 1 .. Len(tx[OwnerOf[k]]) :
              LET f == tx[OwnerOf[k]][j] IN
              f.key = k => got[k][i][1].body.n < f.data.body.n

\* A FIRST is turned away only in a build with fewer slots than there are
\* keys on the bus: a partial that stalls keeps the slot of its own key from
\* others, never from the next body of that key.  (segment.h: SEG_MAX_SLOTS)
TurnedOnlyWhenCrowded ==
    \A k \in Key : turned[k] => nslots < Cardinality(Key)

\* Fail-closed: on_body gets whole bodies only, all pieces of one body, each
\* body at most once, those of one key in the order in which they were made;
\* whatever was lost, abandoned or interleaved on the bus.
WholeAndInOrder ==
    \A k \in Key : \A i \in 1 .. Len(got[k]) :
        /\ \E b \in {got[k][i][1].body} :
              got[k][i] = [j \in 1 .. b.len |-> [body |-> b, part |-> j - 1]]
        /\ \A j \in i + 1 .. Len(got[k]) :
              got[k][i][1].body.n < got[k][j][1].body.n

\* And not more closed than that: a body that arrived without a gap was
\* handed over, unless every slot was busy with another key at its FIRST.
\* The stalled partial of an earlier body, even one with the same SEQLO, does
\* not stand in its way.
UnbrokenIsDelivered ==
    \A k \in Key :
        (Unbroken(seen[k]) /\ Len(seen[k]) = seen[k][1].body.len) =>
            \/ turned[k]
            \/ got[k] # <<>> /\ got[k][Len(got[k])] = seen[k]

\* On a bus that corrupts nothing, a buffer fails its CRC only where SEQLO
\* cannot tell: its parts are 0, 1, 2, ... of two bodies or more, and their
\* seqs agree modulo 32.
OnlyAliasesFailCrc ==
    failed # <<>> =>
        /\ OneSeqLo(failed, failed[1].body.seq % SeqLoMod)
        /\ \E i \in 1 .. Len(failed) : failed[i].body # failed[1].body

\* The inductive invariant.
IInv == /\ TypeOK /\ QueueInv /\ SlotInv /\ ReassemblyInv /\ HandedInv
        /\ TurnedOnlyWhenCrowded /\ OnlyAliasesFailCrc
=============================================================================
