-------------------------- MODULE CommandPathProofs --------------------------
(***************************************************************************)
(* What holds of the command path for any number of slots, writes, crashes *)
(* and lost frames: the hub sees an advance only where the view wrote a    *)
(* newer command, and no write is sent twice by one link owner.            *)
(*                                                                         *)
(* And of the stop path, whose commands go this way: for any number of     *)
(* wheels, any mailbox, any loss and any crashes of the controller, it     *)
(* never answers a pose that was published after the robot was stopped.    *)
(***************************************************************************)
EXTENDS CommandPath, StopPath, TLAPS

LEMMA Appended ==
  ASSUME NEW S, NEW q \in Seq(S), NEW e \in S
  PROVE  /\ Append(q, e) \in Seq(S)
         /\ Len(Append(q, e)) = Len(q) + 1
         /\ DOMAIN Append(q, e) = 1 .. Len(q) + 1
         /\ \A i \in 1 .. Len(q) : Append(q, e)[i] = q[i]
         /\ Append(q, e)[Len(q) + 1] = e
  OBVIOUS

LEMMA Concatenated ==
  ASSUME NEW S, NEW a \in Seq(S), NEW b \in Seq(S)
  PROVE  a \o b \in Seq(S) /\ Len(a \o b) = Len(a) + Len(b)
  OBVIOUS

LEMMA ElementOf ==
  ASSUME NEW S, NEW q \in Seq(S), NEW i \in DOMAIN q
  PROVE  q[i] \in S /\ i \in Nat
  OBVIOUS

LEMMA HeadTail ==
  ASSUME NEW S, NEW q \in Seq(S), q # <<>>
  PROVE  /\ Head(q) \in S /\ Head(q) = q[1] /\ 1 \in DOMAIN q
         /\ Tail(q) \in Seq(S) /\ Len(Tail(q)) = Len(q) - 1
         /\ \A i \in DOMAIN Tail(q) :
              i \in Nat /\ i + 1 \in DOMAIN q /\ i + 1 > 1 /\ Tail(q)[i] = q[i + 1]
  OBVIOUS

Without(q, k) == SubSeq(q, 1, k - 1) \o SubSeq(q, k + 1, Len(q))

LEMMA Removed ==
  ASSUME NEW S, NEW q \in Seq(S), NEW k \in DOMAIN q
  PROVE  /\ Without(q, k) \in Seq(S) /\ Len(Without(q, k)) = Len(q) - 1
         /\ \A i \in DOMAIN Without(q, k) :
              LET j == IF i < k THEN i ELSE i + 1 IN
              j \in DOMAIN q /\ Without(q, k)[i] = q[j] /\ i \in Nat
<1>1. k \in 1 .. Len(q) /\ Len(q) \in Nat /\ DOMAIN q = 1 .. Len(q)
  OBVIOUS
<1> DEFINE a == SubSeq(q, 1, k - 1)
<1> DEFINE b == SubSeq(q, k + 1, Len(q))
<1>2. /\ a \in Seq(S) /\ Len(a) = k - 1
      /\ \A i \in 1 .. k - 1 : a[i] = q[i]
  BY <1>1
<1>3. /\ b \in Seq(S) /\ Len(b) = Len(q) - k
      /\ \A i \in 1 .. Len(q) - k : b[i] = q[k + i]
  BY <1>1
<1> HIDE DEF a, b
<1>4. a \o b \in Seq(S) /\ Len(a \o b) = Len(q) - 1
  <2>1. a \o b \in Seq(S) /\ Len(a \o b) = Len(a) + Len(b)
    BY <1>2, <1>3, Concatenated
  <2> QED
    BY <2>1, <1>1, <1>2, <1>3
<1>5. \A i \in 1 .. k - 1 : (a \o b)[i] = q[i]
  BY <1>1, <1>2, <1>3
<1>6. ASSUME NEW i \in k .. Len(q) - 1 PROVE (a \o b)[i] = q[i + 1]
  <2>1. (a \o b)[i] = b[i - (k - 1)]
    BY <1>1, <1>2, <1>3
  <2>2. i - (k - 1) \in 1 .. Len(q) - k /\ k + (i - (k - 1)) = i + 1
    BY <1>1
  <2> QED
    BY <2>1, <2>2, <1>3
<1> DEFINE r == a \o b
<1>7. r \in Seq(S) /\ Len(r) = Len(q) - 1 /\ DOMAIN r = 1 .. Len(q) - 1
  BY <1>4
<1> HIDE DEF r
<1>8. ASSUME NEW i \in DOMAIN r
      PROVE  LET j == IF i < k THEN i ELSE i + 1 IN
             j \in DOMAIN q /\ r[i] = q[j] /\ i \in Nat
  <2>1. i \in 1 .. Len(q) - 1 /\ i \in Nat
    BY <1>1, <1>7
  <2>2. CASE i < k
    <3>1. i \in 1 .. k - 1 /\ i \in DOMAIN q
      BY <2>1, <2>2, <1>1
    <3>2. r[i] = q[i]
      BY <3>1, <1>5 DEF r
    <3> QED
      BY <3>1, <3>2, <2>1, <2>2
  <2>3. CASE ~(i < k)
    <3>1. i \in k .. Len(q) - 1 /\ i + 1 \in DOMAIN q
      BY <2>1, <2>3, <1>1
    <3>2. r[i] = q[i + 1]
      BY <3>1, <1>6 DEF r
    <3> QED
      BY <3>1, <3>2, <2>1, <2>3
  <2> QED
    BY <2>2, <2>3
<1> QED
  BY <1>7, <1>8 DEF r, a, b, Without

-----------------------------------------------------------------------------
LEMMA Types ==
  /\ NoRow \notin Row /\ NoFrame \notin Got
  /\ NoRow.id = 0 /\ NoFrame.id = 0 /\ NoRow.value = NoValue
  /\ SeqMod \in Nat \ {0}
  /\ \A s \in Slot : MaxWrites[s] \in Nat
BY CommandAssumption DEF NoRow, Row, NoFrame, Got

(* What a wire w has to be for the hub's h, the rows' newest n and the       *)
(* number of writes.                                                         *)
WireInv(w, h, n, last) ==
  /\ \A i, j \in DOMAIN w :
       i < j /\ w[i].slot = w[j].slot => Follows(w[j], w[i])
  /\ \A i \in DOMAIN w :
       /\ Follows(w[i], h[w[i].slot])
       /\ Follows(n[w[i].slot], w[i])
       /\ w[i].id <= last[w[i].slot]
  /\ \A s \in Slot :
       /\ Follows(n[s], h[s])
       /\ h[s].id <= last[s]

newest == [s \in Slot |-> Newest(s)]

RowsInv == \A s \in Slot : rows[s].id <= writes[s] /\ writes[s] <= MaxWrites[s]

LEMMA PathByParts ==
  ASSUME TypeOK
  PROVE  PathInv <=> WireInv(wire, hub, newest, writes) /\ RowsInv
<1>1. ASSUME NEW i \in DOMAIN wire PROVE wire[i].slot \in Slot
  <2>1. wire \in Seq(Frame)
    BY DEF TypeOK
  <2>2. wire[i] \in Frame
    BY <2>1, ElementOf
  <2> QED
    BY <2>2 DEF Frame
<1> QED
  BY <1>1 DEF PathInv, WireInv, newest, RowsInv

LEMMA PathByPartsNext ==
  ASSUME TypeOK', WireInv(wire', hub', newest', writes'), RowsInv'
  PROVE  PathInv'
<1>1. ASSUME NEW i \in DOMAIN wire' PROVE wire'[i].slot \in Slot
  <2>1. wire' \in Seq(Frame)
    BY DEF TypeOK
  <2>2. wire'[i] \in Frame
    BY <2>1, ElementOf
  <2> QED
    BY <2>2 DEF Frame
<1> QED
  BY <1>1 DEF PathInv, WireInv, newest, RowsInv

LEMMA NewestSame ==
  ASSUME rows' = rows
  PROVE  newest' = newest
BY DEF newest, Newest

(* Facts about the places of the path. *)
LEMMA Places ==
  ASSUME IInv, NEW s \in Slot
  PROVE  /\ newest[s] = Newest(s)
         /\ rows[s] = NoRow => newest[s].id = MaxWrites[s] + 1
         /\ rows[s] # NoRow => /\ newest[s].id = rows[s].id
                               /\ newest[s].seq = rows[s].seq % SeqMod
                               /\ rows[s] \in Row
                               /\ FrameOf(s) \in Frame
                               /\ FrameOf(s).slot = s
                               /\ FrameOf(s).id = rows[s].id
                               /\ FrameOf(s).seq = rows[s].seq % SeqMod
         /\ newest[s].id \in Nat
         /\ writes[s] \in Nat /\ hub[s].id \in Nat /\ MaxWrites[s] \in Nat
         /\ writes[s] <= MaxWrites[s] /\ rows[s].id <= writes[s]
<1>1. newest[s] = Newest(s)
  BY DEF newest
<1>2. rows[s] \in Row \cup {NoRow} /\ hub[s] \in Got \cup {NoFrame} /\ writes[s] \in Nat
  BY DEF IInv, TypeOK
<1>3. hub[s].id \in Nat /\ MaxWrites[s] \in Nat
  BY <1>2, Types DEF Got
<1>4. rows[s] # NoRow => rows[s] \in Row /\ rows[s].id \in Nat \ {0} /\ rows[s].seq \in Nat
  BY <1>2 DEF Row
<1>5. rows[s] # NoRow => FrameOf(s) \in Frame
  BY <1>4, Types DEF FrameOf, Frame
<1>6. FrameOf(s).slot = s /\ FrameOf(s).id = rows[s].id /\ FrameOf(s).seq = rows[s].seq % SeqMod
  BY DEF FrameOf
<1>7. writes[s] <= MaxWrites[s] /\ rows[s].id <= writes[s]
  BY DEF IInv, PathInv
<1> QED
  BY <1>1, <1>2, <1>3, <1>4, <1>5, <1>6, <1>7 DEF Newest

LEMMA InitInv == Init => IInv
<1> SUFFICES ASSUME Init PROVE IInv
  OBVIOUS
<1>1. TypeOK
  BY CommandAssumption
  DEF Init, TypeOK, DrainedAtStart, NoSeq, Unwatched
<1>2. ASSUME NEW s \in Slot PROVE Follows(Newest(s), hub[s])
  BY Types DEF Init, Newest, Follows
<1>3. PathInv
  BY <1>2, Types DEF Init, PathInv
<1>4. DrainInv
  <2>1. ASSUME NEW s \in Slot
        PROVE  /\ sent[s] <= writes[s]
               /\ rows[s] # NoRow => FALSE
    BY DEF Init
  <2> QED
    BY <2>1 DEF DrainInv
<1> QED
  BY <1>1, <1>3, <1>4 DEF IInv

-----------------------------------------------------------------------------
(* A newer row at slot s, or none, keeps the path: everything on it is       *)
(* older.                                                                    *)
LEMMA NewerRow ==
  ASSUME WireInv(wire, hub, newest, writes), TypeOK,
         NEW n, NEW last,
         \A s \in Slot : /\ n[s] = newest[s] \/ n[s].id > writes[s]
                         /\ n[s].id \in Nat
                         /\ last[s] \in Nat /\ last[s] >= writes[s]
  PROVE  WireInv(wire, hub, n, last)
<1>1. ASSUME NEW i \in DOMAIN wire
      PROVE  /\ Follows(n[wire[i].slot], wire[i])
             /\ wire[i].id <= last[wire[i].slot]
  <2>1. wire[i].slot \in Slot /\ wire[i].id \in Nat
    <3>1. wire \in Seq(Frame)
      BY DEF TypeOK
    <3>2. wire[i] \in Frame
      BY <3>1, ElementOf
    <3> QED
      BY <3>2 DEF Frame
  <2>2. writes[wire[i].slot] \in Nat
    BY <2>1 DEF TypeOK
  <2>3. wire[i].id <= writes[wire[i].slot] /\ Follows(newest[wire[i].slot], wire[i])
    BY DEF WireInv
  <2> QED
    BY <2>1, <2>2, <2>3 DEF Follows
<1>2. ASSUME NEW s \in Slot
      PROVE  Follows(n[s], hub[s]) /\ hub[s].id <= last[s]
  <2>1. hub[s].id \in Nat /\ writes[s] \in Nat
    BY Types DEF TypeOK, Got
  <2>2. hub[s].id <= writes[s] /\ Follows(newest[s], hub[s])
    BY DEF WireInv
  <2> QED
    BY <2>1, <2>2 DEF Follows
<1>3. /\ \A i, j \in DOMAIN wire :
           i < j /\ wire[i].slot = wire[j].slot => Follows(wire[j], wire[i])
      /\ \A i \in DOMAIN wire : Follows(wire[i], hub[wire[i].slot])
  BY DEF WireInv
<1> QED
  BY <1>1, <1>2, <1>3 DEF WireInv

LEMMA PutInv ==
  ASSUME IInv, NEW s \in Slot, NEW v \in Value, Put(s, v)
  PROVE  IInv'
<1> DEFINE row == [seq |-> next[s], value |-> v, id |-> writes[s] + 1]
<1>1. /\ rows' = [rows EXCEPT ![s] = row]
      /\ writes' = [writes EXCEPT ![s] = writes[s] + 1]
      /\ next' = [next EXCEPT ![s] = next[s] + 1]
      /\ told' = told \cup {s} /\ writes[s] < MaxWrites[s]
      /\ UNCHANGED <<alive, casts, drained, wire, hub, sent, steady>>
  BY DEF Put, owner, IInv, TypeOK
<1>2. next[s] \in Nat /\ writes[s] \in Nat /\ row \in Row /\ MaxWrites[s] \in Nat
  BY Types DEF IInv, TypeOK, Row
<1> HIDE DEF row
<1>3. TypeOK'
  BY <1>1, <1>2 DEF IInv, TypeOK
<1>4. rows'[s] = row /\ writes'[s] = writes[s] + 1 /\ row # NoRow
  BY <1>1, <1>2, Types DEF IInv, TypeOK
<1>5. ASSUME NEW t \in Slot, t # s
      PROVE  rows'[t] = rows[t] /\ writes'[t] = writes[t] /\ newest'[t] = newest[t]
  BY <1>1, <1>5 DEF IInv, TypeOK, newest, Newest
<1>6. newest'[s].id = writes[s] + 1
  BY <1>4 DEF newest, Newest, row
<1>7. WireInv(wire', hub', newest', writes')
  <2>1. ASSUME NEW t \in Slot
        PROVE  /\ newest'[t] = newest[t] \/ newest'[t].id > writes[t]
               /\ newest'[t].id \in Nat
               /\ writes'[t] \in Nat /\ writes'[t] >= writes[t]
    BY <1>2, <1>4, <1>5, <1>6, Places
  <2>2. WireInv(wire, hub, newest, writes) /\ TypeOK
    BY PathByParts DEF IInv
  <2> QED
    BY <2>1, <2>2, <1>1, NewerRow
<1>8. RowsInv'
  <2>1. row.id = writes[s] + 1
    BY DEF row
  <2> QED
    BY <1>1, <1>2, <1>4, <1>5, <2>1, Places DEF RowsInv
<1>9. DrainInv'
  <2>1. ASSUME NEW t \in Slot
        PROVE  /\ sent'[t] <= writes'[t]
               /\ rows'[t] # NoRow =>
                    /\ sent'[t] <= rows'[t].id
                    /\ sent'[t] = rows'[t].id => drained'[t] = rows'[t].seq
    <3>1. sent[t] \in Nat /\ sent[t] <= writes[t]
      BY DEF IInv, TypeOK, DrainInv
    <3>2. row.id = writes[s] + 1
      BY DEF row
    <3>3. CASE t = s
      BY <3>1, <3>2, <3>3, <1>1, <1>2, <1>4
    <3>4. CASE t # s
      BY <3>4, <1>1, <1>5 DEF IInv, DrainInv
    <3> QED
      BY <3>3, <3>4
  <2> QED
    BY <2>1 DEF DrainInv
<1> QED
  BY <1>3, <1>7, <1>8, <1>9, PathByPartsNext DEF IInv

(* Steps that leave rows, wire and hub alone. *)
LEMMA LocalSteps ==
  ASSUME IInv, UNCHANGED <<rows, wire, hub, writes>>,
         TypeOK', DrainInv'
  PROVE  IInv'
<1>1. newest' = newest /\ RowsInv'
  BY PathByParts, NewestSame DEF RowsInv, IInv
<1>2. WireInv(wire', hub', newest', writes')
  BY <1>1, PathByParts DEF IInv
<1> QED
  BY <1>1, <1>2, PathByPartsNext DEF IInv

LEMMA NotifyInv == ASSUME IInv, NEW s \in Slot, Notify(s) PROVE IInv'
<1>1. TypeOK'
  <2>1. casts' = Append(casts, s) \/ casts' = casts
    BY DEF Notify
  <2>2. casts' \in Seq(Slot)
    <3>1. casts \in Seq(Slot)
      BY DEF IInv, TypeOK
    <3> QED
      BY <2>1, <3>1
  <2>3. told' \subseteq Slot /\ steady' \subseteq Slot
    BY DEF Notify, IInv, TypeOK
  <2> QED
    BY <2>2, <2>3 DEF Notify, IInv, TypeOK
<1>2. UNCHANGED <<rows, wire, hub, writes, sent, drained>>
  BY DEF Notify
<1>3. DrainInv'
  BY <1>2 DEF IInv, DrainInv
<1> QED
  BY <1>1, <1>2, <1>3, LocalSteps

LEMMA ViewCrashInv == ASSUME IInv, NEW s \in Slot, ViewCrash(s) PROVE IInv'
<1>1. UNCHANGED <<rows, alive, casts, wire, hub, writes, sent, drained>>
  BY DEF ViewCrash, owner
<1>2. TypeOK'
  BY <1>1, CommandAssumption DEF ViewCrash, IInv, TypeOK
<1>3. DrainInv'
  BY <1>1 DEF IInv, DrainInv
<1> QED
  BY <1>1, <1>2, <1>3, LocalSteps

LEMMA WatchInv == ASSUME IInv, NEW s \in Slot, Watch(s) PROVE IInv'
<1>1. UNCHANGED <<next, told, rows, alive, casts, wire, hub, writes, sent, steady>>
  BY DEF Watch, views, history
<1>2. drained' = [drained EXCEPT ![s] = IF drained[s] = Unwatched THEN NoSeq ELSE drained[s]]
  BY DEF Watch, IInv, TypeOK
<1>3. TypeOK'
  BY <1>1, <1>2 DEF IInv, TypeOK
<1>4. ASSUME NEW t \in Slot, rows[t] # NoRow, sent[t] = rows[t].id
      PROVE  drained'[t] = rows[t].seq
  <2>1. drained[t] = rows[t].seq /\ rows[t] \in Row
    BY <1>4 DEF IInv, TypeOK, DrainInv
  <2>2. drained[t] \in Nat
    BY <2>1 DEF Row
  <2> QED
    BY <2>1, <2>2, <1>2 DEF IInv, TypeOK, Unwatched
<1>5. DrainInv'
  BY <1>1, <1>4 DEF IInv, DrainInv
<1> QED
  BY <1>1, <1>3, <1>5, LocalSteps

LEMMA OwnerCrashInv == ASSUME IInv, OwnerCrash PROVE IInv'
<1>1. UNCHANGED <<next, told, rows, wire, hub, writes, sent, drained>>
  BY DEF OwnerCrash, views
<1>2. TypeOK'
  <2>1. casts' \in Seq(Slot) /\ alive' \in BOOLEAN
    <3>1. casts' = <<>> /\ alive' = FALSE
      BY DEF OwnerCrash
    <3>2. <<>> \in Seq(Slot)
      OBVIOUS
    <3> QED
      BY <3>1, <3>2
  <2>2. steady' \subseteq Slot
    BY DEF OwnerCrash, IInv, TypeOK
  <2> QED
    BY <1>1, <2>1, <2>2 DEF IInv, TypeOK
<1>3. DrainInv'
  BY <1>1 DEF IInv, DrainInv
<1> QED
  BY <1>1, <1>2, <1>3, LocalSteps

LEMMA OwnerRestartInv == ASSUME IInv, OwnerRestart PROVE IInv'
<1>1. /\ UNCHANGED <<next, told, rows, casts, wire, hub, writes, steady>>
      /\ sent' = [s \in Slot |-> 0] /\ drained' = DrainedAtStart /\ alive' = TRUE
  BY DEF OwnerRestart, views
<1>2. TypeOK'
  BY <1>1 DEF DrainedAtStart, IInv, TypeOK
<1>3. DrainInv'
  <2>1. ASSUME NEW s \in Slot
        PROVE  0 <= writes[s] /\ (rows[s] # NoRow => 0 <= rows[s].id /\ rows[s].id # 0)
    BY DEF IInv, TypeOK, Row
  <2> QED
    BY <2>1, <1>1 DEF DrainInv
<1> QED
  BY <1>1, <1>2, <1>3, LocalSteps

LEMMA RegistryRestartInv == ASSUME IInv, RegistryRestart PROVE IInv'
<1>1. /\ UNCHANGED <<next, told, alive, casts, drained, wire, hub, writes, sent, steady>>
      /\ rows' = [s \in Slot |-> NoRow]
  BY DEF RegistryRestart, views, owner, history
<1>2. TypeOK'
  BY <1>1 DEF IInv, TypeOK
<1>3. ASSUME NEW s \in Slot
      PROVE  /\ newest'[s].id > writes[s] /\ newest'[s].id \in Nat
             /\ writes'[s] \in Nat /\ writes'[s] >= writes[s]
             /\ rows'[s].id <= writes'[s] /\ writes'[s] <= MaxWrites[s]
  <2>1. newest'[s].id = MaxWrites[s] + 1
    BY <1>1 DEF newest, Newest
  <2> QED
    BY <2>1, <1>1, Places, Types
<1>4. WireInv(wire', hub', newest', writes')
  BY <1>1, <1>3, NewerRow, PathByParts DEF IInv
<1>5. RowsInv' /\ DrainInv'
  BY <1>1, <1>3 DEF RowsInv, DrainInv, IInv
<1> QED
  BY <1>2, <1>4, <1>5, PathByPartsNext DEF IInv

-----------------------------------------------------------------------------
(* What Drain does, by cases. *)
LEMMA DrainCases ==
  ASSUME IInv, Drain
  PROVE  \E s \in Slot :
           /\ casts' = Tail(casts) /\ casts' \in Seq(Slot)
           /\ UNCHANGED <<next, told, rows, alive, hub, writes, steady>>
           /\ \/ UNCHANGED <<drained, wire, sent>>
              \/ /\ Drainable(s)
                 /\ drained' = [drained EXCEPT ![s] = rows[s].seq]
                 /\ \/ UNCHANGED <<wire, sent>>
                    \/ /\ wire' = Append(wire, FrameOf(s)) \/ wire' = wire
                       /\ sent' = [sent EXCEPT ![s] = rows[s].id]
<1>1. casts \in Seq(Slot) /\ casts # <<>>
  BY DEF IInv, TypeOK, Drain
<1>2. Head(casts) \in Slot /\ Tail(casts) \in Seq(Slot)
  BY <1>1, HeadTail
<1> QED
  BY <1>2 DEF Drain, Transmit, views

LEMMA DrainKeepsInv == ASSUME IInv, Drain PROVE IInv'
<1>1. PICK s \in Slot :
        /\ casts' = Tail(casts) /\ casts' \in Seq(Slot)
        /\ UNCHANGED <<next, told, rows, alive, hub, writes, steady>>
        /\ \/ UNCHANGED <<drained, wire, sent>>
           \/ /\ Drainable(s)
              /\ drained' = [drained EXCEPT ![s] = rows[s].seq]
              /\ \/ UNCHANGED <<wire, sent>>
                 \/ /\ wire' = Append(wire, FrameOf(s)) \/ wire' = wire
                    /\ sent' = [sent EXCEPT ![s] = rows[s].id]
  BY DrainCases
<1>2. CASE UNCHANGED <<drained, wire, sent>>
  <2>1. TypeOK' /\ DrainInv'
    BY <1>1, <1>2 DEF IInv, TypeOK, DrainInv
  <2> QED
    BY <1>1, <1>2, <2>1, LocalSteps
<1>3. CASE /\ Drainable(s)
           /\ drained' = [drained EXCEPT ![s] = rows[s].seq]
           /\ \/ UNCHANGED <<wire, sent>>
              \/ /\ wire' = Append(wire, FrameOf(s)) \/ wire' = wire
                 /\ sent' = [sent EXCEPT ![s] = rows[s].id]
  <2>1. /\ rows[s] \in Row /\ rows[s] # NoRow /\ rows[s].seq \in Nat
        /\ rows[s].id \in Nat /\ FrameOf(s) \in Frame
        /\ FrameOf(s).slot = s /\ FrameOf(s).id = rows[s].id
        /\ FrameOf(s).seq = newest[s].seq /\ newest[s].id = rows[s].id
    BY <1>3, Places DEF Drainable, Row
  <2>2. /\ drained' \in [Slot -> Nat \cup {NoSeq, Unwatched}]
        /\ sent' \in [Slot -> Nat]
    BY <1>3, <2>1 DEF IInv, TypeOK
  <2>3. wire \in Seq(Frame)
    BY DEF IInv, TypeOK
  <2>4. wire' \in Seq(Frame)
    <3>1. Append(wire, FrameOf(s)) \in Seq(Frame)
      BY <2>1, <2>3, Appended
    <3>2. wire' = wire \/ wire' = Append(wire, FrameOf(s))
      BY <1>3
    <3> QED
      BY <2>3, <3>1, <3>2
  <2>5. TypeOK'
    BY <1>1, <2>2, <2>4 DEF IInv, TypeOK
  <2>6. DrainInv'
    <3>1. ASSUME NEW t \in Slot
          PROVE  /\ sent'[t] <= writes[t]
                 /\ rows[t] # NoRow =>
                      /\ sent'[t] <= rows[t].id
                      /\ sent'[t] = rows[t].id => drained'[t] = rows[t].seq
      <4>1. CASE t = s
        <5>1. drained'[s] = rows[s].seq
          BY <1>3 DEF IInv, TypeOK
        <5>2. sent'[s] = sent[s] \/ sent'[s] = rows[s].id
          BY <1>3 DEF IInv, TypeOK
        <5>3. sent[s] <= writes[s] /\ sent[s] <= rows[s].id /\ rows[s].id <= writes[s]
          BY <2>1, Places DEF IInv, DrainInv
        <5> QED
          BY <4>1, <5>1, <5>2, <5>3, <2>1
      <4>2. CASE t # s
        <5>1. sent'[t] = sent[t] /\ drained'[t] = drained[t]
          BY <1>3, <4>2 DEF IInv, TypeOK
        <5> QED
          BY <5>1 DEF IInv, DrainInv
      <4> QED
        BY <4>1, <4>2
    <3> QED
      BY <3>1, <1>1 DEF DrainInv
  <2>7. CASE wire' = wire
    BY <1>1, <2>5, <2>6, <2>7, LocalSteps
  <2>8. CASE wire' = Append(wire, FrameOf(s))
    <3> DEFINE f == FrameOf(s)
    <3>1. /\ DOMAIN wire = 1 .. Len(wire) /\ Len(wire) \in Nat
          /\ DOMAIN wire' = 1 .. Len(wire) + 1
          /\ \A i \in 1 .. Len(wire) : wire'[i] = wire[i]
          /\ wire'[Len(wire) + 1] = f
      BY <2>1, <2>3, <2>8, Appended
    <3>2. WireInv(wire, hub, newest, writes) /\ RowsInv
      BY PathByParts DEF IInv
    <3>3. ASSUME NEW i \in 1 .. Len(wire), wire[i].slot = s
          PROVE  Follows(f, wire[i])
      BY <3>1, <3>2, <3>3, <2>1 DEF WireInv, Follows
    <3>4. Follows(f, hub[s]) /\ Follows(newest[s], f) /\ f.id <= writes[s]
      <4>1. Follows(newest[s], hub[s])
        BY <3>2 DEF WireInv
      <4> QED
        BY <4>1, <2>1, Places DEF Follows
    <3> HIDE DEF f
    <3>5. \A i, j \in DOMAIN wire' :
            i < j /\ wire'[i].slot = wire'[j].slot => Follows(wire'[j], wire'[i])
      <4> SUFFICES ASSUME NEW i \in 1 .. Len(wire) + 1, NEW j \in 1 .. Len(wire) + 1,
                          i < j, wire'[i].slot = wire'[j].slot
                   PROVE  Follows(wire'[j], wire'[i])
        BY <3>1
      <4>1. i \in 1 .. Len(wire) /\ wire'[i] = wire[i]
        BY <3>1
      <4>2. CASE j = Len(wire) + 1
        BY <4>1, <4>2, <3>1, <3>3, <2>1 DEF f
      <4>3. CASE j # Len(wire) + 1
        <5>1. j \in 1 .. Len(wire) /\ wire'[j] = wire[j]
          BY <4>3, <3>1
        <5> QED
          BY <4>1, <5>1, <3>1, <3>2 DEF WireInv
      <4> QED
        BY <4>2, <4>3
    <3>6. ASSUME NEW i \in DOMAIN wire'
          PROVE  /\ Follows(wire'[i], hub[wire'[i].slot])
                 /\ Follows(newest[wire'[i].slot], wire'[i])
                 /\ wire'[i].id <= writes[wire'[i].slot]
      <4>1. CASE i = Len(wire) + 1
        BY <4>1, <3>1, <3>4, <2>1 DEF f
      <4>2. CASE i # Len(wire) + 1
        <5>1. i \in DOMAIN wire /\ wire'[i] = wire[i]
          BY <4>2, <3>1
        <5> QED
          BY <5>1, <3>2 DEF WireInv
      <4> QED
        BY <4>1, <4>2
    <3>7. newest' = newest /\ hub' = hub /\ writes' = writes /\ RowsInv'
      BY <1>1, <3>2, NewestSame DEF RowsInv
    <3>8. WireInv(wire', hub', newest', writes')
      BY <3>2, <3>5, <3>6, <3>7 DEF WireInv
    <3> QED
      BY <2>5, <2>6, <3>7, <3>8, PathByPartsNext DEF IInv
  <2> QED
    BY <1>3, <2>7, <2>8
<1> QED
  BY <1>1, <1>2, <1>3

LEMMA LoseInv ==
  ASSUME IInv, NEW k \in DOMAIN wire, Lose(k)
  PROVE  IInv'
<1>1. /\ UNCHANGED <<next, told, rows, alive, casts, drained, hub, writes, sent, steady>>
      /\ wire' = Without(wire, k)
  BY DEF Lose, views, owner, history, Without
<1>2. /\ wire' \in Seq(Frame)
      /\ \A i \in DOMAIN wire' :
           LET j == IF i < k THEN i ELSE i + 1 IN
           j \in DOMAIN wire /\ wire'[i] = wire[j] /\ i \in Nat
  BY <1>1, Removed DEF IInv, TypeOK
<1>3. TypeOK' /\ DrainInv'
  BY <1>1, <1>2 DEF IInv, TypeOK, DrainInv
<1>4. WireInv(wire, hub, newest, writes) /\ RowsInv
  BY PathByParts DEF IInv
<1>5. \A i, j \in DOMAIN wire' :
        i < j /\ wire'[i].slot = wire'[j].slot => Follows(wire'[j], wire'[i])
  <2> SUFFICES ASSUME NEW i \in DOMAIN wire', NEW j \in DOMAIN wire',
                      i < j, wire'[i].slot = wire'[j].slot
               PROVE  Follows(wire'[j], wire'[i])
    OBVIOUS
  <2> DEFINE a == IF i < k THEN i ELSE i + 1
  <2> DEFINE b == IF j < k THEN j ELSE j + 1
  <2>1. a \in DOMAIN wire /\ wire'[i] = wire[a] /\ b \in DOMAIN wire /\ wire'[j] = wire[b]
    BY <1>2
  <2>2. a < b
    <3>1. i \in Nat /\ j \in Nat
      BY <1>2
    <3>2. k \in Int
      BY DEF IInv, TypeOK
    <3> QED
      BY <3>1, <3>2
  <2> HIDE DEF a, b
  <2> QED
    BY <2>1, <2>2, <1>4 DEF WireInv
<1>6. ASSUME NEW i \in DOMAIN wire'
      PROVE  /\ Follows(wire'[i], hub[wire'[i].slot])
             /\ Follows(newest[wire'[i].slot], wire'[i])
             /\ wire'[i].id <= writes[wire'[i].slot]
  BY <1>2, <1>4 DEF WireInv
<1>7. newest' = newest /\ hub' = hub /\ writes' = writes /\ RowsInv'
  BY <1>1, <1>4, NewestSame DEF RowsInv
<1>8. WireInv(wire', hub', newest', writes')
  BY <1>4, <1>5, <1>6, <1>7 DEF WireInv
<1> QED
  BY <1>3, <1>7, <1>8, PathByPartsNext DEF IInv

LEMMA ArriveInv == ASSUME IInv, Arrive PROVE IInv'
<1> DEFINE f == wire[1]
<1>1. /\ UNCHANGED <<next, told, rows, alive, casts, drained, writes, sent, steady>>
      /\ wire' = Tail(wire) /\ wire # <<>> /\ wire \in Seq(Frame)
      /\ hub' = [hub EXCEPT ![Head(wire).slot] =
                   [seq |-> Head(wire).seq, id |-> Head(wire).id]]
  BY DEF Arrive, views, owner, history, IInv, TypeOK
<1>2. /\ Head(wire) = f /\ f \in Frame /\ 1 \in DOMAIN wire
      /\ wire' \in Seq(Frame)
      /\ \A i \in DOMAIN wire' :
           i \in Nat /\ i + 1 \in DOMAIN wire /\ i + 1 > 1 /\ wire'[i] = wire[i + 1]
  BY <1>1, HeadTail
<1>3. f.slot \in Slot /\ [seq |-> f.seq, id |-> f.id] \in Got
  BY <1>2 DEF Frame, Got
<1> HIDE DEF f
<1>4. /\ hub'[f.slot] = [seq |-> f.seq, id |-> f.id]
      /\ \A s \in Slot : s # f.slot => hub'[s] = hub[s]
  BY <1>1, <1>2, <1>3 DEF IInv, TypeOK
<1>5. hub' \in [Slot -> Got \cup {NoFrame}]
  BY <1>1, <1>2, <1>3 DEF IInv, TypeOK
<1>6. TypeOK' /\ DrainInv'
  BY <1>1, <1>2, <1>5 DEF IInv, TypeOK, DrainInv
<1>7. WireInv(wire, hub, newest, writes) /\ RowsInv
  BY PathByParts DEF IInv
<1>8. \A i, j \in DOMAIN wire' :
        i < j /\ wire'[i].slot = wire'[j].slot => Follows(wire'[j], wire'[i])
  <2> SUFFICES ASSUME NEW i \in DOMAIN wire', NEW j \in DOMAIN wire',
                      i < j, wire'[i].slot = wire'[j].slot
               PROVE  Follows(wire'[j], wire'[i])
    OBVIOUS
  <2>1. /\ i + 1 \in DOMAIN wire /\ wire'[i] = wire[i + 1]
        /\ j + 1 \in DOMAIN wire /\ wire'[j] = wire[j + 1] /\ i + 1 < j + 1
    BY <1>2
  <2> QED
    BY <2>1, <1>7 DEF WireInv
<1>9. ASSUME NEW i \in DOMAIN wire'
      PROVE  /\ Follows(wire'[i], hub'[wire'[i].slot])
             /\ Follows(newest[wire'[i].slot], wire'[i])
             /\ wire'[i].id <= writes[wire'[i].slot]
  <2>1. i + 1 \in DOMAIN wire /\ i + 1 > 1 /\ wire'[i] = wire[i + 1]
    BY <1>2
  <2>2. /\ Follows(wire'[i], hub[wire'[i].slot])
        /\ Follows(newest[wire'[i].slot], wire'[i])
        /\ wire'[i].id <= writes[wire'[i].slot]
    BY <2>1, <1>7 DEF WireInv
  <2>3. wire'[i].slot = f.slot => Follows(wire'[i], f)
    BY <2>1, <1>2, <1>7 DEF WireInv, f
  <2>4. wire'[i].slot \in Slot
    <3>1. wire'[i] \in Frame
      BY <1>2, ElementOf
    <3> QED
      BY <3>1 DEF Frame
  <2>5. CASE wire'[i].slot = f.slot
    BY <2>2, <2>3, <2>5, <1>4 DEF Follows
  <2>6. CASE wire'[i].slot # f.slot
    BY <2>2, <2>4, <2>6, <1>4
  <2> QED
    BY <2>2, <2>5, <2>6
<1>10. ASSUME NEW s \in Slot
       PROVE  Follows(newest[s], hub'[s]) /\ hub'[s].id <= writes[s]
  <2>1. Follows(newest[s], hub[s]) /\ hub[s].id <= writes[s]
    BY <1>7 DEF WireInv
  <2>2. Follows(newest[f.slot], f) /\ f.id <= writes[f.slot]
    BY <1>2, <1>7 DEF WireInv, f
  <2> QED
    BY <2>1, <2>2, <1>4 DEF Follows
<1>11. newest' = newest /\ writes' = writes /\ RowsInv'
  BY <1>1, <1>7, NewestSame DEF RowsInv
<1>12. WireInv(wire', hub', newest', writes')
  BY <1>8, <1>9, <1>10, <1>11 DEF WireInv
<1> QED
  BY <1>6, <1>11, <1>12, PathByPartsNext DEF IInv

LEMMA StepInv == IInv /\ [Next]_vars => IInv'
<1> SUFFICES ASSUME IInv, [Next]_vars PROVE IInv'
  OBVIOUS
<1>1. ASSUME NEW s \in Slot, NEW v \in Value, Put(s, v) PROVE IInv'
  BY <1>1, PutInv
<1>2. ASSUME NEW s \in Slot, Notify(s) \/ ViewCrash(s) \/ Watch(s) PROVE IInv'
  BY <1>2, NotifyInv, ViewCrashInv, WatchInv
<1>3. CASE Drain
  BY <1>3, DrainKeepsInv
<1>4. CASE OwnerCrash \/ OwnerRestart \/ RegistryRestart
  BY <1>4, OwnerCrashInv, OwnerRestartInv, RegistryRestartInv
<1>5. ASSUME NEW k \in DOMAIN wire, Lose(k) PROVE IInv'
  BY <1>5, LoseInv
<1>6. CASE Arrive
  BY <1>6, ArriveInv
<1>7. CASE UNCHANGED vars
  <2>1. UNCHANGED <<next, told, rows, alive, casts, drained, wire, hub, writes, sent, steady>>
    BY <1>7 DEF vars, views, owner, history
  <2>2. TypeOK' /\ DrainInv'
    BY <2>1 DEF IInv, TypeOK, DrainInv
  <2> QED
    BY <2>1, <2>2, LocalSteps
<1> QED
  BY <1>1, <1>2, <1>3, <1>4, <1>5, <1>6, <1>7 DEF Next

-----------------------------------------------------------------------------
(* Every reachable state satisfies IInv, type correctness included: along    *)
(* the path from view to hub the writes get older.                           *)
THEOREM PathSound == Spec => []IInv
<1>1. Init => IInv
  BY InitInv
<1>2. IInv /\ [Next]_vars => IInv'
  BY StepInv
<1> QED
  BY <1>1, <1>2, PTL DEF Spec

(* The only step at which the hub gets something is Arrive. *)
LEMMA HubSteps ==
  ASSUME IInv, [Next]_vars
  PROVE  hub' = hub \/ Arrive
BY DEF Next, vars, views, owner, history, Put, Notify, ViewCrash, Watch, Drain,
       OwnerCrash, OwnerRestart, RegistryRestart, Lose

(* The hub takes nothing for an advance but a newer command of the view: see *)
(* NoManufacturedAdvance.                                                    *)
THEOREM AdvancesAreWrites == Spec => NoManufacturedAdvance
<1> DEFINE A == \A s \in Slot :
                  /\ hub'[s].id >= hub[s].id
                  /\ hub'[s].seq # hub[s].seq => hub'[s].id > hub[s].id
<1>1. ASSUME IInv, [Next]_vars PROVE A
  <2> SUFFICES ASSUME NEW s \in Slot
               PROVE  /\ hub'[s].id >= hub[s].id
                      /\ hub'[s].seq # hub[s].seq => hub'[s].id > hub[s].id
    OBVIOUS
  <2>1. hub[s].id \in Nat
    BY <1>1, Places
  <2>2. CASE hub' = hub
    BY <2>1, <2>2
  <2>3. CASE Arrive
    <3>1. /\ wire \in Seq(Frame) /\ wire # <<>>
          /\ hub' = [hub EXCEPT ![Head(wire).slot] =
                       [seq |-> Head(wire).seq, id |-> Head(wire).id]]
      BY <1>1, <2>3 DEF Arrive, IInv, TypeOK
    <3>2. Head(wire) = wire[1] /\ wire[1] \in Frame /\ 1 \in DOMAIN wire
      BY <3>1, HeadTail
    <3>3. Follows(wire[1], hub[wire[1].slot]) /\ wire[1].id \in Nat
      BY <3>2, <1>1 DEF IInv, PathInv, Frame
    <3>4. CASE s = wire[1].slot
      <4>1. hub'[s] = [seq |-> wire[1].seq, id |-> wire[1].id]
        BY <3>1, <3>2, <3>4, <1>1 DEF IInv, TypeOK
      <4> QED
        BY <4>1, <3>3, <3>4, <2>1 DEF Follows
    <3>5. CASE s # wire[1].slot
      <4>1. hub'[s] = hub[s]
        BY <3>1, <3>2, <3>5, <1>1 DEF IInv, TypeOK
      <4> QED
        BY <4>1, <2>1
    <3> QED
      BY <3>4, <3>5
  <2> QED
    BY <1>1, <2>2, <2>3, HubSteps
<1> QED
  BY <1>1, PathSound, PTL DEF Spec, NoManufacturedAdvance

(* No write is handed to the transport twice by one link owner: see          *)
(* OncePerWrite.                                                             *)
THEOREM WritesAreSentOnce == Spec => OncePerWrite
<1> DEFINE A == Len(wire') > Len(wire) =>
                  LET f == wire'[Len(wire')] IN f.id > sent[f.slot]
<1>1. ASSUME IInv, [Next]_vars PROVE A
  <2> SUFFICES ASSUME Len(wire') > Len(wire)
               PROVE  wire'[Len(wire')].id > sent[wire'[Len(wire')].slot]
    OBVIOUS
  <2>1. wire \in Seq(Frame) /\ Len(wire) \in Nat
    BY <1>1 DEF IInv, TypeOK
  <2>2. CASE Drain
    <3>1. PICK s \in Slot :
            \/ UNCHANGED <<drained, wire, sent>>
            \/ /\ Drainable(s)
               /\ \/ UNCHANGED <<wire, sent>>
                  \/ wire' = Append(wire, FrameOf(s)) \/ wire' = wire
      BY <1>1, <2>2, DrainCases
    <3>2. Drainable(s) /\ wire' = Append(wire, FrameOf(s))
      BY <3>1, <2>1
    <3>3. /\ rows[s] # NoRow /\ rows[s].seq # drained[s] /\ FrameOf(s) \in Frame
          /\ FrameOf(s).slot = s /\ FrameOf(s).id = rows[s].id
          /\ rows[s].id \in Nat
      BY <1>1, <3>2, Places DEF Drainable, Row
    <3>4. wire'[Len(wire')] = FrameOf(s)
      BY <2>1, <3>2, <3>3, Appended
    <3>5. sent[s] <= rows[s].id /\ sent[s] # rows[s].id /\ sent[s] \in Nat
      BY <1>1, <3>3 DEF IInv, DrainInv, TypeOK
    <3> QED
      BY <3>3, <3>4, <3>5
  <2>3. CASE ~Drain
    <3>1. wire' = wire \/ (\E k \in DOMAIN wire : wire' = Without(wire, k))
                       \/ (wire # <<>> /\ wire' = Tail(wire))
      BY <1>1, <2>3
      DEF Next, vars, views, owner, history, Put, Notify, ViewCrash, Watch,
          OwnerCrash, OwnerRestart, RegistryRestart, Lose, Arrive, Without
    <3>2. Len(wire') <= Len(wire)
      BY <2>1, <3>1, Removed, HeadTail
    <3> QED
      BY <2>1, <3>2
  <2> QED
    BY <2>2, <2>3
<1> QED
  BY <1>1, PathSound, PTL DEF Spec, OncePerWrite

-----------------------------------------------------------------------------
(* The stop path: the controller's mailbox.                                 *)

LEMMA MailAppended ==
  ASSUME NEW S, NEW q \in Seq(S), NEW e \in S
  PROVE  /\ Append(q, e) \in Seq(S)
         /\ Len(Append(q, e)) = Len(q) + 1 /\ Len(q) \in Nat
         /\ DOMAIN Append(q, e) = 1 .. Len(q) + 1
         /\ \A i \in 1 .. Len(q) : Append(q, e)[i] = q[i]
         /\ Append(q, e)[Len(q) + 1] = e
OBVIOUS

LEMMA Taken ==
  ASSUME NEW S, NEW q \in Seq(S), q # <<>>
  PROVE  /\ Head(q) \in S /\ Head(q) = q[1] /\ Tail(q) \in Seq(S)
         /\ Len(q) \in Nat \ {0} /\ Len(Tail(q)) = Len(q) - 1
         /\ DOMAIN Tail(q) = 1 .. Len(q) - 1
         /\ \A i \in 1 .. Len(q) - 1 : Tail(q)[i] = q[i + 1]
OBVIOUS

(* What the places of a mailbox up to i - 1 say about a message at i does    *)
(* not change when a message is added behind them.                          *)
LEMMA AppendKeeps ==
  ASSUME StopTypeOK, NEW e \in Message, box' = Append(box, e),
         UNCHANGED <<armed, enabled>>, NEW i \in 1 .. Len(box) + 1
  PROVE  /\ UnarmedAt(i) => UnarmedAt(i)'
         /\ OffAt(i) => OffAt(i)'
<1>1. /\ Len(box) \in Nat /\ \A k \in 1 .. i - 1 : box'[k] = box[k]
  BY MailAppended DEF StopTypeOK
<1>2. UnarmedAt(i) => UnarmedAt(i)'
  BY <1>1 DEF UnarmedAt
<1>3. OffAt(i) => OffAt(i)'
  BY <1>1 DEF OffAt
<1>. QED  BY <1>2, <1>3

(* A notice or a toggle that goes last is what the next message will find.   *)
LEMMA LastNotice ==
  ASSUME StopTypeOK, NEW e \in Message, box' = Append(box, e), NEW n, n = Len(box) + 1
  PROVE  /\ Len(box') = n
         /\ e.type = "state" /\ ~e.armed => UnarmedAt(n + 1)'
         /\ e.type = "toggle" /\ ~e.on => OffAt(n + 1)'
         /\ e.type # "state" /\ armed' = armed /\ UnarmedAt(n) => UnarmedAt(n + 1)'
         /\ e.type # "toggle" /\ enabled' = enabled /\ OffAt(n) => OffAt(n + 1)'
<1>1. /\ n \in Nat /\ n > 0 /\ n + 1 - 1 = n /\ Len(box') = n /\ box'[n] = e
      /\ \A k \in 1 .. n - 1 : box'[k] = box[k]
  BY MailAppended DEF StopTypeOK
<1>2. n \in 1 .. n /\ \A k \in n + 1 .. n : FALSE
  BY <1>1
<1>3. e.type = "state" /\ ~e.armed => UnarmedAt(n + 1)'
  BY <1>1, <1>2 DEF UnarmedAt
<1>4. e.type = "toggle" /\ ~e.on => OffAt(n + 1)'
  BY <1>1, <1>2 DEF OffAt
<1>5. \A k \in 1 .. n : k = n \/ k \in 1 .. n - 1
  BY <1>1
<1>6. ASSUME e.type # "state", armed' = armed, UnarmedAt(n)
      PROVE  UnarmedAt(n + 1)'
  <2>1. CASE \E j \in 1 .. n - 1 : /\ box[j].type = "state" /\ ~box[j].armed
                                   /\ \A k \in j + 1 .. n - 1 : box[k].type # "state"
    <3>1. PICK j \in 1 .. n - 1 : /\ box[j].type = "state" /\ ~box[j].armed
                                  /\ \A k \in j + 1 .. n - 1 : box[k].type # "state"
      BY <2>1
    <3>2. /\ j \in 1 .. n
          /\ \A k \in j + 1 .. n : k = n \/ (k \in j + 1 .. n - 1 /\ k \in 1 .. n - 1)
      BY <1>1
    <3>3. /\ box'[j].type = "state" /\ ~box'[j].armed
          /\ \A k \in j + 1 .. n : box'[k].type # "state"
      BY <1>1, <1>6, <3>1, <3>2
    <3>. QED  BY <1>1, <3>2, <3>3 DEF UnarmedAt
  <2>2. CASE ~armed /\ \A k \in 1 .. n - 1 : box[k].type # "state"
    <3>1. ~armed' /\ \A k \in 1 .. n : box'[k].type # "state"
      BY <1>1, <1>5, <1>6, <2>2
    <3>. QED  BY <1>1, <3>1 DEF UnarmedAt
  <2>. QED  BY <1>6, <2>1, <2>2 DEF UnarmedAt
<1>7. ASSUME e.type # "toggle", enabled' = enabled, OffAt(n)
      PROVE  OffAt(n + 1)'
  <2>1. CASE \E j \in 1 .. n - 1 : /\ box[j].type = "toggle" /\ ~box[j].on
                                   /\ \A k \in j + 1 .. n - 1 : box[k].type # "toggle"
    <3>1. PICK j \in 1 .. n - 1 : /\ box[j].type = "toggle" /\ ~box[j].on
                                  /\ \A k \in j + 1 .. n - 1 : box[k].type # "toggle"
      BY <2>1
    <3>2. /\ j \in 1 .. n
          /\ \A k \in j + 1 .. n : k = n \/ (k \in j + 1 .. n - 1 /\ k \in 1 .. n - 1)
      BY <1>1
    <3>3. /\ box'[j].type = "toggle" /\ ~box'[j].on
          /\ \A k \in j + 1 .. n : box'[k].type # "toggle"
      BY <1>1, <1>7, <3>1, <3>2
    <3>. QED  BY <1>1, <3>2, <3>3 DEF OffAt
  <2>2. CASE ~enabled /\ \A k \in 1 .. n - 1 : box[k].type # "toggle"
    <3>1. ~enabled' /\ \A k \in 1 .. n : box'[k].type # "toggle"
      BY <1>1, <1>5, <1>7, <2>2
    <3>. QED  BY <1>1, <3>1 DEF OffAt
  <2>. QED  BY <1>7, <2>1, <2>2 DEF OffAt
<1>. QED  BY <1>1, <1>3, <1>4, <1>6, <1>7

(* Taking the first message of the mailbox leaves what the others will find, *)
(* if the flag takes up what that message said.                             *)
LEMMA TailKeeps ==
  ASSUME StopTypeOK, box # <<>>, box' = Tail(box), NEW i \in 1 .. Len(box)
  PROVE  /\ armed' = (IF Head(box).type = "state" THEN Head(box).armed ELSE armed)
              /\ UnarmedAt(i + 1) => UnarmedAt(i)'
         /\ enabled' = (IF Head(box).type = "toggle" THEN Head(box).on ELSE enabled)
              /\ OffAt(i + 1) => OffAt(i)'
<1>1. /\ Len(box) \in Nat /\ Head(box) = box[1]
      /\ \A k \in 1 .. i - 1 : box'[k] = box[k + 1] /\ k + 1 \in 1 .. i
  BY Taken DEF StopTypeOK
<1>2. ASSUME armed' = (IF Head(box).type = "state" THEN Head(box).armed ELSE armed),
             UnarmedAt(i + 1)
      PROVE  UnarmedAt(i)'
  <2>1. CASE \E j \in 1 .. i : /\ box[j].type = "state" /\ ~box[j].armed
                               /\ \A k \in j + 1 .. i : box[k].type # "state"
    <3>1. PICK j \in 1 .. i : /\ box[j].type = "state" /\ ~box[j].armed
                              /\ \A k \in j + 1 .. i : box[k].type # "state"
      BY <2>1
    <3>2. CASE j = 1
      <4>1. ~armed'
        BY <1>1, <1>2, <3>1, <3>2
      <4>2. \A k \in 1 .. i - 1 : box'[k].type # "state"
        BY <1>1, <3>1, <3>2
      <4>. QED  BY <4>1, <4>2 DEF UnarmedAt
    <3>3. CASE j # 1
      <4>1. /\ j - 1 \in 1 .. i - 1 /\ box'[j - 1] = box[j]
            /\ \A k \in j - 1 + 1 .. i - 1 : box'[k].type # "state"
        BY <1>1, <3>1, <3>3
      <4>. QED  BY <4>1, <3>1 DEF UnarmedAt
    <3>. QED  BY <3>2, <3>3
  <2>2. CASE ~armed /\ \A k \in 1 .. i : box[k].type # "state"
    <3>1. ~armed'
      BY <1>1, <1>2, <2>2
    <3>2. \A k \in 1 .. i - 1 : box'[k].type # "state"
      BY <1>1, <2>2
    <3>. QED  BY <3>1, <3>2 DEF UnarmedAt
  <2>. QED
    <3>1. i + 1 - 1 = i  OBVIOUS
    <3>. QED  BY <1>2, <2>1, <2>2, <3>1 DEF UnarmedAt
<1>3. ASSUME enabled' = (IF Head(box).type = "toggle" THEN Head(box).on ELSE enabled),
             OffAt(i + 1)
      PROVE  OffAt(i)'
  <2>1. CASE \E j \in 1 .. i : /\ box[j].type = "toggle" /\ ~box[j].on
                               /\ \A k \in j + 1 .. i : box[k].type # "toggle"
    <3>1. PICK j \in 1 .. i : /\ box[j].type = "toggle" /\ ~box[j].on
                              /\ \A k \in j + 1 .. i : box[k].type # "toggle"
      BY <2>1
    <3>2. CASE j = 1
      <4>1. ~enabled'
        BY <1>1, <1>3, <3>1, <3>2
      <4>2. \A k \in 1 .. i - 1 : box'[k].type # "toggle"
        BY <1>1, <3>1, <3>2
      <4>. QED  BY <4>1, <4>2 DEF OffAt
    <3>3. CASE j # 1
      <4>1. /\ j - 1 \in 1 .. i - 1 /\ box'[j - 1] = box[j]
            /\ \A k \in j - 1 + 1 .. i - 1 : box'[k].type # "toggle"
        BY <1>1, <3>1, <3>3
      <4>. QED  BY <4>1, <3>1 DEF OffAt
    <3>. QED  BY <3>2, <3>3
  <2>2. CASE ~enabled /\ \A k \in 1 .. i : box[k].type # "toggle"
    <3>1. ~enabled'
      BY <1>1, <1>3, <2>2
    <3>2. \A k \in 1 .. i - 1 : box'[k].type # "toggle"
      BY <1>1, <2>2
    <3>. QED  BY <3>1, <3>2 DEF OffAt
  <2>. QED
    <3>1. i + 1 - 1 = i  OBVIOUS
    <3>. QED  BY <1>3, <2>1, <2>2, <3>1 DEF OffAt
<1>. QED  BY <1>2, <1>3

LEMMA FirstFinds ==
  /\ UnarmedAt(1) => ~armed
  /\ OffAt(1) => ~enabled
<1>. 1 .. 1 - 1 = {}  OBVIOUS
<1>. QED  BY DEF UnarmedAt, OffAt

LEMMA EmptyBox ==
  ASSUME box' = <<>>, ~armed', ~enabled'
  PROVE  BoxInv'
<1>1. DOMAIN box' = {} /\ Len(box') = 0
  BY DEF Message
<1>2. 1 .. 0 + 1 - 1 = {}
  OBVIOUS
<1>3. UnarmedAt(Len(box) + 1)' /\ OffAt(Len(box) + 1)'
  BY <1>1, <1>2 DEF UnarmedAt, OffAt
<1>. QED  BY <1>1, <1>3 DEF BoxInv

LEMMA StopInitInv == StopInit => StopInv
<1>. SUFFICES ASSUME StopInit PROVE StopInv
  OBVIOUS
<1>1. StopTypeOK
  <2>1. box \in Seq(Message) /\ todo \in Seq(Wheel)
    BY DEF StopInit
  <2>2. pose \in Pose /\ asked \in BOOLEAN
    BY StopAssumption DEF StopInit, Pose, NoPose
  <2>3. path \in [Wheel -> 0 .. PathCap] /\ idle \in [Wheel -> 0 .. Bound]
    BY StopAssumption DEF StopInit
  <2>. QED  BY <2>1, <2>2, <2>3 DEF StopInit, StopTypeOK
<1>2. BoxInv
  <2>1. DOMAIN box = {} /\ Len(box) = 0 /\ 1 .. 0 + 1 - 1 = {}
    BY DEF StopInit
  <2>2. UnarmedAt(Len(box) + 1) /\ OffAt(Len(box) + 1)
    BY <2>1 DEF StopInit, UnarmedAt, OffAt
  <2>. QED  BY <2>1, <2>2 DEF BoxInv
<1>3. StartInv /\ DisarmObeyed /\ DisableObeyed
  BY DEF StopInit, StartInv, DisarmObeyed, DisableObeyed
<1>. QED  BY <1>1, <1>2, <1>3 DEF StopInv

(* Steps that touch neither the mailbox nor the flags, and stop nothing.     *)
LEMMA BoxUntouched ==
  ASSUME StopInv, UNCHANGED <<asked, armed, enabled, box>>, Stopped' => Stopped
  PROVE  BoxInv'
BY DEF StopInv, BoxInv, UnarmedAt, OffAt

(* A message goes last: a pose with what is true now, a notice of the state, *)
(* or a toggle that was asked for.                                          *)
LEMMA BoxGrows ==
  ASSUME StopInv, NEW e \in Message, box' = Append(box, e), UNCHANGED <<armed, enabled>>,
         e.type = "pose" => /\ e.stopped = Stopped /\ e.off = ~asked
                            /\ Stopped' = Stopped /\ asked' = asked,
         e.type = "state" => (Stopped' => ~e.armed) /\ asked' = asked,
         e.type = "toggle" => Stopped' = Stopped /\ asked' = e.on
  PROVE  BoxInv'
<1>0. PICK n \in Nat : n = Len(box) + 1
  BY DEF StopInv, StopTypeOK
<1>1. n = Len(box) + 1 /\ n \in Nat /\ DOMAIN box = 1 .. n - 1
  BY <1>0 DEF StopInv, StopTypeOK
<1>2. /\ DOMAIN box' = 1 .. n /\ box'[n] = e /\ Len(box') = n
      /\ \A i \in 1 .. n - 1 : box'[i] = box[i]
  BY <1>1, MailAppended DEF StopInv, StopTypeOK
<1>3. e.type \in {"pose", "state", "toggle"}
  BY DEF Message, Pose, Notice, Toggle
<1>4. StopTypeOK
  BY DEF StopInv
<1>5. /\ Stopped' => UnarmedAt(n + 1)'
      /\ ~asked' /\ ~StartEnabled => OffAt(n + 1)'
  <2>1. /\ e.type = "state" /\ ~e.armed => UnarmedAt(n + 1)'
        /\ e.type = "toggle" /\ ~e.on => OffAt(n + 1)'
        /\ e.type # "state" /\ UnarmedAt(n) => UnarmedAt(n + 1)'
        /\ e.type # "toggle" /\ OffAt(n) => OffAt(n + 1)'
    BY <1>1, <1>4, LastNotice
  <2>2. /\ Stopped => UnarmedAt(n)
        /\ ~asked /\ ~StartEnabled => OffAt(n)
    BY <1>1 DEF StopInv, BoxInv
  <2>. QED  BY <1>3, <2>1, <2>2
<1>6. ASSUME NEW i \in 1 .. n, box'[i].type = "pose"
      PROVE  /\ box'[i].stopped => UnarmedAt(i)'
             /\ box'[i].off /\ ~StartEnabled => OffAt(i)'
  <2>1. /\ UnarmedAt(i) => UnarmedAt(i)'
        /\ OffAt(i) => OffAt(i)'
    BY <1>1, <1>4, AppendKeeps
  <2>2. CASE i = n
    <3>1. /\ box'[i].stopped => UnarmedAt(i)
          /\ box'[i].off /\ ~StartEnabled => OffAt(i)
      BY <1>1, <1>2, <1>6, <2>2 DEF StopInv, BoxInv
    <3>. QED  BY <2>1, <3>1
  <2>3. CASE i # n
    <3>1. i \in 1 .. n - 1 /\ box'[i] = box[i]
      BY <1>1, <1>2, <2>3
    <3>2. /\ box[i].stopped => UnarmedAt(i)
          /\ box[i].off /\ ~StartEnabled => OffAt(i)
      BY <1>1, <1>6, <3>1 DEF StopInv, BoxInv
    <3>. QED  BY <2>1, <3>1, <3>2
  <2>. QED  BY <2>2, <2>3
<1>7. (UnarmedAt(n + 1)' <=> UnarmedAt(Len(box) + 1)') /\ (OffAt(n + 1)' <=> OffAt(Len(box) + 1)')
  BY <1>2 DEF UnarmedAt, OffAt
<1>. QED  BY <1>2, <1>5, <1>6, <1>7 DEF BoxInv

(* A message is taken, and the flags take up what it says. *)
LEMMA BoxShrinks ==
  ASSUME StopInv, box # <<>>, box' = Tail(box), UNCHANGED robot,
         armed' = (IF Head(box).type = "state" THEN Head(box).armed ELSE armed),
         enabled' = (IF Head(box).type = "toggle" THEN Head(box).on ELSE enabled)
  PROVE  BoxInv'
<1>0. PICK n \in Nat : n = Len(box)
  BY DEF StopInv, StopTypeOK
<1>1. /\ n = Len(box) /\ n \in Nat \ {0} /\ DOMAIN box = 1 .. n
      /\ DOMAIN box' = 1 .. n - 1 /\ Len(box') = n - 1
      /\ \A i \in 1 .. n - 1 : box'[i] = box[i + 1]
  BY <1>0, Taken DEF StopInv, StopTypeOK
<1>2. ASSUME NEW i \in 1 .. n
      PROVE  /\ UnarmedAt(i + 1) => UnarmedAt(i)'
             /\ OffAt(i + 1) => OffAt(i)'
  BY <1>1, TailKeeps DEF StopInv
<1>3. ASSUME NEW i \in 1 .. n - 1, box'[i].type = "pose"
      PROVE  /\ box'[i].stopped => UnarmedAt(i)'
             /\ box'[i].off /\ ~StartEnabled => OffAt(i)'
  <2>1. i + 1 \in 1 .. n /\ i \in 1 .. n /\ box'[i] = box[i + 1]
    BY <1>1
  <2>2. /\ box[i + 1].stopped => UnarmedAt(i + 1)
        /\ box[i + 1].off /\ ~StartEnabled => OffAt(i + 1)
    BY <1>1, <1>3, <2>1 DEF StopInv, BoxInv
  <2>. QED  BY <1>2, <2>1, <2>2
<1>4. /\ Stopped' => UnarmedAt(n)'
      /\ ~asked' /\ ~StartEnabled => OffAt(n)'
  <2>1. /\ Stopped => UnarmedAt(n + 1)
        /\ ~asked /\ ~StartEnabled => OffAt(n + 1)
    BY <1>1 DEF StopInv, BoxInv
  <2>2. Stopped' = Stopped /\ asked' = asked
    BY DEF Stopped, robot
  <2>. QED  BY <1>1, <1>2, <2>1, <2>2
<1>5. n = Len(box') + 1
  BY <1>1
<1>6. (UnarmedAt(n)' <=> UnarmedAt(Len(box) + 1)') /\ (OffAt(n)' <=> OffAt(Len(box) + 1)')
  BY <1>5 DEF UnarmedAt, OffAt
<1>. QED  BY <1>1, <1>3, <1>4, <1>6 DEF BoxInv

(* Every action keeps the types. *)
LEMMA TypeStep == ASSUME StopTypeOK, StopNext PROVE StopTypeOK'
<1>. USE StopAssumption
<1>1. CASE SafetyChange
  BY <1>1 DEF SafetyChange, StopTypeOK, flags, wheels
<1>2. CASE Announce
  <2>1. [type |-> "state", armed |-> ~safe] \in Message
    BY DEF Message, Notice
  <2>2. box' \in Seq(Message)
    BY <1>2, <2>1, MailAppended DEF Announce, StopTypeOK
  <2>. QED  BY <1>2, <2>2 DEF Announce, StopTypeOK, flags, wheels
<1>3. CASE Subscribe \/ Seed
  BY <1>3 DEF Subscribe, Seed, StopTypeOK, robot, wheels
<1>4. CASE Crash
  <2>1. box' \in Seq(Message) /\ todo' \in Seq(Wheel) /\ pose' \in Pose
    BY <1>4 DEF Crash, Pose, NoPose
  <2>. QED  BY <1>4, <2>1 DEF Crash, StopTypeOK, robot, wheels
<1>5. CASE Sense
  <2>1. [type |-> "pose", stopped |-> Stopped, off |-> ~asked] \in Message
    BY DEF Message, Pose, StopTypeOK, Stopped
  <2>2. box' \in Seq(Message)
    BY <1>5, <2>1, MailAppended DEF Sense, StopTypeOK
  <2>. QED  BY <1>5, <2>2 DEF Sense, StopTypeOK, robot, flags, wheels
<1>6. ASSUME NEW on \in BOOLEAN, Ask(on) PROVE StopTypeOK'
  <2>1. [type |-> "toggle", on |-> on] \in Message
    BY DEF Message, Toggle
  <2>2. box' \in Seq(Message)
    BY <1>6, <2>1, MailAppended DEF Ask, StopTypeOK
  <2>. QED  BY <1>6, <2>2 DEF Ask, StopTypeOK, flags, wheels
<1>7. ASSUME NEW type \in {"pose", "state", "toggle"}, Receive(type)
      PROVE  /\ box' \in Seq(Message) /\ Head(box).type = type
             /\ type = "pose" => Head(box) \in Pose
             /\ type = "state" => Head(box) \in Notice
             /\ type = "toggle" => Head(box) \in Toggle
  <2>1. box' \in Seq(Message) /\ Head(box) \in Message
    BY <1>7, Taken DEF Receive, StopTypeOK
  <2>. QED  BY <1>7, <2>1 DEF Receive, Message, Pose, Notice, Toggle
<1>8. CASE HandlePose
  <2>1. box' \in Seq(Message) /\ Head(box) \in Pose
    BY <1>7, <1>8 DEF HandlePose
  <2>2. todo' \in Seq(Wheel)
    BY <1>8 DEF HandlePose, StopAssumption
  <2>. QED  BY <1>8, <2>1, <2>2 DEF HandlePose, StopTypeOK, robot, flags, wheels
<1>9. CASE HandleState
  <2>1. box' \in Seq(Message) /\ Head(box) \in Notice
    BY <1>7, <1>9 DEF HandleState
  <2>. QED  BY <1>9, <2>1 DEF HandleState, StopTypeOK, Notice, robot, wheels
<1>10. CASE HandleToggle
  <2>1. box' \in Seq(Message) /\ Head(box) \in Toggle
    BY <1>7, <1>10 DEF HandleToggle
  <2>. QED  BY <1>10, <2>1 DEF HandleToggle, StopTypeOK, Toggle, robot, wheels
<1>11. CASE Publish
  <2>1. todo' \in Seq(Wheel) /\ Head(todo) \in Wheel
    BY <1>11, Taken DEF Publish, StopTypeOK
  <2>2. path' \in [Wheel -> 0 .. PathCap]
    <3>1. PathCap \in Nat /\ path \in [Wheel -> 0 .. PathCap]
      BY StopAssumption DEF StopTypeOK
    <3>2. path[Head(todo)] < PathCap => path[Head(todo)] + 1 \in 0 .. PathCap
      BY <2>1, <3>1
    <3>3. PICK n \in 0 .. PathCap : path' = [path EXCEPT ![Head(todo)] = n]
      BY <1>11, <2>1, <3>1, <3>2 DEF Publish
    <3>. QED  BY <3>1, <3>3
  <2>. QED  BY <1>11, <2>1, <2>2 DEF Publish, StopTypeOK, robot, flags
<1>12. ASSUME NEW w \in Wheel, LoseCommand(w) \/ TakeCommand(w) \/ HubTick(w) PROVE StopTypeOK'
  <2>1. /\ path \in [Wheel -> 0 .. PathCap] /\ idle \in [Wheel -> 0 .. Bound]
        /\ PathCap \in Nat /\ Bound \in Nat
    BY StopAssumption DEF StopTypeOK
  <2>2. path[w] > 0 => path[w] - 1 \in 0 .. PathCap
    BY <2>1
  <2>3. idle[w] < Bound => idle[w] + 1 \in 0 .. Bound
    BY <2>1
  <2>4. path' \in [Wheel -> 0 .. PathCap]
    <3>1. PICK n \in 0 .. PathCap : path' = [path EXCEPT ![w] = n]
      BY <1>12, <2>1, <2>2 DEF LoseCommand, TakeCommand, HubTick
    <3>. QED  BY <2>1, <3>1
  <2>5. idle' \in [Wheel -> 0 .. Bound]
    <3>1. PICK n \in 0 .. Bound : idle' = [idle EXCEPT ![w] = n]
      BY <1>12, <2>1, <2>3 DEF LoseCommand, TakeCommand, HubTick
    <3>. QED  BY <2>1, <3>1
  <2>. QED  BY <1>12, <2>4, <2>5 DEF LoseCommand, TakeCommand, HubTick, StopTypeOK, robot, flags
<1>. QED  BY <1>1, <1>2, <1>3, <1>4, <1>5, <1>6, <1>8, <1>9, <1>10, <1>11, <1>12
          DEF StopNext, Handle

(* Every action keeps what the mailbox says of its messages. *)
LEMMA BoxStep == ASSUME StopInv, StopNext PROVE BoxInv'
<1>. USE DEF robot, flags, wheels
<1>1. CASE SafetyChange
  <2>1. ~Stopped'
    BY <1>1 DEF SafetyChange, Stopped, StopInv, StopTypeOK
  <2>. QED  BY <1>1, <2>1, BoxUntouched DEF SafetyChange
<1>2. CASE Announce
  <2>1. CASE phase = "down"
    BY <1>2, <2>1, EmptyBox DEF Announce, StopInv, StartInv
  <2>2. CASE phase # "down"
    <3>. DEFINE e == [type |-> "state", armed |-> ~safe]
    <3>1. e \in Message /\ e.type = "state" /\ e.armed = ~safe
      BY DEF Message, Notice
    <3>2. box' = Append(box, e) /\ UNCHANGED <<armed, enabled, asked>> /\ safe' = safe
      BY <1>2, <2>2 DEF Announce
    <3>3. Stopped' => ~e.armed
      BY <3>2 DEF Stopped
    <3>. HIDE DEF e
    <3>. QED  BY <3>1, <3>2, <3>3, BoxGrows
  <2>. QED  BY <2>1, <2>2
<1>3. CASE Subscribe
  BY <1>3, BoxUntouched DEF Subscribe, Stopped
<1>4. CASE Seed
  <2>1. /\ \A i \in DOMAIN box' : box'[i].type # "pose"
        /\ box' = box /\ ~armed /\ ~enabled
    BY <1>4 DEF Seed, StopInv, StartInv
  <2>2. Stopped' => UnarmedAt(Len(box) + 1)'
    BY <1>4, <2>1 DEF Seed, StopInv, BoxInv, Stopped, UnarmedAt
  <2>3. ~asked' /\ ~StartEnabled => OffAt(Len(box) + 1)'
    BY <1>4, <2>1 DEF Seed, StopInv, BoxInv, OffAt
  <2>. QED  BY <2>1, <2>2, <2>3 DEF BoxInv
<1>5. CASE Crash
  BY <1>5, EmptyBox DEF Crash
<1>6. CASE Sense
  <2>. DEFINE e == [type |-> "pose", stopped |-> Stopped, off |-> ~asked]
  <2>1. /\ e \in Message /\ e.type = "pose" /\ e.stopped = Stopped /\ e.off = ~asked
    BY DEF Message, Pose, StopInv, StopTypeOK, Stopped
  <2>2. box' = Append(box, e) /\ UNCHANGED <<armed, enabled, asked>> /\ Stopped' = Stopped
    BY <1>6 DEF Sense, Stopped
  <2>. HIDE DEF e
  <2>. QED  BY <2>1, <2>2, BoxGrows
<1>7. ASSUME NEW on \in BOOLEAN, Ask(on) PROVE BoxInv'
  <2>1. CASE phase = "down"
    BY <1>7, <2>1, EmptyBox DEF Ask, StopInv, StartInv
  <2>2. CASE phase # "down"
    <3>. DEFINE e == [type |-> "toggle", on |-> on]
    <3>1. e \in Message /\ e.type = "toggle" /\ e.on = on
      BY DEF Message, Toggle
    <3>2. /\ box' = Append(box, e) /\ UNCHANGED <<armed, enabled>>
          /\ Stopped' = Stopped /\ asked' = on
      BY <1>7, <2>2 DEF Ask, Stopped
    <3>. HIDE DEF e
    <3>. QED  BY <3>1, <3>2, BoxGrows
  <2>. QED  BY <2>1, <2>2
<1>8. CASE HandlePose \/ HandleState \/ HandleToggle
  BY <1>8, BoxShrinks DEF HandlePose, HandleState, HandleToggle, Receive
<1>9. CASE Publish
  BY <1>9, BoxUntouched DEF Publish, Stopped
<1>10. ASSUME NEW w \in Wheel, LoseCommand(w) \/ TakeCommand(w) \/ HubTick(w) PROVE BoxInv'
  BY <1>10, BoxUntouched DEF LoseCommand, TakeCommand, HubTick, Stopped
<1>. QED  BY <1>1, <1>2, <1>3, <1>4, <1>5, <1>6, <1>7, <1>8, <1>9, <1>10
          DEF StopNext, Handle

(* A controller that is not running has nothing to command and no pose to    *)
(* answer.                                                                  *)
LEMMA StartStep == ASSUME StopInv, StopNext PROVE StartInv'
<1>. USE DEF robot, flags, wheels
<1>1. CASE SafetyChange \/ Subscribe \/ Seed \/ Sense
  BY <1>1 DEF SafetyChange, Subscribe, Seed, Sense, StopInv, StartInv
<1>2. ASSUME NEW e \in Message, e.type # "pose", phase # "running",
             box' = IF phase = "down" THEN box ELSE Append(box, e)
      PROVE  /\ \A i \in DOMAIN box' : box'[i].type # "pose"
             /\ phase = "down" => box' = <<>>
  <2>1. CASE phase = "down"
    BY <1>2, <2>1 DEF StopInv, StartInv
  <2>2. CASE phase # "down"
    <3>1. /\ DOMAIN box' = 1 .. Len(box) + 1 /\ box'[Len(box) + 1] = e
          /\ \A i \in 1 .. Len(box) : box'[i] = box[i]
          /\ Len(box) \in Nat /\ DOMAIN box = 1 .. Len(box)
      BY <1>2, <2>2, MailAppended DEF StopInv, StopTypeOK
    <3>2. \A i \in 1 .. Len(box) : box[i].type # "pose"
      BY <1>2, <3>1 DEF StopInv, StartInv
    <3>. QED  BY <1>2, <2>2, <3>1, <3>2
  <2>. QED  BY <2>1, <2>2
<1>3. CASE Announce
  <2>1. [type |-> "state", armed |-> ~safe] \in Message
    BY DEF Message, Notice
  <2>. QED  BY <1>2, <1>3, <2>1 DEF Announce, StopInv, StartInv
<1>4. ASSUME NEW on \in BOOLEAN, Ask(on) PROVE StartInv'
  <2>1. [type |-> "toggle", on |-> on] \in Message
    BY DEF Message, Toggle
  <2>. QED  BY <1>2, <1>4, <2>1 DEF Ask, StopInv, StartInv
<1>5. CASE Crash
  BY <1>5 DEF Crash, StartInv
<1>6. CASE Handle
  BY <1>6 DEF Handle, HandlePose, HandleState, HandleToggle, Publish, Receive, StopInv, StartInv
<1>7. ASSUME NEW w \in Wheel, LoseCommand(w) \/ TakeCommand(w) \/ HubTick(w) PROVE StartInv'
  BY <1>7 DEF LoseCommand, TakeCommand, HubTick, StopInv, StartInv
<1>. QED  BY <1>1, <1>3, <1>4, <1>5, <1>6, <1>7 DEF StopNext

(* A pose that is answered is the first of the mailbox, so the flags are     *)
(* what it finds; and while it is answered nothing else is taken.           *)
LEMMA AnswerStep ==
  ASSUME StopInv, StopNext
  PROVE  DisarmObeyed' /\ (~StartEnabled => DisableObeyed')
<1>. USE DEF robot, flags, wheels
<1>1. CASE HandlePose
  <2>1. /\ 1 \in DOMAIN box /\ box[1].type = "pose" /\ pose' = box[1]
        /\ todo' # <<>> => armed
        /\ enabled' = enabled
    BY <1>1, Taken DEF HandlePose, Receive, StopInv, StopTypeOK
  <2>2. /\ pose'.stopped => ~armed
        /\ pose'.off /\ ~StartEnabled => ~enabled
    BY <2>1, FirstFinds DEF StopInv, BoxInv
  <2>. QED  BY <2>1, <2>2 DEF DisarmObeyed, DisableObeyed
<1>2. CASE HandleState \/ HandleToggle
  BY <1>2 DEF HandleState, HandleToggle, Receive, DisarmObeyed, DisableObeyed
<1>3. CASE Publish
  BY <1>3 DEF Publish, StopInv, DisarmObeyed, DisableObeyed
<1>4. CASE SafetyChange \/ Announce \/ Subscribe \/ Sense
  BY <1>4 DEF SafetyChange, Announce, Subscribe, Sense, StopInv, DisarmObeyed, DisableObeyed
<1>5. CASE Seed \/ Crash
  BY <1>5 DEF Seed, Crash, StopInv, StartInv, DisarmObeyed, DisableObeyed
<1>6. ASSUME NEW on \in BOOLEAN, Ask(on)
      PROVE  DisarmObeyed' /\ (~StartEnabled => DisableObeyed')
  BY <1>6 DEF Ask, StopInv, DisarmObeyed, DisableObeyed
<1>7. ASSUME NEW w \in Wheel, LoseCommand(w) \/ TakeCommand(w) \/ HubTick(w)
      PROVE  DisarmObeyed' /\ (~StartEnabled => DisableObeyed')
  BY <1>7 DEF LoseCommand, TakeCommand, HubTick, StopInv, DisarmObeyed, DisableObeyed
<1>. QED  BY <1>1, <1>2, <1>3, <1>4, <1>5, <1>6, <1>7 DEF StopNext, Handle

(* The types hold, and every message of the mailbox finds the controller as  *)
(* the notices and toggles ahead of it left it.                             *)
THEOREM ControllerSound == StopSpec => []StopInv
<1>1. ASSUME StopInv, [StopNext]_stopVars PROVE StopInv'
  <2>1. CASE StopNext
    <3>1. StopTypeOK'
      BY <1>1, <2>1, TypeStep DEF StopInv
    <3>2. BoxInv' /\ StartInv'
      BY <1>1, <2>1, BoxStep, StartStep
    <3>3. DisarmObeyed' /\ (~StartEnabled => DisableObeyed')
      BY <1>1, <2>1, AnswerStep
    <3>. QED  BY <3>1, <3>2, <3>3 DEF StopInv
  <2>2. CASE UNCHANGED stopVars
    <3>1. UNCHANGED <<safe, announced, asked, phase, armed, enabled, box, todo, pose, path, idle>>
      BY <2>2 DEF stopVars, robot, flags, wheels
    <3>2. StopTypeOK'
      BY <1>1, <3>1 DEF StopInv, StopTypeOK
    <3>3. BoxInv'
      BY <1>1, <3>1, BoxUntouched DEF Stopped
    <3>4. StartInv' /\ DisarmObeyed' /\ (~StartEnabled => DisableObeyed')
      BY <1>1, <3>1 DEF StopInv, StartInv, DisarmObeyed, DisableObeyed
    <3>. QED  BY <3>2, <3>3, <3>4 DEF StopInv
  <2>. QED  BY <1>1, <2>1, <2>2
<1>. QED  BY <1>1, StopInitInv, PTL DEF StopSpec

(* No pose that was published after the robot was stopped is ever answered   *)
(* with a command: any mailbox, any number of wheels, crashes and re-arming. *)
THEOREM DisarmIsObeyed == StopSpec => []DisarmObeyed
<1>1. StopInv => DisarmObeyed
  BY DEF StopInv
<1>. QED  BY <1>1, ControllerSound, PTL

(* No pose that came after disable/1 gets balance torque, if the controller  *)
(* starts with balance off, as the option's default has it.                 *)
THEOREM DisableIsObeyed ==
  ASSUME ~StartEnabled
  PROVE  StopSpec => []DisableObeyed
<1>1. StopInv => DisableObeyed
  BY DEF StopInv
<1>. QED  BY <1>1, ControllerSound, PTL

=============================================================================
