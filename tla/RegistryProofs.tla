--------------------------- MODULE RegistryProofs ---------------------------
(***************************************************************************)
(* What holds of the registry for any number of writers, slots and crashes: *)
(* two live processes never hold one slot, and no slot stays with a dead    *)
(* process.  Both follow from IInv, which relates the registry's record to  *)
(* what its callers know and to the messages on their way.                  *)
(***************************************************************************)
EXTENDS Registry, TLAPS

LEMMA HeadTail ==
  ASSUME mailbox \in Seq(Message), mailbox # <<>>
  PROVE  /\ Head(mailbox) \in Message /\ Head(mailbox) = mailbox[1]
         /\ 1 \in DOMAIN mailbox
         /\ Tail(mailbox) \in Seq(Message)
         /\ \A i \in DOMAIN Tail(mailbox) :
              Tail(mailbox)[i] = mailbox[i + 1] /\ i + 1 \in DOMAIN mailbox /\ i \in Nat
         /\ \A i \in DOMAIN mailbox \ {1} :
              i - 1 \in DOMAIN Tail(mailbox) /\ Tail(mailbox)[i - 1] = mailbox[i]
  OBVIOUS

LEMMA Concatenated ==
  ASSUME NEW S, NEW a \in Seq(S), NEW b \in Seq(S)
  PROVE  /\ a \o b \in Seq(S) /\ Len(a \o b) = Len(a) + Len(b)
         /\ \A i \in 1 .. Len(a) : (a \o b)[i] = a[i]
         /\ \A i \in Len(a) + 1 .. Len(a) + Len(b) : (a \o b)[i] = b[i - Len(a)]
  OBVIOUS

(* Taking one element out of a sequence keeps every other one, in order.     *)
LEMMA Removed ==
  ASSUME NEW S, NEW q \in Seq(S), NEW k \in DOMAIN q
  PROVE  /\ RemoveAt(q, k) \in Seq(S)
         /\ \A i \in DOMAIN RemoveAt(q, k) :
              LET j == IF i < k THEN i ELSE i + 1 IN
              j \in DOMAIN q /\ j # k /\ RemoveAt(q, k)[i] = q[j] /\ i \in Nat
         /\ \A j \in DOMAIN q \ {k} :
              \E i \in DOMAIN RemoveAt(q, k) : RemoveAt(q, k)[i] = q[j]
<1>1. k \in 1 .. Len(q) /\ Len(q) \in Nat /\ DOMAIN q = 1 .. Len(q)
  OBVIOUS
<1> DEFINE a == SubSeq(q, 1, k - 1)
<1> DEFINE b == SubSeq(q, k + 1, Len(q))
<1>2. /\ a \in Seq(S) /\ Len(a) = k - 1
      /\ \A i \in 1 .. k - 1 : a[i] = q[i]
  BY <1>1
<1>3. /\ b \in Seq(S) /\ Len(b) = Len(q) - k
      /\ \A i \in 1 .. Len(q) - k : b[i] = q[k + i]
  BY <1>1
<1> HIDE DEF a, b
<1>4. /\ a \o b \in Seq(S) /\ Len(a \o b) = Len(q) - 1
      /\ \A i \in 1 .. k - 1 : (a \o b)[i] = q[i]
      /\ \A i \in k .. Len(q) - 1 : (a \o b)[i] = q[i + 1]
  <2>1. a \o b \in Seq(S) /\ Len(a \o b) = Len(q) - 1
    <3>1. a \o b \in Seq(S) /\ Len(a \o b) = Len(a) + Len(b)
      BY <1>2, <1>3, Concatenated
    <3> QED
      BY <3>1, <1>1, <1>2, <1>3
  <2>2. \A i \in 1 .. k - 1 : (a \o b)[i] = q[i]
    BY <1>1, <1>2, <1>3
  <2>3. ASSUME NEW i \in k .. Len(q) - 1 PROVE (a \o b)[i] = q[i + 1]
    <3>1. (a \o b)[i] = b[i - (k - 1)]
      BY <1>1, <1>2, <1>3
    <3>2. i - (k - 1) \in 1 .. Len(q) - k /\ k + (i - (k - 1)) = i + 1
      BY <1>1
    <3> QED
      BY <3>1, <3>2, <1>3
  <2> QED
    BY <2>1, <2>2, <2>3
<1>5. RemoveAt(q, k) = a \o b
  BY DEF RemoveAt, a, b
<1> DEFINE r == RemoveAt(q, k)
<1>6. r \in Seq(S) /\ DOMAIN r = 1 .. Len(q) - 1
  BY <1>4, <1>5
<1>7. \A i \in 1 .. k - 1 : r[i] = q[i]
  BY <1>4, <1>5
<1>8. \A i \in k .. Len(q) - 1 : r[i] = q[i + 1]
  BY <1>4, <1>5
<1> HIDE DEF r
<1>9. ASSUME NEW i \in DOMAIN r
      PROVE  LET j == IF i < k THEN i ELSE i + 1 IN
             j \in DOMAIN q /\ j # k /\ r[i] = q[j] /\ i \in Nat
  BY <1>1, <1>6, <1>7, <1>8, <1>9
<1>10. ASSUME NEW j \in DOMAIN q \ {k}
       PROVE  \E i \in DOMAIN r : r[i] = q[j]
  <2>1. CASE j < k
    <3>1. j \in DOMAIN r /\ r[j] = q[j]
      BY <2>1, <1>1, <1>6, <1>7
    <3> QED
      BY <3>1
  <2>2. CASE j > k
    <3>1. j - 1 \in DOMAIN r /\ r[j - 1] = q[j]
      BY <2>2, <1>1, <1>6, <1>8
    <3> QED
      BY <3>1
  <2> QED
    BY <2>1, <2>2, <1>1
<1> QED
  BY <1>6, <1>9, <1>10 DEF r

(* q2 is what is left of q once its head is served: every message comes from *)
(* a later one of q, each from its own, and at most those equal to lost are  *)
(* missing.                                                                 *)
Shrinks(q2, q, lost) ==
  /\ q2 \in Seq(Message)
  /\ \E f \in [DOMAIN q2 -> DOMAIN q \ {1}] :
       /\ \A i \in DOMAIN q2 : q2[i] = q[f[i]]
       /\ \A i, j \in DOMAIN q2 : f[i] = f[j] => i = j
  /\ \A j \in DOMAIN q \ {1} : q[j] = lost \/ \E i \in DOMAIN q2 : q2[i] = q[j]

LEMMA TailShrinks ==
  ASSUME mailbox \in Seq(Message), mailbox # <<>>, NEW lost
  PROVE  Shrinks(Tail(mailbox), mailbox, lost)
<1> DEFINE q == Tail(mailbox)
<1> DEFINE f == [i \in DOMAIN q |-> i + 1]
<1>1. /\ q \in Seq(Message)
      /\ \A i \in DOMAIN q : i \in Nat /\ i + 1 \in DOMAIN mailbox /\ q[i] = mailbox[i + 1]
      /\ \A i \in DOMAIN mailbox \ {1} : i - 1 \in DOMAIN q /\ q[i - 1] = mailbox[i]
  BY HeadTail
<1> HIDE DEF q
<1>2. \A i \in DOMAIN q : f[i] \in DOMAIN mailbox \ {1} /\ q[i] = mailbox[f[i]]
  BY <1>1
<1>3. \A i, j \in DOMAIN q : f[i] = f[j] => i = j
  BY <1>1
<1>4. f \in [DOMAIN q -> DOMAIN mailbox \ {1}]
  BY <1>2
<1>5. \A j \in DOMAIN mailbox \ {1} : \E i \in DOMAIN q : q[i] = mailbox[j]
  BY <1>1
<1> HIDE DEF f
<1>6. Shrinks(q, mailbox, lost)
  BY <1>1, <1>2, <1>3, <1>4, <1>5 DEF Shrinks
<1> QED
  BY <1>6 DEF q

LEMMA FlushedShrinks ==
  ASSUME mailbox \in Seq(Message), mailbox # <<>>, NEW owner
  PROVE  Shrinks(Flushed(Tail(mailbox), owner), mailbox, Down(owner))
<1> DEFINE q == Tail(mailbox)
<1> DEFINE at == {i \in DOMAIN q : q[i] = Down(owner)}
<1>1. CASE at = {}
  <2>1. Flushed(q, owner) = q
    BY <1>1 DEF Flushed
  <2> QED
    BY <2>1, TailShrinks
<1>2. CASE at # {}
  <2> DEFINE k == CHOOSE i \in at : TRUE
  <2>1. k \in DOMAIN q /\ q[k] = Down(owner)
    BY <1>2
  <2> DEFINE r == RemoveAt(q, k)
  <2>2. Flushed(q, owner) = r
    BY <1>2 DEF Flushed
  <2> HIDE DEF k
  <2>3. Shrinks(q, mailbox, Down(owner))
    BY TailShrinks
  <2> HIDE DEF q, at
  <2>4. PICK f \in [DOMAIN q -> DOMAIN mailbox \ {1}] :
          /\ \A i \in DOMAIN q : q[i] = mailbox[f[i]]
          /\ \A i, j \in DOMAIN q : f[i] = f[j] => i = j
    BY <2>3 DEF Shrinks
  <2>5. q \in Seq(Message)
    BY <2>3 DEF Shrinks
  <2> DEFINE up1(i) == IF i < k THEN i ELSE i + 1
  <2>6. /\ r \in Seq(Message)
        /\ \A i \in DOMAIN r : up1(i) \in DOMAIN q /\ r[i] = q[up1(i)] /\ i \in Nat
        /\ \A j \in DOMAIN q \ {k} : \E i \in DOMAIN r : r[i] = q[j]
    <3>1. r \in Seq(Message)
      BY <2>1, <2>5, Removed
    <3>2. \A i \in DOMAIN r : up1(i) \in DOMAIN q /\ r[i] = q[up1(i)] /\ i \in Nat
      BY <2>1, <2>5, Removed
    <3>3. \A j \in DOMAIN q \ {k} : \E i \in DOMAIN r : r[i] = q[j]
      BY <2>1, <2>5, Removed
    <3> HIDE DEF r, up1
    <3> QED
      BY <3>1, <3>2, <3>3
  <2>7. k \in Nat
    BY <2>1, <2>5
  <2> HIDE DEF r
  <2> DEFINE g == [i \in DOMAIN r |-> f[up1(i)]]
  <2>8. \A i, j \in DOMAIN r : up1(i) = up1(j) => i = j
    BY <2>6, <2>7
  <2> HIDE DEF up1
  <2>9. \A i \in DOMAIN r : g[i] \in DOMAIN mailbox \ {1} /\ r[i] = mailbox[g[i]]
    BY <2>4, <2>6
  <2>10. \A i, j \in DOMAIN r : g[i] = g[j] => i = j
    BY <2>4, <2>6, <2>8
  <2>11. g \in [DOMAIN r -> DOMAIN mailbox \ {1}]
    BY <2>9
  <2>12. ASSUME NEW j \in DOMAIN mailbox \ {1}
         PROVE  mailbox[j] = Down(owner) \/ \E i \in DOMAIN r : r[i] = mailbox[j]
    <3>1. mailbox[j] = Down(owner) \/ \E l \in DOMAIN q : q[l] = mailbox[j]
      BY <2>3 DEF Shrinks
    <3> QED
      BY <3>1, <2>1, <2>6
  <2> HIDE DEF g
  <2>13. Shrinks(r, mailbox, Down(owner))
    BY <2>6, <2>9, <2>10, <2>11, <2>12 DEF Shrinks
  <2> QED
    BY <2>2, <2>13 DEF q
<1> QED
  BY <1>1, <1>2

-----------------------------------------------------------------------------
LEMMA InitIInv == Init => IInv
<1> SUFFICES ASSUME Init PROVE IInv
  OBVIOUS
<1>1. TypeOK
  <2>1. <<>> \in Seq(Message)
    OBVIOUS
  <2> QED
    BY <2>1 DEF Init, TypeOK, Owner, Free, Call, NoCall
<1>2. HoldersKnown /\ Living
  BY RegistryAssumption DEF Init, HoldersKnown, Living, Holds, NoCall
<1>3. MailboxSound /\ OwnersWatched
  BY DEF Init, MailboxSound, OwnersWatched
<1> QED
  BY <1>1, <1>2, <1>3 DEF IInv

(* The death of a process, whatever it dies of. *)
LEMMA ExitStep ==
  ASSUME IInv, NEW p \in Pid, Alive(p), Exit(p), UNCHANGED server
  PROVE  IInv'
<1> USE DEF IInv, server
<1>1. TypeOK'
  BY DEF TypeOK, Exit, NoCall, Call
<1>2. HoldersKnown' /\ Living'
  BY RegistryAssumption DEF TypeOK, Exit, NoCall, HoldersKnown, Living, Holds, Alive
<1>3. MailboxSound'
  BY DEF TypeOK, Exit, MailboxSound, IsClaim, IsDown, Alive
<1>4. OwnersWatched'
  BY DEF TypeOK, Exit, OwnersWatched
<1> QED
  BY <1>1, <1>2, <1>3, <1>4

LEMMA SpawnStep ==
  ASSUME IInv, NEW p \in Pid, Spawn(p)
  PROVE  IInv'
<1> USE DEF IInv, server, Spawn
<1>1. TypeOK'
  BY DEF TypeOK
<1>2. HoldersKnown' /\ Living'
  BY DEF TypeOK, HoldersKnown, Living, Holds, Alive
<1>3. MailboxSound'
  <2>1. \A i \in DOMAIN mailbox : mailbox[i].pid # p
    BY DEF MailboxSound
  <2> QED
    BY <2>1 DEF TypeOK, MailboxSound, IsClaim, IsDown, Alive
<1>4. OwnersWatched'
  BY DEF TypeOK, OwnersWatched
<1> QED
  BY <1>1, <1>2, <1>3, <1>4

LEMMA ClaimStep ==
  ASSUME IInv, NEW p \in Pid, NEW s \in Slot, Claim(p, s)
  PROVE  IInv'
<1> DEFINE m == [type |-> "claim", slot |-> s, pid |-> p]
<1>1. CASE ~up
  BY <1>1, ExitStep DEF Claim
<1>2. CASE up
  <2>1. /\ Alive(p) /\ call[p].slot = NoSlot
        /\ call' = [call EXCEPT ![p] = [slot |-> s, answer |-> "none", by |-> crashes]]
        /\ mailbox' = Append(mailbox, m)
        /\ UNCHANGED <<proc, caps, up, writers, monitors, nextRef, crashes>>
    BY <1>2 DEF Claim
  <2>2. m \in Message
    BY DEF Message, Claims
  <2>3. mailbox \in Seq(Message)
    BY DEF IInv, TypeOK
  <2>4. /\ mailbox' \in Seq(Message)
        /\ \A i \in DOMAIN mailbox' : i \in DOMAIN mailbox \/ i = Len(mailbox) + 1
        /\ \A i \in DOMAIN mailbox : i \in DOMAIN mailbox' /\ mailbox'[i] = mailbox[i]
        /\ mailbox'[Len(mailbox) + 1] = m
    BY <2>1, <2>2, <2>3
  <2> HIDE DEF m
  <2>5. TypeOK'
    BY <2>1, <2>4 DEF IInv, TypeOK, Call
  <2>6. HoldersKnown'
    BY <2>1 DEF IInv, TypeOK, HoldersKnown, Holds
  <2>7. Living'
    BY <2>1 DEF IInv, TypeOK, Living, Alive
  <2>8. MailboxSound'
    <3>1. \A i \in DOMAIN mailbox : IsClaim(i) => mailbox[i].pid # p
      BY <2>1, RegistryAssumption, <2>3 DEF IInv, MailboxSound, Message, Claims, IsClaim, Downs
    <3>2. m.type = "claim" /\ m.slot = s /\ m.pid = p
      BY DEF m
    <3>3. \A i \in DOMAIN mailbox' :
            (i \in DOMAIN mailbox /\ mailbox'[i] = mailbox[i]) \/ (i = Len(mailbox) + 1 /\ mailbox'[i] = m)
      BY <2>4
    <3>4. ASSUME NEW i \in DOMAIN mailbox'
          PROVE  /\ proc[mailbox'[i].pid] # "unborn"
                 /\ IsDown(i)' => proc[mailbox'[i].pid] = "dead"
      BY <3>2, <3>3, <2>1 DEF IInv, MailboxSound, IsDown, Alive
    <3>5. ASSUME NEW i \in DOMAIN mailbox', IsClaim(i)', Alive(mailbox'[i].pid)
          PROVE  /\ call'[mailbox'[i].pid].slot = mailbox'[i].slot
                 /\ call'[mailbox'[i].pid].answer = "none"
      <4>1. CASE i \in DOMAIN mailbox /\ mailbox'[i] = mailbox[i]
        <5>1. IsClaim(i) /\ Alive(mailbox[i].pid) /\ mailbox[i].pid # p
          BY <4>1, <3>5, <3>1 DEF IsClaim
        <5> QED
          BY <5>1, <4>1, <2>1 DEF IInv, MailboxSound, TypeOK
      <4>2. CASE mailbox'[i] = m
        BY <4>2, <3>2, <2>1 DEF IInv, TypeOK
      <4> QED
        BY <4>1, <4>2, <3>3
    <3>6. ASSUME NEW i \in DOMAIN mailbox', NEW j \in DOMAIN mailbox',
                 IsClaim(i)', IsClaim(j)', Alive(mailbox'[i].pid),
                 mailbox'[j].pid = mailbox'[i].pid
          PROVE  i = j
      <4>1. CASE /\ i \in DOMAIN mailbox /\ mailbox'[i] = mailbox[i]
                 /\ j \in DOMAIN mailbox /\ mailbox'[j] = mailbox[j]
        BY <4>1, <3>6 DEF IInv, MailboxSound, IsClaim
      <4> QED
        BY <4>1, <3>1, <3>2, <3>3, <3>6 DEF IsClaim
    <3> QED
      BY <3>4, <3>5, <3>6, <2>1 DEF MailboxSound, Alive
  <2>9. OwnersWatched'
    BY <2>1, <2>4 DEF IInv, OwnersWatched
  <2> QED
    BY <2>5, <2>6, <2>7, <2>8, <2>9 DEF IInv
<1> QED
  BY <1>1, <1>2

LEMMA ReturnStep ==
  ASSUME IInv, NEW p \in Pid, Return(p)
  PROVE  IInv'
<1>1. call[p].slot # NoSlot /\ Alive(p) /\ call[p] \in Call /\ UNCHANGED server
  BY DEF IInv, TypeOK, Living, Return
<1>2. CASE call[p].answer = "taken" /\ Exit(p)
  BY <1>1, <1>2, ExitStep
<1>3. CASE /\ call[p].answer = "ok"
           /\ caps' = [caps EXCEPT ![p] = @ \cup {<<call[p].slot, call[p].by>>}]
           /\ call' = [call EXCEPT ![p] = NoCall]
           /\ UNCHANGED proc
  <2>1. call[p].slot \in Slot /\ call[p].by \in Nat
    BY <1>1 DEF Call
  <2>2. TypeOK'
    BY <1>1, <1>3, <2>1 DEF IInv, TypeOK, NoCall, Call, server
  <2>3. HoldersKnown'
    <3> SUFFICES ASSUME NEW q \in Pid, NEW s \in Slot,
                        \/ Holds(q, s)'
                        \/ call'[q] = [slot |-> s, answer |-> "ok", by |-> crashes]
                 PROVE  writers[s].pid = q
      BY <1>1 DEF HoldersKnown, server
    <3>1. CASE q # p
      BY <3>1, <1>1, <1>3 DEF IInv, TypeOK, HoldersKnown, Holds, server
    <3>2. CASE q = p
      <4>1. call'[p].slot = NoSlot
        BY <1>3 DEF IInv, TypeOK, NoCall
      <4>2. Holds(p, s)'
        BY <4>1, <3>2, RegistryAssumption
      <4>3. \/ Holds(p, s) 
            \/ s = call[p].slot /\ crashes = call[p].by
        BY <4>2, <1>1, <1>3 DEF IInv, TypeOK, Holds, server
      <4>4. s = call[p].slot /\ crashes = call[p].by
               => call[p] = [slot |-> s, answer |-> "ok", by |-> crashes]
        BY <1>1, <1>3 DEF Call
      <4> QED
        BY <4>3, <4>4, <3>2 DEF IInv, HoldersKnown
    <3> QED
      BY <3>1, <3>2
  <2>4. Living'
    BY <1>1, <1>3, <2>1 DEF IInv, TypeOK, Living, NoCall, server, Alive
  <2>5. MailboxSound'
    BY <1>1, <1>3 DEF IInv, TypeOK, MailboxSound, IsClaim, IsDown, Alive, server
  <2>6. OwnersWatched'
    BY <1>1, <1>3 DEF IInv, OwnersWatched, server
  <2> QED
    BY <2>2, <2>3, <2>4, <2>5, <2>6 DEF IInv
<1> QED
  BY <1>2, <1>3 DEF Return

(* Serving a message leaves the rest of the mailbox sound, if no process     *)
(* changes but the callers, and of those only the one that is answered.      *)
LEMMA MailboxStep ==
  ASSUME IInv, mailbox # <<>>, NEW lost, Shrinks(mailbox', mailbox, lost),
         UNCHANGED proc,
         \A p \in Pid : \/ call'[p] = call[p]
                        \/ Alive(p) /\ mailbox[1].pid = p /\ IsClaim(1)
  PROVE  /\ mailbox' \in Seq(Message) /\ MailboxSound'
         /\ \A j \in DOMAIN mailbox \ {1} :
              mailbox[j] = lost \/ \E i \in DOMAIN mailbox' : mailbox'[i] = mailbox[j]
<1>1. PICK f \in [DOMAIN mailbox' -> DOMAIN mailbox \ {1}] :
        /\ \A i \in DOMAIN mailbox' : mailbox'[i] = mailbox[f[i]]
        /\ \A i, j \in DOMAIN mailbox' : f[i] = f[j] => i = j
  BY DEF Shrinks
<1>2. /\ mailbox \in Seq(Message) /\ 1 \in DOMAIN mailbox
      /\ \A i \in DOMAIN mailbox : mailbox[i].pid \in Pid
  <2>1. \A m \in Message : m.pid \in Pid
    BY DEF Message, Claims, Downs
  <2> QED
    BY <2>1, HeadTail DEF IInv, TypeOK
<1>3. ASSUME NEW i \in DOMAIN mailbox'
      PROVE  /\ proc[mailbox'[i].pid] # "unborn"
             /\ IsDown(i)' => proc[mailbox'[i].pid] = "dead"
  BY <1>1 DEF IInv, MailboxSound, IsDown
<1>4. ASSUME NEW i \in DOMAIN mailbox', IsClaim(i)', Alive(mailbox'[i].pid)
      PROVE  /\ call'[mailbox'[i].pid].slot = mailbox'[i].slot
             /\ call'[mailbox'[i].pid].answer = "none"
  <2>1. IsClaim(f[i]) /\ f[i] \in DOMAIN mailbox \ {1} /\ mailbox'[i] = mailbox[f[i]]
    BY <1>1, <1>4 DEF IsClaim
  <2>2. ~(IsClaim(1) /\ mailbox[1].pid = mailbox[f[i]].pid)
    BY <2>1, <1>2, <1>4 DEF IInv, MailboxSound
  <2>3. call'[mailbox[f[i]].pid] = call[mailbox[f[i]].pid]
    BY <2>1, <2>2, <1>2
  <2> QED
    BY <2>1, <2>3, <1>4 DEF IInv, MailboxSound
<1>5. ASSUME NEW i \in DOMAIN mailbox', NEW j \in DOMAIN mailbox',
             IsClaim(i)', IsClaim(j)', Alive(mailbox'[i].pid),
             mailbox'[j].pid = mailbox'[i].pid
      PROVE  i = j
  <2>1. f[i] = f[j]
    BY <1>1, <1>5 DEF IInv, MailboxSound, IsClaim
  <2> QED
    BY <2>1, <1>1
<1> QED
  BY <1>3, <1>4, <1>5 DEF Shrinks, MailboxSound, Alive

LEMMA HandleClaimStep ==
  ASSUME IInv, HandleClaim
  PROVE  IInv'
<1> DEFINE s == Head(mailbox).slot
<1> DEFINE p == Head(mailbox).pid
<1> DEFINE owner == writers[s]
<1> DEFINE rest == Tail(mailbox)
<1>1. /\ mailbox \in Seq(Message) /\ mailbox # <<>>
      /\ Head(mailbox) = mailbox[1] /\ 1 \in DOMAIN mailbox /\ IsClaim(1)
      /\ s \in Slot /\ p \in Pid
  BY HeadTail DEF IInv, TypeOK, HandleClaim, Message, Claims, Downs, IsClaim
<1>2. /\ Alive(p) => call[p].slot = s
      /\ ~Alive(p) => call[p].slot = NoSlot /\ caps[p] = {}
      /\ proc[p] # "unborn"
  BY <1>1 DEF IInv, MailboxSound, Living, TypeOK, Call
<1>3. owner \in Owner /\ call \in [Pid -> Call] /\ nextRef \in Nat /\ crashes \in Nat
      /\ writers \in [Slot -> Owner]
  BY <1>1 DEF IInv, TypeOK
<1>4. \/ owner = Free /\ Record(s, p, rest, monitors)
      \/ /\ owner.pid = p
         /\ Reply(p, "ok") /\ mailbox' = rest /\ UNCHANGED <<writers, monitors, nextRef>>
      \/ /\ owner.pid \in Pid \ {p} /\ Alive(owner.pid)
         /\ Reply(p, "taken") /\ mailbox' = rest /\ UNCHANGED <<writers, monitors, nextRef>>
      \/ /\ owner.pid \in Pid \ {p} /\ ~Alive(owner.pid)
         /\ Record(s, p, Flushed(rest, owner), monitors \ {owner})
  BY DEF HandleClaim
<1>5. Shrinks(rest, mailbox, Down(owner)) /\ Shrinks(Flushed(rest, owner), mailbox, Down(owner))
  BY <1>1, TailShrinks, FlushedShrinks
<1> HIDE DEF rest
<1>6. ASSUME NEW what \in {"ok", "taken"}, Reply(p, what)
      PROVE  /\ UNCHANGED <<proc, caps, up, crashes>> /\ call' \in [Pid -> Call]
             /\ \A q \in Pid : call'[q] = call[q] \/ (q = p /\ Alive(p))
             /\ \A q \in Pid : \/ call'[q] = call[q]
                               \/ /\ q = p /\ call'[q].slot = s /\ call'[q].answer = what
                                  /\ call'[q].by = crashes
             /\ Living'
  <2>1. /\ UNCHANGED <<proc, caps, up, crashes>>
        /\ call' = [call EXCEPT ![p] =
                      IF call[p].slot = NoSlot THEN call[p]
                      ELSE [slot |-> call[p].slot, answer |-> what, by |-> crashes]]
    BY <1>6 DEF Reply
  <2>2. call' \in [Pid -> Call]
    BY <2>1, <1>1, <1>3 DEF Call
  <2>3. \A q \in Pid : call'[q] = call[q] \/ (q = p /\ Alive(p))
    BY <2>1, <1>1, <1>2, <1>3
  <2>4. ASSUME NEW q \in Pid, call'[q] # call[q]
        PROVE  q = p /\ call'[q].slot = s /\ call'[q].answer = what /\ call'[q].by = crashes
    BY <2>1, <2>3, <2>4, <1>1, <1>2, <1>3
  <2>5. Living'
    BY <2>1, <2>3, <2>4, <1>1, <1>3 DEF IInv, Living, Alive
  <2> QED
    BY <2>1, <2>2, <2>3, <2>4, <2>5
<1>7. ASSUME NEW msgs, Shrinks(msgs, mailbox, Down(owner)), mailbox' = msgs,
             NEW what \in {"ok", "taken"}, Reply(p, what)
      PROVE  /\ mailbox' \in Seq(Message) /\ MailboxSound'
             /\ \A j \in DOMAIN mailbox : j # 1 =>
                  mailbox[j] = Down(owner) \/ \E i \in DOMAIN mailbox' : mailbox'[i] = mailbox[j]
  <2>1. UNCHANGED proc /\ \A q \in Pid : call'[q] = call[q] \/ (Alive(q) /\ mailbox[1].pid = q /\ IsClaim(1))
    BY <1>1, <1>6, <1>7
  <2>2. Shrinks(mailbox', mailbox, Down(owner))
    BY <1>7
  <2> HIDE DEF owner
  <2> QED
    BY <2>1, <2>2, <1>1, MailboxStep
<1> HIDE DEF s, p
<1>8. ASSUME NEW kept \in SUBSET monitors, NEW msgs, Shrinks(msgs, mailbox, Down(owner)),
             Record(s, p, msgs, kept), owner = Free \/ ~Alive(owner.pid),
             \A m \in monitors : m \in kept \/ m = owner
      PROVE  IInv'
  <2>1. /\ writers' = [writers EXCEPT ![s] = [pid |-> p, ref |-> nextRef]]
        /\ monitors' = kept \cup {[pid |-> p, ref |-> nextRef]}
        /\ nextRef' = nextRef + 1 /\ mailbox' = msgs /\ Reply(p, "ok")
    BY <1>8 DEF Record
  <2>2. MailboxSound' /\ mailbox' \in Seq(Message)
    BY <2>1, <1>7, <1>8
  <2>3. TypeOK'
    BY <2>1, <2>2, <1>1, <1>3, <1>6, <1>8 DEF IInv, TypeOK, Owner
  <2>4. HoldersKnown'
    <3> SUFFICES ASSUME NEW q \in Pid, NEW t \in Slot,
                        \/ Holds(q, t)'
                        \/ call'[q] = [slot |-> t, answer |-> "ok", by |-> crashes']
                 PROVE  writers'[t].pid = q
      BY DEF HoldersKnown
    <3>1. \/ Holds(q, t)
          \/ call[q] = [slot |-> t, answer |-> "ok", by |-> crashes]
          \/ q = p /\ t = s
      BY <1>6, <2>1 DEF Holds
    <3>2. CASE q = p /\ t = s
      BY <3>2, <2>1, <1>1, <1>3
    <3>3. CASE /\ q # p \/ t # s
               /\ \/ Holds(q, t)
                  \/ call[q] = [slot |-> t, answer |-> "ok", by |-> crashes]
      <4>1. writers[t].pid = q
        BY <3>3 DEF IInv, HoldersKnown
      <4>2. Alive(q)
        BY <3>3, RegistryAssumption DEF IInv, Living, Holds
      <4>3. t # s
        BY <4>1, <4>2, <1>8, RegistryAssumption DEF Free
      <4> QED
        BY <4>1, <4>3, <2>1, <1>3
    <3> QED
      BY <3>1, <3>2, <3>3
  <2>5. OwnersWatched'
    <3> SUFFICES ASSUME NEW t \in Slot, writers'[t] # Free
                 PROVE  /\ writers'[t].pid \in Pid /\ proc[writers'[t].pid] # "unborn"
                        /\ writers'[t].ref < nextRef'
                        /\ \/ writers'[t] \in monitors'
                           \/ \E i \in DOMAIN mailbox' : mailbox'[i] = Down(writers'[t])
                        /\ \A u \in Slot \ {t} :
                             writers'[u] # Free => writers'[u].ref # writers'[t].ref
      BY <1>6, <2>1 DEF OwnersWatched, Down
    <3>1. \A u \in Slot \ {s} : writers'[u] = writers[u]
      BY <2>1, <1>3
    <3>2. writers'[s] = [pid |-> p, ref |-> nextRef]
      BY <2>1, <1>1, <1>3
    <3>3. \A u \in Slot : writers[u] # Free => writers[u].ref < nextRef /\ writers[u].ref \in Nat
      BY <1>3 DEF IInv, OwnersWatched, Owner
    <3>4. CASE t = s
      BY <3>1, <3>2, <3>3, <3>4, <2>1, <1>1, <1>2, <1>3
    <3>5. CASE t # s
      <4>1. writers'[t] = writers[t] /\ writers[t] # Free
        BY <3>1, <3>5
      <4>2. owner = Free \/ writers[t].ref # owner.ref
        BY <4>1, <3>5, <1>1 DEF IInv, OwnersWatched
      <4>3. writers[t] # owner /\ Down(writers[t]) # Down(owner)
        BY <4>1, <4>2, <1>3, RegistryAssumption DEF IInv, OwnersWatched, Free, Down
      <4>4. \/ writers[t] \in monitors'
            \/ \E i \in DOMAIN mailbox' : mailbox'[i] = Down(writers[t])
        <5>1. CASE writers[t] \in monitors
          BY <5>1, <4>3, <2>1, <1>8
        <5>2. ASSUME NEW i \in DOMAIN mailbox, mailbox[i] = Down(writers[t])
              PROVE  \E j \in DOMAIN mailbox' : mailbox'[j] = Down(writers[t])
          <6>1. i # 1
            BY <5>2, <1>1 DEF Down, IsClaim
          <6> QED
            BY <5>2, <6>1, <4>3, <2>1, <1>7, <1>8
        <5> QED
          BY <5>1, <5>2, <4>1 DEF IInv, OwnersWatched
      <4>5. /\ writers[t].pid \in Pid /\ proc[writers[t].pid] # "unborn"
            /\ \A u \in Slot \ {t} : writers[u] # Free => writers[u].ref # writers[t].ref
        BY <4>1 DEF IInv, OwnersWatched
      <4>6. writers[t].ref < nextRef'
        BY <4>1, <3>3, <2>1, <1>3
      <4>7. \A u \in Slot \ {t} : writers'[u] # Free => writers'[u].ref # writers[t].ref
        BY <4>1, <4>5, <3>1, <3>2, <3>3, <1>3
      <4> QED
        BY <4>1, <4>4, <4>5, <4>6, <4>7
    <3> QED
      BY <3>4, <3>5
  <2> QED
    BY <2>1, <2>2, <2>3, <2>4, <2>5, <1>6 DEF IInv
<1>9. ASSUME mailbox' = rest, UNCHANGED <<writers, monitors, nextRef>>,
             NEW what \in {"ok", "taken"}, Reply(p, what), what = "ok" => owner.pid = p
      PROVE  IInv'
  <2>1. MailboxSound' /\ mailbox' \in Seq(Message)
    BY <1>5, <1>7, <1>9
  <2>2. TypeOK'
    BY <2>1, <1>6, <1>9 DEF IInv, TypeOK
  <2>3. HoldersKnown'
    BY <1>6, <1>9 DEF IInv, HoldersKnown, Holds
  <2>4. ASSUME NEW t \in Slot, writers[t] # Free, NEW i \in DOMAIN mailbox,
               mailbox[i] = Down(writers[t]), writers[t] \notin monitors
        PROVE  \E j \in DOMAIN mailbox' : mailbox'[j] = Down(writers[t])
    <3>1. i # 1
      BY <2>4, <1>1 DEF Down, IsClaim
    <3> QED
      BY <2>4, <3>1, <1>1, <1>9, HeadTail DEF rest
  <2>5. OwnersWatched'
    BY <2>4, <1>6, <1>9 DEF IInv, OwnersWatched, Down
  <2> QED
    BY <2>1, <2>2, <2>3, <2>5, <1>6, <1>9 DEF IInv
<1>10. CASE owner = Free /\ Record(s, p, rest, monitors)
  BY <1>10, <1>8, <1>5
<1>11. CASE /\ owner.pid = p
            /\ Reply(p, "ok") /\ mailbox' = rest /\ UNCHANGED <<writers, monitors, nextRef>>
  BY <1>11, <1>9
<1>12. CASE Reply(p, "taken") /\ mailbox' = rest /\ UNCHANGED <<writers, monitors, nextRef>>
  BY <1>12, <1>9
<1>13. CASE /\ ~Alive(owner.pid)
            /\ Record(s, p, Flushed(rest, owner), monitors \ {owner})
  BY <1>13, <1>8, <1>5
<1> QED
  BY <1>4, <1>10, <1>11, <1>12, <1>13 DEF s, p

LEMMA HandleDownStep ==
  ASSUME IInv, HandleDown
  PROVE  IInv'
<1>1. /\ mailbox \in Seq(Message) /\ mailbox # <<>> /\ 1 \in DOMAIN mailbox
      /\ Head(mailbox) = mailbox[1] /\ mailbox[1].type = "down"
  BY HeadTail DEF IInv, TypeOK, HandleDown
<1>2. /\ writers' = [t \in Slot |-> IF Down(writers[t]) = mailbox[1] THEN Free ELSE writers[t]]
      /\ mailbox' = Tail(mailbox)
      /\ UNCHANGED <<proc, call, caps, up, monitors, nextRef, crashes>>
  BY <1>1 DEF HandleDown, clients
<1>3. proc[mailbox[1].pid] = "dead"
  BY <1>1 DEF IInv, MailboxSound, IsDown
<1>4. /\ mailbox' \in Seq(Message) /\ MailboxSound'
      /\ \A j \in DOMAIN mailbox \ {1} : \E i \in DOMAIN mailbox' : mailbox'[i] = mailbox[j]
  <2>1. Shrinks(mailbox', mailbox, 0)
    BY <1>1, <1>2, TailShrinks
  <2>2. mailbox' \in Seq(Message) /\ MailboxSound'
    BY <1>1, <1>2, <2>1, MailboxStep
  <2> QED
    BY <2>2, <1>1, <1>2, HeadTail
<1>5. TypeOK' /\ Living'
  BY <1>2, <1>4 DEF IInv, TypeOK, Living, Owner, Free, Alive
<1>6. HoldersKnown'
  <2> SUFFICES ASSUME NEW q \in Pid, NEW t \in Slot,
                      \/ Holds(q, t)
                      \/ call[q] = [slot |-> t, answer |-> "ok", by |-> crashes]
               PROVE  writers'[t].pid = q
    BY <1>2 DEF HoldersKnown, Holds
  <2>1. writers[t].pid = q
    BY DEF IInv, HoldersKnown
  <2>2. Alive(q)
    BY RegistryAssumption DEF IInv, Living, Holds
  <2>3. Down(writers[t]) # mailbox[1]
    BY <2>1, <2>2, <1>3 DEF Down, Alive
  <2> QED
    BY <2>1, <2>3, <1>2
<1>7. OwnersWatched'
  <2>1. ASSUME NEW t \in Slot, writers'[t] # Free
        PROVE  writers'[t] = writers[t] /\ Down(writers[t]) # mailbox[1]
    BY <2>1, <1>2
  <2>2. ASSUME NEW t \in Slot, writers'[t] # Free
        PROVE  \/ writers[t] \in monitors
               \/ \E i \in DOMAIN mailbox' : mailbox'[i] = Down(writers[t])
    BY <2>1, <2>2, <1>4 DEF IInv, OwnersWatched
  <2> QED
    BY <2>1, <2>2, <1>2 DEF IInv, OwnersWatched, Down
<1> QED
  BY <1>4, <1>5, <1>6, <1>7 DEF IInv

LEMMA DeliverStep ==
  ASSUME IInv, NEW m \in monitors, Deliver(m)
  PROVE  IInv'
<1>1. /\ mailbox \in Seq(Message) /\ m \in [pid : Pid, ref : Nat] /\ proc[m.pid] = "dead"
      /\ Down(m) \in Message /\ Down(m).type = "down" /\ Down(m).pid = m.pid
  BY DEF IInv, TypeOK, Deliver, Down, Message, Downs
<1>2. /\ mailbox' = Append(mailbox, Down(m)) /\ monitors' = monitors \ {m}
      /\ UNCHANGED <<proc, call, caps, up, writers, nextRef, crashes>>
  BY DEF Deliver, clients
<1>3. /\ mailbox' \in Seq(Message)
      /\ \A i \in DOMAIN mailbox' :
           (i \in DOMAIN mailbox /\ mailbox'[i] = mailbox[i]) \/ mailbox'[i] = Down(m)
      /\ \A i \in DOMAIN mailbox : i \in DOMAIN mailbox' /\ mailbox'[i] = mailbox[i]
      /\ \E i \in DOMAIN mailbox' : mailbox'[i] = Down(m)
  <2>1. /\ Append(mailbox, Down(m)) \in Seq(Message)
        /\ \A i \in DOMAIN Append(mailbox, Down(m)) :
             \/ i \in DOMAIN mailbox /\ Append(mailbox, Down(m))[i] = mailbox[i]
             \/ Append(mailbox, Down(m))[i] = Down(m)
        /\ \A i \in DOMAIN mailbox : /\ i \in DOMAIN Append(mailbox, Down(m))
                                    /\ Append(mailbox, Down(m))[i] = mailbox[i]
    BY <1>1
  <2>2. \E i \in DOMAIN Append(mailbox, Down(m)) : Append(mailbox, Down(m))[i] = Down(m)
    <3>1. /\ Len(mailbox) + 1 \in DOMAIN Append(mailbox, Down(m))
          /\ Append(mailbox, Down(m))[Len(mailbox) + 1] = Down(m)
      BY <1>1
    <3> QED
      BY <3>1
  <2> QED
    BY <2>1, <2>2, <1>2
<1>4. TypeOK' /\ HoldersKnown' /\ Living'
  BY <1>2, <1>3 DEF IInv, TypeOK, HoldersKnown, Holds, Living, Alive
<1>5. MailboxSound'
  BY <1>1, <1>2, <1>3 DEF IInv, MailboxSound, IsClaim, IsDown, Alive
<1>6. OwnersWatched'
  <2>1. ASSUME NEW t \in Slot, writers[t] # Free
        PROVE  \/ writers[t] \in monitors'
               \/ \E i \in DOMAIN mailbox' : mailbox'[i] = Down(writers[t])
    <3>1. CASE writers[t] = m
      BY <3>1, <1>3
    <3>2. CASE writers[t] # m /\ writers[t] \in monitors
      BY <3>2, <1>2
    <3>3. CASE \E i \in DOMAIN mailbox : mailbox[i] = Down(writers[t])
      BY <3>3, <1>3
    <3> QED
      BY <2>1, <3>1, <3>2, <3>3 DEF IInv, OwnersWatched
  <2> QED
    BY <2>1, <1>2 DEF IInv, OwnersWatched, Down
<1> QED
  BY <1>4, <1>5, <1>6 DEF IInv

LEMMA CrashStep ==
  ASSUME IInv, Crash
  PROVE  IInv'
<1>1. <<>> \in Seq(Message) /\ DOMAIN <<>> = {}
  OBVIOUS
<1> DEFINE waiting == {p \in Pid : call[p].slot # NoSlot /\ call[p].answer = "none"}
<1>2. /\ proc' = [p \in Pid |-> IF p \in waiting THEN "dead" ELSE proc[p]]
      /\ call' = [p \in Pid |-> IF p \in waiting THEN NoCall ELSE call[p]]
      /\ caps' = [p \in Pid |-> IF p \in waiting THEN {} ELSE caps[p]]
      /\ writers' = [s \in Slot |-> Free]
      /\ up' = FALSE /\ crashes' = crashes + 1 /\ mailbox' = <<>> /\ monitors' = {}
      /\ nextRef' = nextRef
  BY DEF Crash
<1> HIDE DEF waiting
<1>3. /\ NoCall \in Call /\ NoCall.slot = NoSlot /\ NoCall.by = 0 /\ Free \in Owner
      /\ crashes \in Nat /\ \A p \in Pid : call[p] \in Call
  BY DEF NoCall, Call, Free, Owner, IInv, TypeOK
<1>4. TypeOK'
  <2>1. proc' \in [Pid -> {"unborn", "running", "dead"}] /\ call' \in [Pid -> Call]
    BY <1>2, <1>3 DEF IInv, TypeOK
  <2>2. caps' \in [Pid -> SUBSET (Slot \X Nat)]
    BY <1>2 DEF IInv, TypeOK
  <2>3. writers' \in [Slot -> Owner] /\ mailbox' \in Seq(Message) /\ crashes' \in Nat
    BY <1>1, <1>2, <1>3
  <2>4. up' \in BOOLEAN /\ monitors' \subseteq [pid : Pid, ref : Nat] /\ nextRef' \in Nat
    BY <1>2 DEF IInv, TypeOK
  <2> QED
    BY <2>1, <2>2, <2>3, <2>4 DEF TypeOK
<1>5. Living'
  <2> SUFFICES ASSUME NEW p \in Pid
               PROVE  /\ caps'[p] # {} \/ call'[p].slot # NoSlot => Alive(p)'
                      /\ \A c \in caps'[p] : c[2] <= crashes'
                      /\ call'[p].by <= crashes'
    BY DEF Living
  <2>1. CASE p \in waiting
    BY <2>1, <1>2, <1>3
  <2>2. CASE p \notin waiting
    <3>1. proc'[p] = proc[p] /\ call'[p] = call[p] /\ caps'[p] = caps[p]
      BY <2>2, <1>2
    <3>2. caps[p] \subseteq Slot \X Nat /\ call[p].by \in Nat
      BY <1>3 DEF IInv, TypeOK, Call
    <3>3. \A c \in caps[p] : c[2] \in Nat /\ c[2] <= crashes
      BY <3>2 DEF IInv, Living
    <3> QED
      BY <3>1, <3>2, <3>3, <1>2, <1>3 DEF IInv, Living, Alive
  <2> QED
    BY <2>1, <2>2
<1>6. HoldersKnown'
  <2>1. ASSUME NEW p \in Pid, NEW s \in Slot, <<s, crashes + 1>> \in caps'[p] PROVE FALSE
    <3>1. <<s, crashes + 1>> \in caps[p]
      BY <2>1, <1>2
    <3>2. \A c \in caps[p] : c[2] <= crashes
      BY DEF IInv, Living
    <3>3. crashes + 1 <= crashes
      BY <3>1, <3>2
    <3> QED
      BY <3>3, <1>3
  <2>2. ASSUME NEW p \in Pid, NEW s \in Slot,
               call'[p] = [slot |-> s, answer |-> "ok", by |-> crashes + 1]
        PROVE  FALSE
    <3>1. call'[p].by = crashes + 1
      BY <2>2
    <3>2. call[p].by <= crashes /\ call[p].by \in Nat
      BY <1>3 DEF IInv, Living, Call
    <3>3. call'[p].by = call[p].by \/ call'[p].by = 0
      BY <1>2, <1>3
    <3> QED
      BY <3>1, <3>2, <3>3, <1>3
  <2> QED
    BY <2>1, <2>2, <1>2 DEF HoldersKnown, Holds
<1>7. MailboxSound' /\ OwnersWatched'
  BY <1>1, <1>2 DEF MailboxSound, OwnersWatched
<1> QED
  BY <1>4, <1>5, <1>6, <1>7 DEF IInv

LEMMA OtherSteps ==
  ASSUME IInv, Restart \/ UNCHANGED vars
  PROVE  IInv'
<1>1. UNCHANGED <<proc, call, caps, mailbox, writers, monitors, nextRef, crashes>> /\ up' \in BOOLEAN
  BY DEF Restart, clients, vars, server, IInv, TypeOK
<1> QED
  BY <1>1 DEF IInv, TypeOK, HoldersKnown, Holds, Living, Alive, MailboxSound,
              IsClaim, IsDown, OwnersWatched, Down

LEMMA Inductive == Spec => []IInv
<1>1. IInv /\ [Next]_vars => IInv'
  <2> SUFFICES ASSUME IInv, [Next]_vars PROVE IInv'
    OBVIOUS
  <2>1. ASSUME NEW p \in Pid, Spawn(p) PROVE IInv'
    BY <2>1, SpawnStep
  <2>2. ASSUME NEW p \in Pid, Die(p) \/ PutFails(p) PROVE IInv'
    BY <2>2, ExitStep DEF Die, PutFails
  <2>3. ASSUME NEW p \in Pid, Return(p) PROVE IInv'
    BY <2>3, ReturnStep
  <2>4. ASSUME NEW p \in Pid, NEW s \in Slot, Claim(p, s) PROVE IInv'
    BY <2>4, ClaimStep
  <2>5. CASE HandleClaim
    BY <2>5, HandleClaimStep
  <2>6. CASE HandleDown
    BY <2>6, HandleDownStep
  <2>7. ASSUME NEW m \in monitors, Deliver(m) PROVE IInv'
    BY <2>7, DeliverStep
  <2>8. CASE Crash
    BY <2>8, CrashStep
  <2>9. CASE Restart \/ UNCHANGED vars
    BY <2>9, OtherSteps
  <2> QED
    BY <2>1, <2>2, <2>3, <2>4, <2>5, <2>6, <2>7, <2>8, <2>9 DEF Next
<1> QED
  BY <1>1, InitIInv, PTL DEF Spec

(* IInv: the registry's record agrees with its holders, in every state. *)
THEOREM RecordSound == Spec => []IInv
  BY Inductive

(* SoleWriter: no two live processes hold a capability for one slot from     *)
(* one registry.                                                            *)
THEOREM OneWriterPerSlot == Spec => []SoleWriter
<1>1. IInv => SoleWriter
  BY DEF IInv, HoldersKnown, SoleWriter
<1> QED
  BY <1>1, Inductive, PTL

(* NeverWedged: no slot is left to a dead process. *)
THEOREM SlotsAreFreed == Spec => []NeverWedged
<1>1. IInv => NeverWedged
  <2> SUFFICES ASSUME IInv, mailbox = <<>>, \A m \in monitors : proc[m.pid] # "dead",
                      NEW s \in Slot, writers[s] # Free
               PROVE  Alive(writers[s].pid)
    BY DEF NeverWedged
  <2>1. writers[s] \in monitors
    BY DEF IInv, OwnersWatched
  <2>2. writers[s].pid \in Pid /\ proc[writers[s].pid] \notin {"unborn", "dead"}
    BY <2>1 DEF IInv, OwnersWatched
  <2> QED
    BY <2>2 DEF IInv, TypeOK, Alive
<1> QED
  BY <1>1, Inductive, PTL

=============================================================================
