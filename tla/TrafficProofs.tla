---------------------------- MODULE TrafficProofs ---------------------------
(* How items travel.  Between a sequence and the driver, for any number of *)
(* sequences and items: no item is lost, doubled or handed over empty,     *)
(* items are served in order, and a grant commits the driver.  On the      *)
(* analysis bus, for any components, any wiring and any number of items: a *)
(* broadcast reaches every subscriber once and in order, whatever the      *)
(* subscribers write while they are called.                                *)
EXTENDS Sequencer, AnalysisBus, TLAPS

(* A queue: who is in it, and that nobody is in it twice.                  *)
In(t, q) == \E i \in 1..Len(q) : q[i] = t
Distinct(q) == \A i, j \in 1..Len(q) : q[i] = q[j] => i = j

(* An append adds its element and, if it is new, no duplicate.             *)
LEMMA AppendEffect ==
  ASSUME NEW S, NEW q \in Seq(S), NEW e \in S, Distinct(q), ~In(e, q)
  PROVE  /\ Append(q, e) \in Seq(S)
         /\ Distinct(Append(q, e))
         /\ \A t : In(t, Append(q, e)) <=> In(t, q) \/ t = e
  <1>1. Distinct(Append(q, e))
    BY DEF Distinct, In
  <1>2. ASSUME NEW t PROVE In(t, Append(q, e)) <=> In(t, q) \/ t = e
    <2>1. Append(q, e)[Len(q) + 1] = e /\ Len(q) + 1 \in 1..Len(Append(q, e))
      OBVIOUS
    <2>2. In(t, q) => In(t, Append(q, e))
      BY DEF In
    <2>3. In(t, Append(q, e)) => In(t, q) \/ t = e
      BY DEF In
    <2>4. QED BY <2>1, <2>2, <2>3, Zenon DEF In
  <1>3. QED BY <1>1, <1>2

(* Without duplicates, a tail has everyone but the head.                   *)
LEMMA TailEffect ==
  ASSUME NEW S, NEW q \in Seq(S), q # <<>>, Distinct(q)
  PROVE  /\ Head(q) \in S /\ In(Head(q), q) /\ Tail(q) \in Seq(S)
         /\ Distinct(Tail(q))
         /\ \A t : In(t, Tail(q)) <=> In(t, q) /\ t # Head(q)
  <1>1. PICK u : u = Tail(q)
    BY Zenon
  <1>2. /\ u \in Seq(S) /\ Len(u) = Len(q) - 1 /\ Len(q) \in Nat
        /\ 1 \in 1..Len(q) /\ Head(q) = q[1] /\ q[1] \in S
        /\ \A i \in 1..Len(u) : u[i] = q[i + 1] /\ i + 1 \in 1..Len(q)
    BY <1>1
  <1>3. \A i \in 1..Len(q) : i # 1 => i - 1 \in 1..Len(u) /\ u[i - 1] = q[i]
    BY <1>2
  <1>4. Distinct(u)
    <2> SUFFICES ASSUME NEW i \in 1..Len(u), NEW j \in 1..Len(u), u[i] = u[j] PROVE i = j
      BY Zenon DEF Distinct
    <2>1. i + 1 = j + 1
      BY <1>2 DEF Distinct
    <2>2. QED BY <2>1
  <1>5. ASSUME NEW t, In(t, u) PROVE In(t, q) /\ t # q[1]
    <2>1. PICK i \in 1..Len(u) : u[i] = t
      BY <1>5, Zenon DEF In
    <2>2. i + 1 \in 1..Len(q) /\ q[i + 1] = t /\ i + 1 # 1
      BY <1>2, <2>1
    <2>3. QED BY <1>2, <2>2, Zenon DEF In, Distinct
  <1>6. ASSUME NEW t, In(t, q), t # q[1] PROVE In(t, u)
    BY <1>3, <1>6, Zenon DEF In
  <1>7. In(q[1], q)
    BY <1>2, Zenon DEF In
  <1>8. QED BY <1>1, <1>2, <1>4, <1>5, <1>6, <1>7, Zenon
-----------------------------------------------------------------------------
(* Later elements are larger, but for those of P.                          *)
Ordered(q, P) == \A i, j \in 1..Len(q) : i < j => q[i] < q[j] \/ q[j] \in P

(* The tickets given out so far.                                           *)
Issued(t) == t \in Nat /\ 0 < t /\ t < next_id

SeqStates == {"idle", "queued", "filling", "finishing", "ticket", "any", "gone"}
DrvStates == {"idle", "getting", "waiting", "driving", "dead"}
Waits(d, t) == drv[d] = "waiting" /\ slot[d] = t

SeqTypeOK ==
  /\ queue \in Seq(Nat) /\ driven \in Seq(Nat)
  /\ next_id \in Nat \ {0} /\ current \in Nat
  /\ seq \in [Seqs -> SeqStates] /\ cur \in [Seqs -> Nat]
  /\ drv \in [Drivers -> DrvStates] /\ slot \in [Drivers -> Nat]

(* The driver's state agrees with the slot that it holds and with current. *)
DriverFits ==
  /\ \A d \in Drivers :
       /\ drv[d] \in {"idle", "getting"} => slot[d] = NoItem /\ current = NoItem
       /\ drv[d] = "waiting" => slot[d] # NoItem /\ current = NoItem
       /\ drv[d] \in {"driving", "dead"} => slot[d] = current /\ current # NoItem
  /\ current # NoItem => \E d \in Drivers : slot[d] = current

(* Every ticket is in exactly one place.                                   *)
OnePlace ==
  /\ Distinct(queue)
  /\ \A t : In(t, queue) => Issued(t) /\ t \notin done \cup lost /\ \A d \in Drivers : slot[d] # t
  /\ \A d \in Drivers : slot[d] # NoItem => Issued(slot[d]) /\ slot[d] \notin done \cup lost
  /\ \A t \in done : Issued(t) /\ t \notin lost
  /\ \A t \in lost : Issued(t)
  /\ \A t : Issued(t) => In(t, queue) \/ t \in done \cup lost \/ \E d \in Drivers : slot[d] = t

(* A payload is there from ready until the item is handed over.            *)
PayloadFits ==
  /\ \A t : In(t, driven) => Issued(t) /\ t \in readied \ filled /\ t \in done \cup {current}
  /\ \A t \in readied : Issued(t) /\ (t \in filled \/ In(t, driven))
  /\ filled \subseteq readied

(* Sequences have tickets of their own, and do not fill an item in twice.  *)
CurFits ==
  /\ \A s \in Seqs :
       /\ cur[s] < next_id
       /\ seq[s] \in {"queued", "filling", "finishing"} => cur[s] # NoItem
       /\ seq[s] \in {"queued", "filling"} => cur[s] \notin readied
       /\ seq[s] = "filling" => cur[s] \in granted
  /\ \A s, t \in Seqs : s # t /\ cur[s] = cur[t] => cur[s] = NoItem

(* Whatever was granted is waited for, or was driven, put back or dropped. *)
GrantFits ==
  \A t \in granted : In(t, driven) \/ t \in passedOn \cup lost \/ \E d \in Drivers : Waits(d, t)

(* Tickets leave the queue in ascending order, but for those put back.     *)
OrderFits ==
  /\ Ordered(queue, passedOn) /\ Ordered(driven, passedOn)
  /\ \A x, y : In(y, queue) /\ (In(x, driven) \/ \E d \in Drivers : slot[d] = x)
       => x < y \/ y \in passedOn
  /\ \A d \in Drivers : \A x : drv[d] = "waiting" /\ In(x, driven)
       => x < slot[d] \/ slot[d] \in passedOn

IInv ==
  /\ SeqTypeOK /\ DriverFits /\ OnePlace /\ PayloadFits /\ CurFits /\ GrantFits /\ OrderFits
-----------------------------------------------------------------------------
(* Facts about ordered sequences.                                          *)
LEMMA InAppend ==
  ASSUME NEW S, NEW q \in Seq(S), NEW e \in S
  PROVE  /\ Append(q, e) \in Seq(S)
         /\ \A t : In(t, Append(q, e)) <=> In(t, q) \/ t = e
  <1>1. ASSUME NEW t PROVE In(t, Append(q, e)) <=> In(t, q) \/ t = e
    <2>1. Append(q, e)[Len(q) + 1] = e /\ Len(q) + 1 \in 1..Len(Append(q, e))
      OBVIOUS
    <2>2. In(t, q) => In(t, Append(q, e))
      BY DEF In
    <2>3. In(t, Append(q, e)) => In(t, q) \/ t = e
      BY DEF In
    <2>4. QED BY <2>1, <2>2, <2>3, Zenon DEF In
  <1>2. QED BY <1>1

LEMMA OrderedTail ==
  ASSUME NEW P, NEW q \in Seq(Nat), q # <<>>, Ordered(q, P)
  PROVE  /\ Ordered(Tail(q), P)
         /\ \A t : In(t, Tail(q)) => Head(q) < t \/ t \in P
  <1>1. /\ Tail(q) \in Seq(Nat) /\ Len(Tail(q)) = Len(q) - 1 /\ Head(q) = q[1] /\ Len(q) \in Nat
        /\ \A i \in 1..Len(Tail(q)) : Tail(q)[i] = q[i + 1] /\ i + 1 \in 1..Len(q)
    OBVIOUS
  <1>2. PICK r : r = Tail(q)
    BY Zenon
  <1>3. Ordered(r, P)
    BY <1>1, <1>2 DEF Ordered
  <1>4. ASSUME NEW t, In(t, r) PROVE Head(q) < t \/ t \in P
    <2>1. PICK i \in 1..Len(r) : r[i] = t
      BY <1>4, Zenon DEF In
    <2>2. i + 1 \in 1..Len(q) /\ q[i + 1] = t /\ 1 \in 1..Len(q) /\ 1 < i + 1
      BY <1>1, <1>2, <2>1
    <2>3. QED BY <1>1, <2>2, Zenon DEF Ordered
  <1>5. QED BY <1>2, <1>3, <1>4, Zenon

LEMMA OrderedAppend ==
  ASSUME NEW P, NEW q \in Seq(Nat), NEW e \in Nat, Ordered(q, P),
         e \in P \/ \A x : In(x, q) => x < e
  PROVE  Ordered(Append(q, e), P)
  <1>1. PICK r : r = Append(q, e)
    BY Zenon
  <1>2. /\ Len(r) = Len(q) + 1 /\ r[Len(q) + 1] = e /\ Len(q) \in Nat
        /\ \A i \in 1..Len(q) : r[i] = q[i] /\ In(q[i], q)
    BY <1>1 DEF In
  <1>3. ASSUME NEW i \in 1..Len(r), NEW j \in 1..Len(r), i < j
        PROVE  r[i] < r[j] \/ r[j] \in P
    <2>1. i \in 1..Len(q)
      BY <1>2, <1>3
    <2>2. CASE j \in 1..Len(q)
      BY <1>2, <1>3, <2>1, <2>2, Zenon DEF Ordered
    <2>3. CASE j = Len(q) + 1
      BY <1>2, <2>1, <2>3, Zenon
    <2>4. QED BY <1>2, <2>2, <2>3
  <1>4. QED BY <1>1, <1>3, Zenon DEF Ordered

LEMMA OrderedMore ==
  ASSUME NEW P, NEW Q, NEW q, Ordered(q, P), P \subseteq Q
  PROVE  Ordered(q, Q)
  BY Zenon DEF Ordered
-----------------------------------------------------------------------------
LEMMA InitOK == Init => IInv
  <1> SUFFICES ASSUME Init PROVE IInv
    BY Zenon
  <1>1. SeqTypeOK
    BY DEF Init, SeqTypeOK, SeqStates, DrvStates, NoItem
  <1>2. Len(queue) = 0 /\ Len(driven) = 0
    BY Zenon DEF Init
  <1>3. \A t : ~In(t, queue) /\ ~In(t, driven)
    BY <1>2 DEF In
  <1>4. Distinct(queue) /\ Ordered(queue, passedOn) /\ Ordered(driven, passedOn)
    BY <1>2 DEF Distinct, Ordered
  <1>5. DriverFits /\ CurFits
    BY DEF Init, DriverFits, CurFits, NoItem
  <1>6. OnePlace /\ PayloadFits /\ GrantFits /\ OrderFits
    BY <1>3, <1>4 DEF Init, OnePlace, PayloadFits, GrantFits, OrderFits, Issued, NoItem
  <1>7. QED BY <1>1, <1>5, <1>6, Zenon DEF IInv

(* What the invariant is about, without the sequences' own places.         *)
Subject ==
  <<queue, next_id, current, granted, readied, done, filled, cur, drv, slot, lost, driven,
    passedOn>>

(* Responses, and what is still owed, do not matter to it.                 *)
LEMMA Frame ==
  ASSUME IInv, UNCHANGED Subject, seq' = seq
  PROVE  IInv'
  BY Zenon DEF IInv, Subject, SeqTypeOK, DriverFits, OnePlace, PayloadFits, CurFits, GrantFits, OrderFits,
         Issued, Waits, Holders, NoItem

(* A sequence goes on, at no cost to anybody else.                         *)
LEMMA SequenceMoves ==
  ASSUME IInv, NEW s \in Seqs, NEW w \in SeqStates,
         UNCHANGED Subject, seq' = [seq EXCEPT ![s] = w],
         w \notin {"queued", "finishing"},
         w = "filling" => seq[s] = "queued" /\ cur[s] \in granted
  PROVE  IInv'
  <1>1. SeqTypeOK' /\ CurFits'
    BY Zenon DEF IInv, Subject, SeqTypeOK, CurFits, NoItem
  <1>2. DriverFits' /\ OnePlace' /\ PayloadFits' /\ GrantFits' /\ OrderFits'
    BY ZenonT(60) DEF IInv, Subject, DriverFits, OnePlace, PayloadFits, GrantFits, OrderFits, Issued, Waits, NoItem
  <1>3. QED BY <1>1, <1>2, Zenon DEF IInv
LEMMA StartOK == ASSUME IInv, NEW s \in Seqs, start_item(s) PROVE IInv'
  <1> PICK n : n = next_id
    BY Zenon
  <1>0. /\ n \in Nat \ {0} /\ next_id = n /\ next_id' = n + 1 /\ queue' = Append(queue, n) /\ queue \in Seq(Nat)
        /\ cur' = [cur EXCEPT ![s] = n] /\ seq' = [seq EXCEPT ![s] = "queued"]
        /\ UNCHANGED <<current, granted, readied, done, filled, drv, slot, lost, driven, passedOn>>
    BY Zenon DEF IInv, SeqTypeOK, start_item, DriverSide, Events
  <1>1. ~In(n, queue) /\ Distinct(queue) /\ Ordered(queue, passedOn) /\ \A x : In(x, queue) => x < n
    BY <1>0 DEF IInv, OnePlace, OrderFits, Issued
  <1>2. queue' \in Seq(Nat) /\ Distinct(queue') /\ \A t : In(t, queue') <=> In(t, queue) \/ t = n
    <2>1. /\ Append(queue, n) \in Seq(Nat) /\ Distinct(Append(queue, n))
          /\ \A t : In(t, Append(queue, n)) <=> In(t, queue) \/ t = n
      <3>1. n \in Nat
        BY <1>0, Zenon
      <3>2. QED BY <1>0, <1>1, <3>1, AppendEffect, Zenon
    <2>2. QED BY <1>0, <2>1, Zenon
  <1>3. Ordered(queue', passedOn)
    BY <1>0, <1>1, OrderedAppend, Zenon
  <1>4. ~Issued(n) /\ \A t : Issued(t)' <=> Issued(t) \/ t = n
    BY <1>0 DEF Issued
  <1>5. SeqTypeOK'
    BY <1>0, <1>2 DEF IInv, SeqTypeOK, SeqStates
  <1>6. DriverFits'
    BY <1>0, Zenon DEF IInv, DriverFits
  <1>7. OnePlace'
    <2>0. OnePlace
      BY Zenon DEF IInv
    <2>1. /\ \A d \in Drivers : slot[d] # n
          /\ n \notin done \cup lost
      BY <1>0, <2>0 DEF OnePlace, Issued, NoItem
    <2>2. \A t : In(t, queue') => Issued(t)' /\ t \notin done \cup lost /\ \A d \in Drivers : slot[d] # t
      BY <1>2, <1>4, <2>0, <2>1, Zenon DEF OnePlace
    <2>3. \A d \in Drivers : slot[d] # NoItem => slot[d] \notin done \cup lost /\ slot[d] < n + 1 /\ 0 < slot[d]
      BY <1>0, <2>0 DEF OnePlace, Issued
    <2>4. \A t : t \in done \cup lost => Issued(t)'
      BY <1>4, <2>0, Zenon DEF OnePlace
    <2>5. \A t : Issued(t)' => In(t, queue') \/ t \in done \cup lost \/ \E d \in Drivers : slot[d] = t
      BY <1>2, <1>4, <2>0, Zenon DEF OnePlace
    <2>6. slot \in [Drivers -> Nat]
      BY Zenon DEF IInv, SeqTypeOK
    <2>7. \A d \in Drivers : slot[d] # NoItem => Issued(slot[d])'
      BY <1>0, <2>3, <2>6, Zenon DEF Issued
    <2>8. QED BY <1>0, <1>2, <2>0, <2>2, <2>3, <2>4, <2>5, <2>7, Zenon DEF OnePlace
  <1>8. PayloadFits'
    BY <1>0, <1>4, Zenon DEF IInv, PayloadFits
  <1>9. CurFits'
    <2>1. n \notin readied
      BY <1>4, Zenon DEF IInv, PayloadFits
    <2>2. QED BY <1>0, <2>1 DEF IInv, CurFits, SeqTypeOK, NoItem
  <1>10. GrantFits'
    BY <1>0, Zenon DEF IInv, GrantFits, Waits
  <1>11. OrderFits'
    <2>1. \A x : In(x, driven) \/ (\E d \in Drivers : slot[d] = x) => x < n
      BY <1>0 DEF IInv, PayloadFits, OnePlace, Issued, NoItem
    <2>2. QED BY <1>0, <1>2, <1>3, <2>1, Zenon DEF IInv, OrderFits
  <1>12. QED BY <1>5, <1>6, <1>7, <1>8, <1>9, <1>10, <1>11, Zenon DEF IInv

LEMMA FinishOK == ASSUME IInv, NEW s \in Seqs, finish_item(s) PROVE IInv'
  <1> DEFINE n == cur[s]
  <1>0. /\ seq[s] = "filling" /\ n \in Nat /\ n # NoItem /\ n < next_id /\ n \notin readied
        /\ filled' = filled \cup {n} /\ readied' = readied \cup {n}
        /\ seq' = [seq EXCEPT ![s] = "finishing"]
        /\ UNCHANGED <<queue, next_id, granted, done, cur, current, drv, slot, lost, driven, passedOn>>
    BY Zenon DEF IInv, SeqTypeOK, CurFits, finish_item, DriverSide
  <1>1. \A t : Issued(t)' <=> Issued(t)
    BY <1>0, Zenon DEF Issued
  <1>2. SeqTypeOK' /\ DriverFits' /\ GrantFits'
    <2>1. SeqTypeOK'
      BY <1>0, Zenon DEF IInv, SeqTypeOK, SeqStates
    <2>2. DriverFits' /\ GrantFits'
      BY <1>0, Zenon DEF IInv, DriverFits, GrantFits, Waits
    <2>3. QED BY <2>1, <2>2, Zenon
  <1>3. OnePlace' /\ OrderFits'
    BY <1>0, <1>1, Zenon DEF IInv, OnePlace, OrderFits
  <1>4. PayloadFits'
    <2>1. Issued(n)
      BY <1>0 DEF Issued, NoItem, IInv, SeqTypeOK
    <2>2. QED BY <1>0, <1>1, <2>1, Zenon DEF IInv, PayloadFits
  <1>5. CurFits'
    BY <1>0, Zenon DEF IInv, CurFits, NoItem, SeqTypeOK
  <1>6. QED BY <1>2, <1>3, <1>4, <1>5, Zenon DEF IInv

(* The front slot leaves the queue, and its sequence is told.              *)
Takes(id) ==
  /\ queue # <<>> /\ id = Head(queue)
  /\ queue' = Tail(queue) /\ granted' = granted \cup {id}
  /\ UNCHANGED <<next_id, readied, done, seq, cur, lost, passedOn>>

LEMMA TakesEffect ==
  ASSUME IInv, NEW id, Takes(id)
  PROVE  /\ queue' \in Seq(Nat) /\ Distinct(queue') /\ Ordered(queue', passedOn)
         /\ In(id, queue) /\ Issued(id) /\ id \notin done \cup lost /\ ~In(id, driven)
         /\ \A t : In(t, queue') <=> In(t, queue) /\ t # id
         /\ \A t : In(t, queue') => id < t \/ t \in passedOn
         /\ \A x : In(x, driven) => x < id \/ id \in passedOn
         /\ \A t : Issued(t)' <=> Issued(t)
  <1>1. queue \in Seq(Nat) /\ queue # <<>> /\ Distinct(queue) /\ Ordered(queue, passedOn)
        /\ id = Head(queue) /\ queue' = Tail(queue)
    BY Zenon DEF IInv, SeqTypeOK, OnePlace, OrderFits, Takes
  <1>2. /\ queue' \in Seq(Nat) /\ Distinct(queue') /\ In(id, queue)
        /\ \A t : In(t, queue') <=> In(t, queue) /\ t # id
    BY <1>1, TailEffect, Zenon
  <1>3. Ordered(queue', passedOn) /\ \A t : In(t, queue') => id < t \/ t \in passedOn
    BY <1>1, OrderedTail, Zenon
  <1>4. Issued(id) /\ id \notin done \cup lost /\ \A d \in Drivers : slot[d] # id
    BY <1>2, Zenon DEF IInv, OnePlace
  <1>5. ~In(id, driven)
    <2>1. id # current
      BY <1>4 DEF IInv, DriverFits, Issued, NoItem
    <2>2. QED BY <1>4, <2>1, Zenon DEF IInv, PayloadFits
  <1>6. \A x : In(x, driven) => x < id \/ id \in passedOn
    BY <1>2, Zenon DEF IInv, OrderFits
  <1>7. \A t : Issued(t)' <=> Issued(t)
    BY Zenon DEF Takes, Issued
  <1>8. QED BY <1>2, <1>3, <1>4, <1>5, <1>6, <1>7, Zenon
(* The front slot goes to the driver at once: its payload was there.       *)
LEMMA TakeReadyOK ==
  ASSUME IInv, NEW d \in Drivers, NEW id, Takes(id), id \in readied, HandOver(d, id),
         slot[d] = NoItem, current = NoItem
  PROVE  IInv'
  <1>1. /\ queue' \in Seq(Nat) /\ Distinct(queue') /\ Ordered(queue', passedOn)
        /\ In(id, queue) /\ Issued(id) /\ id \notin done \cup lost /\ ~In(id, driven)
        /\ \A t : In(t, queue') <=> In(t, queue) /\ t # id
        /\ \A t : In(t, queue') => id < t \/ t \in passedOn
        /\ \A x : In(x, driven) => x < id \/ id \in passedOn
        /\ \A t : Issued(t)' <=> Issued(t)
    BY TakesEffect, Zenon
  <1>2. /\ granted' = granted \cup {id} /\ filled' = filled \ {id} /\ current' = id
        /\ drv' = [drv EXCEPT ![d] = "driving"] /\ slot' = [slot EXCEPT ![d] = id]
        /\ driven' = Append(driven, id) /\ id \in Nat /\ id # NoItem
        /\ UNCHANGED <<next_id, readied, done, seq, cur, lost, passedOn>>
    BY <1>1 DEF Takes, HandOver, Issued, NoItem
  <1>3. \A e \in Drivers : e = d
    BY OneDriver, Zenon
  <1>4. driven \in Seq(Nat) /\ Ordered(driven, passedOn)
    BY Zenon DEF IInv, SeqTypeOK, OrderFits
  <1>5. driven' \in Seq(Nat) /\ \A t : In(t, driven') <=> In(t, driven) \/ t = id
    BY <1>2, <1>4, InAppend, Zenon
  <1>6. Ordered(driven', passedOn)
    BY <1>1, <1>2, <1>4, OrderedAppend, Zenon
  <1>7. drv'[d] = "driving" /\ slot'[d] = id
    BY <1>2, Zenon DEF IInv, SeqTypeOK
  <1>8. SeqTypeOK'
    BY <1>1, <1>2, <1>5, Zenon DEF IInv, SeqTypeOK, DrvStates
  <1>9. DriverFits'
    BY <1>2, <1>3, <1>7, Zenon DEF DriverFits, NoItem
  <1>10. OnePlace'
    BY <1>1, <1>2, <1>3, <1>7 DEF IInv, OnePlace, Issued, NoItem
  <1>11. PayloadFits'
    BY <1>1, <1>2, <1>5 DEF IInv, PayloadFits, NoItem, Issued
  <1>12. CurFits'
    BY <1>2, Zenon DEF IInv, CurFits
  <1>13. GrantFits'
    <2>1. \A t : \A e \in Drivers : ~Waits(e, t)
      BY <1>3, Zenon DEF IInv, DriverFits, Waits
    <2>2. QED BY <1>2, <1>5, <2>1, Zenon DEF IInv, GrantFits
  <1>14. OrderFits'
    BY <1>1, <1>2, <1>3, <1>5, <1>6, <1>7, Zenon DEF IInv, OrderFits
  <1>15. QED BY <1>8, <1>9, <1>10, <1>11, <1>12, <1>13, <1>14, Zenon DEF IInv

(* The driver takes the front slot and waits for its payload.              *)
LEMMA TakeUnreadyOK ==
  ASSUME IInv, NEW d \in Drivers, NEW id, Takes(id), id \notin readied,
         drv' = [drv EXCEPT ![d] = "waiting"], slot' = [slot EXCEPT ![d] = id],
         UNCHANGED <<filled, current, driven>>, slot[d] = NoItem, current = NoItem
  PROVE  IInv'
  <1>1. /\ queue' \in Seq(Nat) /\ Distinct(queue') /\ Ordered(queue', passedOn)
        /\ In(id, queue) /\ Issued(id) /\ id \notin done \cup lost /\ ~In(id, driven)
        /\ \A t : In(t, queue') <=> In(t, queue) /\ t # id
        /\ \A t : In(t, queue') => id < t \/ t \in passedOn
        /\ \A x : In(x, driven) => x < id \/ id \in passedOn
        /\ \A t : Issued(t)' <=> Issued(t)
    BY TakesEffect, Zenon
  <1>2. /\ granted' = granted \cup {id} /\ id \in Nat /\ id # NoItem
        /\ UNCHANGED <<next_id, readied, done, seq, cur, lost, passedOn>>
    BY <1>1 DEF Takes, Issued, NoItem
  <1>3. \A e \in Drivers : e = d
    BY OneDriver, Zenon
  <1>4. drv'[d] = "waiting" /\ slot'[d] = id
    BY Zenon DEF IInv, SeqTypeOK
  <1>5. SeqTypeOK'
    BY <1>1, <1>2, Zenon DEF IInv, SeqTypeOK, DrvStates
  <1>6. DriverFits'
    BY <1>2, <1>3, <1>4, Zenon DEF DriverFits, NoItem
  <1>7. OnePlace'
    BY <1>1, <1>2, <1>3, <1>4 DEF IInv, OnePlace, Issued, NoItem
  <1>8. PayloadFits'
    BY <1>1, <1>2, Zenon DEF IInv, PayloadFits
  <1>9. CurFits'
    BY <1>2, Zenon DEF IInv, CurFits
  <1>10. GrantFits'
    <2>1. \A t : \A e \in Drivers : ~Waits(e, t)
      BY <1>3, Zenon DEF IInv, DriverFits, Waits
    <2>2. QED BY <1>2, <1>4, <2>1, Zenon DEF IInv, GrantFits, Waits
  <1>11. OrderFits'
    BY <1>1, <1>2, <1>3, <1>4, Zenon DEF IInv, OrderFits
  <1>12. QED BY <1>5, <1>6, <1>7, <1>8, <1>9, <1>10, <1>11, Zenon DEF IInv

LEMMA DequeueOK ==
  ASSUME IInv, NEW d \in Drivers, Dequeue(d), drv[d] \in {"idle", "getting"}
  PROVE  IInv'
  <1>1. PICK id : id = Head(queue)
    BY Zenon
  <1>2. Takes(id)
    BY <1>1, Zenon DEF Dequeue, Takes, Histories
  <1>3. slot[d] = NoItem /\ current = NoItem
    BY Zenon DEF IInv, DriverFits
  <1>4. CASE id \in readied
    <2>1. HandOver(d, id)
      BY <1>1, <1>4, Zenon DEF Dequeue
    <2>2. QED BY <1>2, <1>3, <1>4, <2>1, TakeReadyOK, Zenon
  <1>5. CASE id \notin readied
    <2>1. /\ drv' = [drv EXCEPT ![d] = "waiting"] /\ slot' = [slot EXCEPT ![d] = id]
          /\ UNCHANGED <<filled, current, driven>>
      BY <1>1, <1>5, Zenon DEF Dequeue
    <2>2. QED BY <1>2, <1>3, <1>5, <2>1, TakeUnreadyOK, Zenon
  <1>6. QED BY <1>4, <1>5, Zenon
(* The driver goes on, neither from nor to the wait for a payload.         *)
LEMMA DriverMoves ==
  ASSUME IInv, NEW d \in Drivers, NEW w \in DrvStates, drv' = [drv EXCEPT ![d] = w],
         drv[d] # "waiting", w # "waiting", DriverFits', seq' = seq,
         UNCHANGED <<queue, next_id, current, granted, readied, done, filled, cur, slot, lost,
                     driven, passedOn>>
  PROVE  IInv'
  <1>1. SeqTypeOK'
    BY Zenon DEF IInv, SeqTypeOK
  <1>2. \A e \in Drivers : drv'[e] = "waiting" <=> drv[e] = "waiting"
    BY Zenon DEF IInv, SeqTypeOK
  <1>3. OnePlace'
    BY Zenon DEF IInv, OnePlace, Issued
  <1>4. PayloadFits' /\ CurFits'
    BY Zenon DEF IInv, PayloadFits, CurFits, Issued
  <1>5. GrantFits'
    BY <1>2, Zenon DEF IInv, GrantFits, Waits
  <1>6. OrderFits'
    BY <1>2, Zenon DEF IInv, OrderFits
  <1>7. QED BY <1>1, <1>3, <1>4, <1>5, <1>6, Zenon DEF IInv

LEMMA PanicOK ==
  ASSUME IInv, NEW d \in Drivers, Panic(d), MayCall(d), current # NoItem
  PROVE  IInv'
  <1>1. drv[d] = "driving"
    BY Zenon DEF MayCall, IInv, DriverFits
  <1>2. drv' = [drv EXCEPT ![d] = "dead"] /\ seq' = seq
        /\ UNCHANGED <<queue, next_id, current, granted, readied, done, filled, cur, slot, lost,
                       driven, passedOn>>
    BY Zenon DEF Panic, Histories
  <1>3. DriverFits'
    BY <1>1, <1>2, Zenon DEF IInv, SeqTypeOK, DriverFits
  <1>4. QED BY <1>1, <1>2, <1>3, DriverMoves, Zenon DEF DrvStates

LEMMA GetOK == ASSUME IInv, NEW d \in Drivers, get_next_item(d) PROVE IInv'
  <1>1. CASE current # NoItem
    BY <1>1, PanicOK, Zenon DEF get_next_item
  <1>2. CASE current = NoItem
    <2>1. drv[d] = "idle" /\ AskQueue(d)
      BY <1>2, Zenon DEF get_next_item, MayCall, IInv, DriverFits
    <2>2. CASE queue # <<>>
      BY <2>1, <2>2, DequeueOK, Zenon DEF AskQueue
    <2>3. CASE queue = <<>>
      <3>1. drv' = [drv EXCEPT ![d] = "getting"] /\ seq' = seq
            /\ UNCHANGED <<queue, next_id, current, granted, readied, done, filled, cur, slot, lost,
                           driven, passedOn>>
        BY <2>1, <2>3, Zenon DEF AskQueue, Histories
      <3>2. DriverFits'
        BY <2>1, <3>1, Zenon DEF IInv, SeqTypeOK, DriverFits
      <3>3. QED BY <2>1, <3>1, <3>2, DriverMoves, Zenon DEF DrvStates
    <2>4. QED BY <2>2, <2>3, Zenon
  <1>3. QED BY <1>1, <1>2, Zenon

LEMMA ReadiedOK == ASSUME IInv, NEW d \in Drivers, Readied(d) PROVE IInv'
  <1>0. PICK id : id = slot[d]
    BY Zenon
  <1>1. /\ drv[d] = "waiting" /\ slot[d] = id /\ id \in readied /\ id # NoItem /\ current = NoItem
        /\ filled' = filled \ {id} /\ current' = id /\ driven' = Append(driven, id)
        /\ drv' = [drv EXCEPT ![d] = "driving"] /\ slot' = [slot EXCEPT ![d] = id]
        /\ UNCHANGED <<queue, next_id, granted, readied, done, seq, cur, lost, passedOn>>
    BY <1>0, Zenon DEF Readied, HandOver, Histories, IInv, DriverFits
  <1>2. slot' = slot
    BY <1>1, Zenon DEF IInv, SeqTypeOK
  <1>3. Issued(id) /\ id \notin done \cup lost /\ ~In(id, queue) /\ id \in Nat
    BY <1>1, Zenon DEF IInv, OnePlace, Issued
  <1>4. ~In(id, driven) /\ \A x : In(x, driven) => x < id \/ id \in passedOn
    BY <1>1, <1>3, Zenon DEF IInv, PayloadFits, OrderFits
  <1>5. driven \in Seq(Nat) /\ Ordered(driven, passedOn)
    BY Zenon DEF IInv, SeqTypeOK, OrderFits
  <1>6. driven' \in Seq(Nat) /\ \A t : In(t, driven') <=> In(t, driven) \/ t = id
    <2>1. Append(driven, id) \in Seq(Nat) /\ \A t : In(t, Append(driven, id)) <=> In(t, driven) \/ t = id
      BY <1>3, <1>5, InAppend, Zenon
    <2>2. QED BY <1>1, <2>1, Zenon
  <1>7. Ordered(driven', passedOn)
    BY <1>1, <1>3, <1>4, <1>5, OrderedAppend, Zenon
  <1>8. (\A e \in Drivers : e = d) /\ drv'[d] = "driving"
    BY <1>1, OneDriver, Zenon DEF IInv, SeqTypeOK
  <1>9. SeqTypeOK'
    BY <1>1, <1>3, <1>6, Zenon DEF IInv, SeqTypeOK, DrvStates
  <1>10. DriverFits'
    BY <1>1, <1>2, <1>8, Zenon DEF DriverFits
  <1>11. OnePlace'
    BY <1>1, <1>2, Zenon DEF IInv, OnePlace, Issued
  <1>12. PayloadFits'
    <2>1. \A t : (Issued(t)' <=> Issued(t)) /\ (Issued(t) => t # NoItem)
      BY <1>1 DEF Issued, NoItem
    <2>2. \A t : In(t, driven) => Issued(t) /\ t \in readied \ filled /\ t \in done
      BY <1>1, <2>1, Zenon DEF IInv, PayloadFits
    <2>3. \A t : In(t, driven') => Issued(t)' /\ t \in readied' \ filled' /\ t \in done' \cup {current'}
      BY <1>1, <1>3, <1>6, <2>1, <2>2, Zenon
    <2>4. (\A t \in readied' : Issued(t)' /\ (t \in filled' \/ In(t, driven'))) /\ filled' \subseteq readied'
      BY <1>1, <1>6, <2>1, Zenon DEF IInv, PayloadFits
    <2>5. QED BY <2>3, <2>4, Zenon DEF PayloadFits
  <1>13. CurFits'
    BY <1>1, Zenon DEF IInv, CurFits
  <1>14. GrantFits'
    BY <1>1, <1>6, <1>8, Zenon DEF IInv, GrantFits, Waits
  <1>15. OrderFits'
    BY <1>1, <1>2, <1>6, <1>7, <1>8, Zenon DEF IInv, OrderFits
  <1>16. QED BY <1>9, <1>10, <1>11, <1>12, <1>13, <1>14, <1>15, Zenon DEF IInv

LEMMA DropGetOK == ASSUME IInv, NEW d \in Drivers, DropGet(d) PROVE IInv'
  <1>1. /\ drv[d] \in {"getting", "waiting"} /\ current = NoItem
        /\ drv' = [drv EXCEPT ![d] = "idle"] /\ slot' = [slot EXCEPT ![d] = NoItem]
        /\ lost' = lost \cup ({slot[d]} \ {NoItem})
        /\ UNCHANGED <<queue, next_id, current, granted, readied, done, filled, seq, cur, driven, passedOn>>
    BY Zenon DEF DropGet, IInv, DriverFits
  <1>2. (\A e \in Drivers : e = d) /\ drv'[d] = "idle" /\ slot'[d] = NoItem
    BY <1>1, OneDriver, Zenon DEF IInv, SeqTypeOK
  <1>3. SeqTypeOK'
    BY <1>1, Zenon DEF IInv, SeqTypeOK, DrvStates, NoItem
  <1>4. DriverFits'
    BY <1>1, <1>2, Zenon DEF DriverFits
  <1>5. OnePlace'
    <2>0. OnePlace /\ \A t : Issued(t)' <=> Issued(t)
      BY <1>1, Zenon DEF IInv, Issued
    <2>1. slot[d] # NoItem => Issued(slot[d]) /\ slot[d] \notin done \cup lost /\ ~In(slot[d], queue)
      BY <2>0, Zenon DEF OnePlace
    <2>2. \A t : In(t, queue') => Issued(t)' /\ t \notin done' \cup lost' /\ \A e \in Drivers : slot'[e] # t
      BY <1>1, <1>2, <2>0, <2>1 DEF OnePlace, Issued, NoItem
    <2>3. (\A t \in done' : Issued(t)' /\ t \notin lost') /\ (\A t \in lost' : Issued(t)')
      BY <1>1, <2>0, <2>1, Zenon DEF OnePlace
    <2>4. \A t : Issued(t)' => In(t, queue') \/ t \in done' \cup lost' \/ \E e \in Drivers : slot'[e] = t
      <3>1. \A t : Issued(t) => t # NoItem
        BY DEF Issued, NoItem
      <3>2. QED BY <1>1, <1>2, <2>0, <3>1, Zenon DEF OnePlace
    <2>5. QED BY <1>1, <1>2, <2>0, <2>2, <2>3, <2>4, Zenon DEF OnePlace
  <1>6. PayloadFits' /\ CurFits'
    BY <1>1, Zenon DEF IInv, PayloadFits, CurFits, Issued
  <1>7. GrantFits'
    BY <1>1, <1>2, SMTT(60) DEF IInv, GrantFits, Waits, DriverFits
  <1>8. OrderFits'
    <2>1. \A y : In(y, queue) => NoItem < y
      BY Zenon DEF IInv, OnePlace, Issued, NoItem
    <2>2. QED BY <1>1, <1>2, <2>1, Zenon DEF IInv, OrderFits
  <1>9. QED BY <1>3, <1>4, <1>5, <1>6, <1>7, <1>8, Zenon DEF IInv
(* A slot that is not filled goes back to the end of the queue.            *)
LEMMA PutBackOK ==
  ASSUME IInv, NEW d \in Drivers, NEW id, queue # <<>>, id = Head(queue), id \notin filled,
         granted' = granted \cup {id}, queue' = Append(Tail(queue), id),
         passedOn' = passedOn \cup {id},
         UNCHANGED <<next_id, current, readied, done, filled, seq, cur, drv, slot, lost, driven>>
  PROVE  IInv'
  <1>1. queue \in Seq(Nat) /\ Distinct(queue) /\ Ordered(queue, passedOn)
        /\ Ordered(driven, passedOn) /\ passedOn \subseteq passedOn'
    BY Zenon DEF IInv, SeqTypeOK, OnePlace, OrderFits
  <1>2. PICK q : q = Tail(queue)
    BY Zenon
  <1>3. /\ id \in Nat /\ In(id, queue) /\ q \in Seq(Nat) /\ Distinct(q) /\ ~In(id, q)
        /\ \A t : In(t, q) <=> In(t, queue) /\ t # id
    BY <1>1, <1>2, TailEffect, Zenon
  <1>4. Ordered(q, passedOn)
    BY <1>1, <1>2, OrderedTail, Zenon
  <1>5. /\ queue' \in Seq(Nat) /\ Distinct(queue')
        /\ \A t : In(t, queue') <=> In(t, queue)
    <2>1. queue' = Append(q, id)
      BY <1>2, Zenon
    <2>2. /\ queue' \in Seq(Nat) /\ Distinct(queue')
          /\ \A t : In(t, queue') <=> In(t, q) \/ t = id
      <3>1. /\ Append(q, id) \in Seq(Nat) /\ Distinct(Append(q, id))
            /\ \A t : In(t, Append(q, id)) <=> In(t, q) \/ t = id
        BY <1>3, AppendEffect, Zenon
      <3>2. QED BY <2>1, <3>1, Zenon
    <2>3. QED BY <1>3, <2>2, Zenon
  <1>6. PICK P : P = passedOn'
    BY Zenon
  <1>7. Ordered(queue', P) /\ Ordered(driven, P)
    <2>1. Ordered(q, P) /\ Ordered(driven, P) /\ id \in P
      BY <1>1, <1>4, <1>6, OrderedMore, Zenon
    <2>2. QED BY <1>2, <1>3, <2>1, OrderedAppend, Zenon
  <1>8. SeqTypeOK' /\ DriverFits' /\ CurFits'
    BY <1>5, Zenon DEF IInv, SeqTypeOK, DriverFits, CurFits
  <1>9. OnePlace' /\ PayloadFits'
    <2>1. OnePlace /\ PayloadFits
      BY Zenon DEF IInv
    <2>2. OnePlace'
      BY <1>5, <2>1, Zenon DEF OnePlace, Issued
    <2>3. PayloadFits'
      BY <2>1, Zenon DEF PayloadFits, Issued
    <2>4. QED BY <2>2, <2>3, Zenon
  <1>10. GrantFits'
    <2>1. GrantFits
      BY Zenon DEF IInv
    <2>2. QED BY <2>1, Zenon DEF GrantFits, Waits
  <1>11. OrderFits'
    BY <1>5, <1>6, <1>7, Zenon DEF IInv, OrderFits
  <1>12. QED BY <1>8, <1>9, <1>10, <1>11, Zenon DEF IInv

LEMMA TryOK == ASSUME IInv, NEW d \in Drivers, try_next_item(d) PROVE IInv'
  <1>1. CASE current # NoItem
    BY <1>1, PanicOK, Zenon DEF try_next_item
  <1>2. CASE current = NoItem
    <2>0. PICK id : id = Head(queue)
      BY Zenon
    <2>1. /\ queue # <<>> /\ granted' = granted \cup {id}
          /\ UNCHANGED <<next_id, readied, done, seq, cur, lost>>
      BY <1>2, <2>0, Zenon DEF try_next_item
    <2>2. drv[d] = "idle" /\ slot[d] = NoItem
      BY <1>2, Zenon DEF try_next_item, MayCall, IInv, DriverFits
    <2>3. CASE id \in filled
      <3>1. Takes(id) /\ HandOver(d, id)
        BY <1>2, <2>0, <2>1, <2>3, Zenon DEF try_next_item, Takes
      <3>2. id \in readied
        BY <2>3, Zenon DEF IInv, PayloadFits
      <3>3. QED BY <1>2, <2>2, <3>1, <3>2, TakeReadyOK, Zenon
    <2>4. CASE id \notin filled
      <3>1. /\ queue' = Append(Tail(queue), id) /\ passedOn' = passedOn \cup {id}
            /\ UNCHANGED <<filled, current, drv, slot, driven>>
        BY <1>2, <2>0, <2>4, Zenon DEF try_next_item
      <3>2. QED BY <2>0, <2>1, <2>4, <3>1, PutBackOK, Zenon
    <2>5. QED BY <2>3, <2>4, Zenon
  <1>3. QED BY <1>1, <1>2, Zenon

LEMMA DoneOK == ASSUME IInv, NEW d \in Drivers, NEW a \in BOOLEAN, item_done(d, a) PROVE IInv'
  <1>0. PICK id : id = current
    BY Zenon
  <1>1. /\ drv[d] = "driving" /\ slot[d] = id /\ current = id /\ id # NoItem
        /\ drv' = [drv EXCEPT ![d] = "idle"] /\ done' = done \cup {id}
        /\ current' = NoItem /\ slot' = [slot EXCEPT ![d] = NoItem]
        /\ UNCHANGED <<queue, next_id, granted, readied, filled, seq, cur, driven, lost, passedOn>>
    BY <1>0, Zenon DEF item_done, IInv, DriverFits, Histories
  <1>2. (\A e \in Drivers : e = d) /\ drv'[d] = "idle" /\ slot'[d] = NoItem
    BY <1>1, OneDriver, Zenon DEF IInv, SeqTypeOK
  <1>3. OnePlace /\ \A t : Issued(t)' <=> Issued(t)
    BY <1>1, Zenon DEF IInv, Issued
  <1>4. Issued(id) /\ id \notin lost /\ ~In(id, queue) /\ \A t : Issued(t) => t # NoItem
    BY <1>1, <1>3 DEF OnePlace, Issued, NoItem
  <1>5. SeqTypeOK'
    BY <1>1, Zenon DEF IInv, SeqTypeOK, DrvStates, NoItem
  <1>6. DriverFits'
    BY <1>1, <1>2, Zenon DEF DriverFits
  <1>7. OnePlace'
    <2>1. \A t : In(t, queue') => Issued(t)' /\ t \notin done' \cup lost' /\ \A e \in Drivers : slot'[e] # t
      BY <1>1, <1>2, <1>3, <1>4, Zenon DEF OnePlace
    <2>2. (\A t \in done' : Issued(t)' /\ t \notin lost') /\ (\A t \in lost' : Issued(t)')
      BY <1>1, <1>3, <1>4, Zenon DEF OnePlace
    <2>3. \A t : Issued(t)' => In(t, queue') \/ t \in done' \cup lost' \/ \E e \in Drivers : slot'[e] = t
      BY <1>1, <1>2, <1>3, <1>4, Zenon DEF OnePlace
    <2>4. QED BY <1>1, <1>2, <1>3, <2>1, <2>2, <2>3, Zenon DEF OnePlace
  <1>8. PayloadFits' /\ CurFits'
    BY <1>1, Zenon DEF IInv, PayloadFits, CurFits, Issued
  <1>9. GrantFits'
    <2>1. GrantFits
      BY Zenon DEF IInv
    <2>2. QED BY <1>1, <1>2, <2>1, Zenon DEF GrantFits, Waits
  <1>10. OrderFits'
    <2>1. \A y : In(y, queue) => NoItem < y
      BY Zenon DEF IInv, OnePlace, Issued, NoItem
    <2>2. QED BY <1>1, <1>2, <2>1, Zenon DEF IInv, OrderFits
  <1>11. QED BY <1>5, <1>6, <1>7, <1>8, <1>9, <1>10, Zenon DEF IInv
(* The steps of a sequence, one by one.                                    *)
LEMMA SequenceOK ==
  ASSUME IInv, NEW s \in Seqs, SeqStep(s) \/ TryGetResponse(s) \/ CancelSequence(s)
  PROVE  IInv'
  <1>1. CASE start_item(s)
    BY <1>1, StartOK, Zenon
  <1>2. CASE finish_item(s)
    BY <1>2, FinishOK, Zenon
  <1>3. CASE Granted(s)
    <2>1. UNCHANGED Subject /\ seq' = [seq EXCEPT ![s] = "filling"] /\ seq[s] = "queued" /\ cur[s] \in granted
      BY <1>3, Zenon DEF Granted, Subject, DriverSide, Events
    <2>2. QED BY <2>1, SequenceMoves, Zenon DEF SeqStates
  <1>4. CASE Done(s)
    <2>1. UNCHANGED Subject /\ \E w \in {"idle", "ticket", "any"} : seq' = [seq EXCEPT ![s] = w]
      BY <1>4, Zenon DEF Done, Subject, DriverSide, Events
    <2>2. QED BY <2>1, SequenceMoves, Zenon DEF SeqStates
  <1>5. CASE get_response(s)
    <2>1. UNCHANGED Subject /\ (seq' = seq \/ seq' = [seq EXCEPT ![s] = "idle"])
      BY <1>5, Zenon DEF get_response, Subject, DriverSide, Events
    <2>2. QED BY <2>1, Frame, SequenceMoves, Zenon DEF SeqStates
  <1>6. CASE TryGetResponse(s)
    <2>1. UNCHANGED Subject /\ seq' = seq
      BY <1>6, Zenon DEF TryGetResponse, try_get_response, Subject, DriverSide, Events
    <2>2. QED BY <2>1, Frame, Zenon
  <1>7. CASE CancelSequence(s)
    <2>1. UNCHANGED Subject /\ seq' = [seq EXCEPT ![s] = "gone"]
      BY <1>7, Zenon DEF CancelSequence, Subject, DriverSide, Events
    <2>2. QED BY <2>1, SequenceMoves, Zenon DEF SeqStates
  <1>8. QED BY <1>1, <1>2, <1>3, <1>4, <1>5, <1>6, <1>7, Zenon DEF SeqStep

LEMMA StepOK == IInv /\ [Next]_vars => IInv'
  <1> SUFFICES ASSUME IInv, [Next]_vars PROVE IInv'
    BY Zenon
  <1>1. ASSUME NEW s \in Seqs, SeqStep(s) \/ TryGetResponse(s) \/ CancelSequence(s) PROVE IInv'
    BY <1>1, SequenceOK, Zenon
  <1>2. ASSUME NEW d \in Drivers, get_next_item(d) PROVE IInv'
    BY <1>2, GetOK, Zenon
  <1>3. ASSUME NEW d \in Drivers, Arrival(d) PROVE IInv'
    BY <1>3, DequeueOK, Zenon DEF Arrival
  <1>4. ASSUME NEW d \in Drivers, Readied(d) PROVE IInv'
    BY <1>4, ReadiedOK, Zenon
  <1>5. ASSUME NEW d \in Drivers, try_next_item(d) PROVE IInv'
    BY <1>5, TryOK, Zenon
  <1>6. ASSUME NEW d \in Drivers, NEW a \in BOOLEAN, item_done(d, a) PROVE IInv'
    BY <1>6, DoneOK, Zenon
  <1>7. ASSUME NEW d \in Drivers, DropGet(d) PROVE IInv'
    BY <1>7, DropGetOK, Zenon
  <1>8. ASSUME NEW id \in Ids, put_response(id) PROVE IInv'
    <2>1. UNCHANGED Subject /\ seq' = seq
      BY <1>8, Zenon DEF put_response, Subject, Events, Histories
    <2>2. QED BY <2>1, Frame, Zenon
  <1>9. CASE UNCHANGED vars
    <2>1. UNCHANGED Subject /\ seq' = seq
      BY <1>9, Zenon DEF vars, Subject
    <2>2. QED BY <2>1, Frame, Zenon
  <1>10. QED
    BY <1>1, <1>2, <1>3, <1>4, <1>5, <1>6, <1>7, <1>8, <1>9, Zenon DEF Next, DriverStep

(* The invariant holds for any number of sequences, items and drops, and   *)
(* for any order of their steps with the driver's.                         *)
THEOREM Invariance == Spec => []IInv
  <1>1. Init => IInv
    BY InitOK, Zenon
  <1>2. IInv /\ [Next]_vars => IInv'
    BY StepOK, Zenon
  <1>3. QED BY <1>1, <1>2, PTL DEF Spec
-----------------------------------------------------------------------------
LEMMA NoneLost == IInv => NoItemIsLost
  <1> SUFFICES ASSUME IInv, NEW s \in Seqs, seq[s] \in {"queued", "filling", "finishing"}
               PROVE  LET id == cur[s]
                          places == {i \in 1..Len(queue) : queue[i] = id}
                      IN  \/ (\E i \in places : places = {i}) /\ Holders(id) = {} /\ id \notin done \cup lost
                          \/ places = {} /\ (\E d \in Drivers : Holders(id) = {d}) /\ id \notin done \cup lost
                          \/ places = {} /\ Holders(id) = {} /\ id \in done \ lost
                          \/ places = {} /\ Holders(id) = {} /\ id \in lost \ done
    BY Zenon DEF NoItemIsLost
  <1> DEFINE id == cur[s]
             places == {i \in 1..Len(queue) : queue[i] = id}
  <1>0. OnePlace
    BY Zenon DEF IInv
  <1>1. Issued(id)
    BY DEF IInv, SeqTypeOK, CurFits, Issued, NoItem
  <1>2. CASE In(id, queue)
    <2>1. \E i \in places : places = {i}
      <3>1. PICK i \in 1..Len(queue) : queue[i] = id
        BY <1>2, Zenon DEF In
      <3>2. Distinct(queue)
        BY <1>0, Zenon DEF OnePlace
      <3>3. places = {i}
        BY <3>1, <3>2, Zenon DEF Distinct
      <3>4. QED BY <3>3, ZenonT(60)
    <2>2. Holders(id) = {} /\ id \notin done \cup lost
      BY <1>0, <1>2, Zenon DEF OnePlace, Holders
    <2>3. QED BY <2>1, <2>2, ZenonT(60)
  <1>3. CASE ~In(id, queue)
    <2>1. places = {}
      BY <1>3, Zenon DEF In
    <2>2. CASE \E d \in Drivers : slot[d] = id
      <3>1. (\E d \in Drivers : Holders(id) = {d}) /\ id \notin done \cup lost
        BY <1>0, <1>1, <2>2, OneDriver DEF OnePlace, Holders, Issued, NoItem
      <3>2. QED BY <2>1, <3>1, Zenon
    <2>3. CASE ~\E d \in Drivers : slot[d] = id
      <3>1. Holders(id) = {} /\ (id \in done \ lost \/ id \in lost \ done)
        BY <1>0, <1>1, <1>3, <2>3, Zenon DEF OnePlace, Holders
      <3>2. QED BY <2>1, <3>1, Zenon
    <2>4. QED BY <2>2, <2>3, Zenon
  <1>4. QED BY <1>2, <1>3, Zenon

LEMMA FilledWhenReady == IInv => ReadyMeansFilled
  <1> SUFFICES ASSUME IInv, NEW id \in readied,
                      In(id, queue) \/ \E d \in Drivers : slot[d] = id /\ drv[d] = "waiting"
               PROVE  id \in filled
    BY Zenon DEF ReadyMeansFilled, In
  <1>1. OnePlace /\ DriverFits
    BY Zenon DEF IInv
  <1>2. CASE In(id, queue)
    <2>1. id \notin done /\ id # NoItem /\ \A d \in Drivers : slot[d] # id
      BY <1>1, <1>2 DEF OnePlace, Issued, NoItem
    <2>2. id # current
      BY <1>1, <2>1, Zenon DEF DriverFits
    <2>3. QED BY <2>1, <2>2 DEF IInv, PayloadFits
  <1>3. CASE \E d \in Drivers : slot[d] = id /\ drv[d] = "waiting"
    <2>1. id # NoItem /\ id # current
      BY <1>1, <1>3, Zenon DEF DriverFits
    <2>2. id \notin done
      BY <1>1, <1>3, <2>1, Zenon DEF OnePlace
    <2>3. QED BY <2>1, <2>2, Zenon DEF IInv, PayloadFits
  <1>4. QED BY <1>2, <1>3, Zenon

LEMMA OneAtATime == IInv => OneItemAtATime
  <1> SUFFICES ASSUME IInv PROVE OneItemAtATime
    BY Zenon
  <1>1. \A t : In(t, driven) => t \in done \cup {current}
    BY Zenon DEF IInv, PayloadFits
  <1>2. QED BY <1>1, Zenon DEF IInv, DriverFits, OneItemAtATime, In

(* No item is lost or doubled between its sequence and the driver, whoever *)
(* is cancelled and whatever get_next_item is dropped; the driver does not *)
(* meet a ready slot without payload, nor a second item before item_done.  *)
THEOREM ItemsSound == Spec => []ItemsAreSound
  <1>1. IInv => ItemsAreSound
    BY NoneLost, FilledWhenReady, OneAtATime, Zenon DEF ItemsAreSound
  <1>2. QED BY <1>1, Invariance, PTL

(* Items reach the driver in the order of start_item, but for those that   *)
(* try_next_item has put back, and a granted sequence has a driver waiting *)
(* for it until it hands over, unless that driver put the slot back or     *)
(* dropped it.                                                             *)
THEOREM GrantsHold == Spec => []GrantsAreKept
  <1>1. IInv => FifoArbitration
    BY Zenon DEF IInv, OrderFits, Ordered, FifoArbitration
  <1>2. IInv => DriverIsCommitted
    <2> SUFFICES ASSUME IInv, NEW s \in Seqs, seq[s] = "filling"
                 PROVE  \/ \E d \in Drivers : drv[d] = "waiting" /\ slot[d] = cur[s]
                        \/ cur[s] \in passedOn \cup lost
      BY Zenon DEF DriverIsCommitted
    <2>1. cur[s] \in granted /\ cur[s] \notin readied
      BY Zenon DEF IInv, CurFits
    <2>2. ~In(cur[s], driven)
      BY <2>1, Zenon DEF IInv, PayloadFits
    <2>3. GrantFits
      BY Zenon DEF IInv
    <2>4. QED BY <2>1, <2>2, <2>3, Zenon DEF GrantFits, Waits
  <1>3. QED BY <1>1, <1>2, Invariance, PTL DEF GrantsAreKept
-----------------------------------------------------------------------------
(* The analysis bus.                                                       *)
(* A broadcast in progress.                                                *)
Broadcast == [item : Nat, now : Nodes \cup {None}, left : Seq(Nodes)]

(* What the broadcasts work on.                                            *)
BusTypeOK ==
  /\ bound \in [Nodes -> [{"get", "publish"} -> Nodes \cup {None}]]
  /\ subs \in [Nodes -> Seq(Nodes)]
  /\ source \in Seq(Nodes \cup {None})
  /\ heard \in Seq(Seq(Nodes)) /\ Len(heard) = Len(source)
  /\ stack \in Seq(Broadcast)

(* Of the item of a frame, those who have heard it and those who are to    *)
(* hear it are the subscribers of the bus.                                 *)
FrameOK(f, from, ears, buses) ==
  /\ f.item \in 1..Len(from) /\ from[f.item] \in Nodes
  /\ ears[f.item] \o f.left = buses[from[f.item]]

(* An item that no frame is about has been heard by all.                   *)
ItemOK(item, from, ears, buses) ==
  ears[item] = IF from[item] = None THEN <<>> ELSE buses[from[item]]

(* The inductive invariant: connections are made before the first item is  *)
(* written, and the broadcasts in progress are about different items.      *)
BusInv ==
  /\ BusTypeOK
  /\ subs = joined
  /\ phase \in Early => source = <<>> /\ stack = <<>>
  /\ \A k \in 1..Len(stack) : FrameOK(stack[k], source, heard, subs)
  /\ \A j, k \in 1..Len(stack) : stack[j].item = stack[k].item => j = k
  /\ \A item \in 1..Len(source) :
       (\A k \in 1..Len(stack) : stack[k].item # item) => ItemOK(item, source, heard, subs)
-----------------------------------------------------------------------------
LEMMA NoneIsNoNode == None \notin Nodes
  BY BusAssumption

(* A subscriber's turn: from those who are to hear it to those who have.   *)
LEMMA TurnTaken ==
  ASSUME NEW S, NEW h \in Seq(S), NEW l \in Seq(S), l # <<>>
  PROVE  /\ Head(l) \in S /\ Tail(l) \in Seq(S) /\ Append(h, Head(l)) \in Seq(S)
         /\ Append(h, Head(l)) \o Tail(l) = h \o l
  <1>1. /\ Head(l) \in S /\ Tail(l) \in Seq(S) /\ Append(h, Head(l)) \in Seq(S)
    OBVIOUS
  <1>2. Append(h, Head(l)) \o Tail(l) = h \o l
    OBVIOUS
  <1>3. QED BY <1>1, <1>2

LEMMA NothingAdded ==
  ASSUME NEW S, NEW h \in Seq(S)
  PROVE  h \o <<>> = h /\ <<>> \o h = h
  OBVIOUS

LEMMA FrontIs ==
  ASSUME NEW S, NEW s \in Seq(S), s # <<>>
  PROVE  /\ Len(s) \in 1..Len(s) /\ s[Len(s)] \in S /\ Len(s) - 1 \in Nat
         /\ SubSeq(s, 1, Len(s) - 1) \in Seq(S) /\ Len(SubSeq(s, 1, Len(s) - 1)) = Len(s) - 1
         /\ \A k \in 1..(Len(s) - 1) : SubSeq(s, 1, Len(s) - 1)[k] = s[k]
  <1>1. /\ Len(s) \in 1..Len(s) /\ s[Len(s)] \in S /\ Len(s) - 1 \in Nat
    OBVIOUS
  <1>2. PICK n : n = Len(s) - 1 /\ n \in Nat /\ n <= Len(s)
    <2>1. Len(s) - 1 <= Len(s)
      BY <1>1
    <2>2. QED BY <1>1, <2>1, Zenon
  <1>3. /\ SubSeq(s, 1, n) \in Seq(S) /\ Len(SubSeq(s, 1, n)) = n
        /\ \A k \in 1..n : SubSeq(s, 1, n)[k] = s[k]
    BY <1>1, <1>2
  <1>4. QED BY <1>1, <1>2, <1>3, Zenon

LEMMA AppendIs ==
  ASSUME NEW S, NEW s \in Seq(S), NEW e \in S
  PROVE  /\ Append(s, e) \in Seq(S) /\ Len(Append(s, e)) = Len(s) + 1 /\ Len(s) \in Nat
         /\ Append(s, e)[Len(s) + 1] = e
         /\ \A k \in 1..Len(s) : Append(s, e)[k] = s[k]
  OBVIOUS

LEMMA UpdateIs ==
  ASSUME NEW S, NEW s \in Seq(S), NEW i \in 1..Len(s), NEW e \in S
  PROVE  /\ [s EXCEPT ![i] = e] \in Seq(S) /\ Len([s EXCEPT ![i] = e]) = Len(s)
         /\ \A k \in 1..Len(s) : [s EXCEPT ![i] = e][k] = IF k = i THEN e ELSE s[k]
  OBVIOUS

LEMMA BusStarts == ASSUME BusInit PROVE BusInv
  <1>1. BusTypeOK
    BY DEF BusInit, BusTypeOK, Broadcast
  <1>2. /\ source = <<>> /\ stack = <<>> /\ subs = joined
    BY Zenon DEF BusInit
  <1>3. QED BY <1>1, <1>2 DEF BusInv

(* Steps that neither connect subscribers nor deliver.                     *)
LEMMA MovesOnKeeps ==
  ASSUME BusInv, UNCHANGED busVars \/ MovesOn
  PROVE  BusInv'
  <1>1. /\ UNCHANGED <<bound, subs, joined, stack, heard, source>>
        /\ phase' \in Early => phase \in Early
    BY Zenon DEF MovesOn, busVars, traffic
  <1>2. BusTypeOK'
    BY <1>1, Zenon DEF BusInv, BusTypeOK
  <1>3. QED BY <1>1, <1>2, Zenon DEF BusInv

LEMMA AttachKeeps ==
  ASSUME BusInv, NEW n \in Nodes, NEW owner \in Nodes, NEW kind \in {"get", "publish"},
         attach(n, owner, kind)
  PROVE  BusInv'
  <1>1. /\ UNCHANGED <<phase, subs, joined, stack, heard, source>>
        /\ bound' = [bound EXCEPT ![owner][kind] = n]
    BY Zenon DEF attach, traffic
  <1>2. bound' \in [Nodes -> [{"get", "publish"} -> Nodes \cup {None}]]
    BY <1>1 DEF BusInv, BusTypeOK
  <1>3. BusTypeOK'
    BY <1>1, <1>2, Zenon DEF BusInv, BusTypeOK
  <1>4. QED BY <1>1, <1>3, Zenon DEF BusInv

LEMMA JoinKeeps ==
  ASSUME BusInv, NEW n \in Nodes, NEW owner \in Nodes, join(n, owner)
  PROVE  BusInv'
  <1>1. /\ phase = "connect" /\ UNCHANGED <<phase, bound, stack, heard, source>>
        /\ subs' = [subs EXCEPT ![n] = Append(@, owner)]
        /\ joined' = [joined EXCEPT ![n] = Append(@, owner)]
    BY Zenon DEF join, Joined, traffic
  <1>2. subs' \in [Nodes -> Seq(Nodes)]
    BY <1>1 DEF BusInv, BusTypeOK
  <1>3. BusTypeOK'
    BY <1>1, <1>2, Zenon DEF BusInv, BusTypeOK
  <1>4. subs' = joined'
    BY <1>1, Zenon DEF BusInv
  <1>5. source' = <<>> /\ stack' = <<>>
    BY <1>1, Zenon DEF BusInv, Early
  <1>6. QED BY <1>3, <1>4, <1>5 DEF BusInv

(* The new item is to be heard by the subscribers of its bus; without a    *)
(* bus by nobody.                                                          *)
LEMMA BroadcastsKeeps ==
  ASSUME BusInv, NEW n \in Nodes, NEW hub \in Nodes \cup {None}, Broadcasts(n, hub)
  PROVE  BusInv'
  <1>2. PICK len : len = Len(source)
    BY Zenon
  <1>3. PICK f : f = [item |-> len + 1, now |-> None, left |-> subs[hub]]
    BY Zenon
  <1>4. /\ phase = "run" /\ UNCHANGED <<phase, bound, subs, joined>>
        /\ source' = Append(source, hub) /\ heard' = Append(heard, <<>>)
        /\ (hub = None => stack' = stack) /\ (hub # None => stack' = Append(stack, f))
    <2>1. /\ phase = "run" /\ UNCHANGED <<phase, bound, subs, joined>>
          /\ source' = Append(source, hub) /\ heard' = Append(heard, <<>>)
      BY Zenon DEF Broadcasts
    <2>2. stack' = IF hub = None THEN stack
                   ELSE Append(stack, [item |-> len + 1, now |-> None, left |-> subs[hub]])
      BY <1>2, Zenon DEF Broadcasts
    <2>3. QED BY <1>3, <2>1, <2>2, Zenon
  <1>5. hub \in Nodes \cup {None}
    OBVIOUS
  <1>6. /\ source' \in Seq(Nodes \cup {None}) /\ Len(source') = len + 1 /\ len \in Nat /\ source'[len + 1] = hub
        /\ \A i \in 1..len : source'[i] = source[i]
    <2>1. source \in Seq(Nodes \cup {None})
      BY Zenon DEF BusInv, BusTypeOK
    <2>2. QED BY <1>2, <1>4, <1>5, <2>1
  <1>7. /\ heard' \in Seq(Seq(Nodes)) /\ Len(heard') = len + 1 /\ heard'[len + 1] = <<>>
        /\ \A i \in 1..len : heard'[i] = heard[i]
    <2>1. <<>> \in Seq(Nodes) /\ heard \in Seq(Seq(Nodes)) /\ Len(heard) = len
      BY <1>2 DEF BusInv, BusTypeOK
    <2>2. QED BY <1>4, <2>1
  <1>8. /\ \A i \in 1..len : i \in 1..(len + 1) /\ i # len + 1
        /\ len + 1 \in 1..(len + 1) /\ len + 1 \in Nat
        /\ \A i \in 1..(len + 1) : i \in 1..len \/ i = len + 1
    BY <1>6
  <1>9. ASSUME NEW g, FrameOK(g, source, heard, subs)
        PROVE  FrameOK(g, source', heard', subs') /\ g.item # len + 1
    BY <1>2, <1>4, <1>6, <1>7, <1>8, <1>9, Zenon DEF FrameOK
  <1>10. ASSUME NEW i \in 1..len, ItemOK(i, source, heard, subs)
         PROVE  ItemOK(i, source', heard', subs')
    BY <1>4, <1>6, <1>7, <1>10, Zenon DEF ItemOK
  <1>11. CASE hub = None
    <2>1. stack' = stack
      BY <1>4, <1>11, Zenon
    <2>2. BusTypeOK'
      BY <1>4, <1>6, <1>7, <2>1, Zenon DEF BusInv, BusTypeOK
    <2>3. ItemOK(len + 1, source', heard', subs')
      BY <1>6, <1>7, <1>11, Zenon DEF ItemOK
    <2>4. \A k \in 1..Len(stack') : FrameOK(stack'[k], source', heard', subs')
      BY <1>9, <2>1, Zenon DEF BusInv
    <2>5. \A item \in 1..Len(source') :
            (\A k \in 1..Len(stack') : stack'[k].item # item) => ItemOK(item, source', heard', subs')
      BY <1>2, <1>6, <1>8, <1>10, <2>1, <2>3, Zenon DEF BusInv
    <2>6. QED BY <1>4, <2>1, <2>2, <2>4, <2>5, Zenon DEF BusInv, Early
  <1>12. CASE hub # None
    <2>1. hub \in Nodes /\ subs[hub] \in Seq(Nodes)
      BY <1>5, <1>12, Zenon DEF BusInv, BusTypeOK
    <2>2. f \in Broadcast /\ f.item = len + 1 /\ f.left = subs[hub]
      BY <1>3, <1>8, <2>1, Zenon DEF Broadcast
    <2>3. PICK m : m = Len(stack)
      BY Zenon
    <2>4. /\ stack' \in Seq(Broadcast) /\ Len(stack') = m + 1 /\ m \in Nat /\ stack'[m + 1] = f
          /\ \A k \in 1..m : stack'[k] = stack[k]
      <3>1. stack \in Seq(Broadcast) /\ stack' = Append(stack, f)
        BY <1>4, <1>12, Zenon DEF BusInv, BusTypeOK
      <3>2. QED BY <2>2, <2>3, <3>1
    <2>5. BusTypeOK'
      BY <1>4, <1>6, <1>7, <2>4, Zenon DEF BusInv, BusTypeOK
    <2>6. /\ \A k \in 1..(m + 1) : k \in 1..m \/ k = m + 1
          /\ \A k \in 1..m : k \in 1..(m + 1)
          /\ m + 1 \in 1..(m + 1)
      BY <2>4
    <2>7. FrameOK(f, source', heard', subs')
      <3>1. heard'[len + 1] \o subs[hub] = subs[hub]
        BY <1>7, <2>1, NothingAdded, Zenon
      <3>2. QED BY <1>4, <1>6, <1>8, <2>1, <2>2, <3>1, Zenon DEF FrameOK
    <2>8. \A k \in 1..m : FrameOK(stack[k], source', heard', subs') /\ stack[k].item # len + 1
      BY <1>9, <2>3, Zenon DEF BusInv
    <2>9. \A k \in 1..Len(stack') : FrameOK(stack'[k], source', heard', subs')
      BY <2>4, <2>6, <2>7, <2>8, Zenon
    <2>10. \A j, k \in 1..Len(stack') : stack'[j].item = stack'[k].item => j = k
      <3>1. \A j, k \in 1..m : stack[j].item = stack[k].item => j = k
        BY <2>3, Zenon DEF BusInv
      <3>2. ASSUME NEW j \in 1..(m + 1), NEW k \in 1..(m + 1), stack'[j].item = stack'[k].item PROVE j = k
        <4>1. CASE j \in 1..m /\ k \in 1..m
          BY <2>4, <3>1, <3>2, <4>1, Zenon
        <4>2. CASE j = m + 1
          BY <2>2, <2>4, <2>6, <2>8, <3>2, <4>2, Zenon
        <4>3. CASE k = m + 1
          BY <2>2, <2>4, <2>6, <2>8, <3>2, <4>3, Zenon
        <4>4. QED BY <2>6, <4>1, <4>2, <4>3, Zenon
      <3>3. QED BY <2>4, <3>2, Zenon
    <2>11. \A item \in 1..Len(source') :
             (\A k \in 1..Len(stack') : stack'[k].item # item) => ItemOK(item, source', heard', subs')
      <3>1. \A item \in 1..len :
              (\A k \in 1..m : stack[k].item # item) => ItemOK(item, source', heard', subs')
        BY <1>2, <1>10, <2>3, Zenon DEF BusInv
      <3>2. QED BY <1>6, <1>8, <2>2, <2>4, <2>6, <3>1, ZenonT(60)
    <2>12. QED BY <1>4, <2>5, <2>9, <2>10, <2>11, Zenon DEF BusInv, Early
  <1>13. QED BY <1>11, <1>12, Zenon

(* The innermost frame is replaced by one about the same item, and that    *)
(* item may have been heard by one more.                                   *)
LEMMA TopKeeps ==
  ASSUME BusInv, stack # <<>>, UNCHANGED <<phase, bound, subs, joined, source>>,
         NEW g \in Broadcast, g.item = Innermost.item, stack' = TopIs(g),
         NEW h \in Seq(Nodes), h \o g.left = subs[source[g.item]], heard' = [heard EXCEPT ![g.item] = h]
  PROVE  BusInv'
  <1>0. PICK f, m : m = Len(stack) /\ f = stack[m] /\ g.item = f.item /\ stack' = [stack EXCEPT ![m] = g]
    BY Zenon DEF Innermost, TopIs
  <1>1. /\ stack \in Seq(Broadcast) /\ heard \in Seq(Seq(Nodes)) /\ Len(heard) = Len(source) /\ m \in 1..m
        /\ FrameOK(f, source, heard, subs)
    <2>1. stack \in Seq(Broadcast) /\ heard \in Seq(Seq(Nodes)) /\ Len(heard) = Len(source)
      BY Zenon DEF BusInv, BusTypeOK
    <2>2. m \in 1..m
      BY <1>0, <2>1
    <2>3. QED BY <1>0, <2>1, <2>2, Zenon DEF BusInv
  <1>2. PICK i : i = g.item /\ i \in 1..Len(heard) /\ i \in 1..Len(source) /\ source[i] \in Nodes
    BY <1>0, <1>1, ZenonT(60) DEF FrameOK
  <1>3. /\ stack' \in Seq(Broadcast) /\ Len(stack') = m
        /\ \A k \in 1..m : stack'[k] = IF k = m THEN g ELSE stack[k]
    BY <1>0, <1>1, UpdateIs
  <1>4. /\ heard' \in Seq(Seq(Nodes)) /\ Len(heard') = Len(heard)
        /\ \A k \in 1..Len(heard) : heard'[k] = IF k = i THEN h ELSE heard[k]
    BY <1>1, <1>2, UpdateIs
  <1>5. BusTypeOK'
    BY <1>1, <1>3, <1>4, Zenon DEF BusInv, BusTypeOK
  <1>14. /\ \A j, k \in 1..m : stack[j].item = stack[k].item => j = k
         /\ \A item \in 1..Len(source) :
              (\A k \in 1..m : stack[k].item # item) => ItemOK(item, source, heard, subs)
         /\ \A k \in 1..m : FrameOK(stack[k], source, heard, subs)
    BY <1>0, Zenon DEF BusInv
  <1>6. /\ \A k \in 1..m : stack'[k].item = stack[k].item
        /\ \A k \in 1..m : k # m => stack[k].item # i
        /\ stack[m].item = i
    BY <1>0, <1>1, <1>2, <1>3, <1>14, Zenon
  <1>7. FrameOK(g, source', heard', subs')
    BY <1>2, <1>4, Zenon DEF FrameOK
  <1>8. ASSUME NEW k \in 1..m, k # m PROVE FrameOK(stack[k], source', heard', subs')
    <2>1. FrameOK(stack[k], source, heard, subs) /\ stack[k].item # i
      BY <1>6, <1>8, <1>14, Zenon
    <2>2. heard'[stack[k].item] = heard[stack[k].item]
      BY <1>1, <1>4, <2>1, Zenon DEF FrameOK
    <2>3. QED BY <2>1, <2>2, Zenon DEF FrameOK
  <1>9. \A k \in 1..Len(stack') : FrameOK(stack'[k], source', heard', subs')
    <2>1. ASSUME NEW k \in 1..m PROVE FrameOK(stack'[k], source', heard', subs')
      <3>1. CASE k = m
        BY <1>3, <1>7, <3>1, Zenon
      <3>2. CASE k # m
        BY <1>3, <1>8, <3>2, Zenon
      <3>3. QED BY <3>1, <3>2, Zenon
    <2>2. QED BY <1>3, <2>1, Zenon
  <1>10. \A j, k \in 1..Len(stack') : stack'[j].item = stack'[k].item => j = k
    <2>1. ASSUME NEW j \in 1..m, NEW k \in 1..m, stack'[j].item = stack'[k].item PROVE j = k
      BY <1>6, <1>14, <2>1, Zenon
    <2>2. QED BY <1>3, <2>1, Zenon
  <1>11. ASSUME NEW item \in 1..Len(source'), \A k \in 1..Len(stack') : stack'[k].item # item
         PROVE  ItemOK(item, source', heard', subs')
    <2>1. ItemOK(item, source, heard, subs) /\ item # i
      <3>1. item \in 1..Len(source) /\ \A k \in 1..m : stack[k].item # item
        BY <1>3, <1>6, <1>11, Zenon
      <3>2. QED BY <1>1, <1>6, <1>14, <3>1, Zenon
    <2>2. heard'[item] = heard[item]
      BY <1>1, <1>4, <2>1, Zenon
    <2>3. QED BY <2>1, <2>2, Zenon DEF ItemOK
  <1>12. phase' \notin Early
    <2>1. phase \in Early => stack = <<>>
      BY Zenon DEF BusInv
    <2>2. QED BY <2>1, Zenon
  <1>13. QED BY <1>5, <1>9, <1>10, <1>11, <1>12, Zenon DEF BusInv

(* What is known of the innermost frame.                                   *)
LEMMA TopIsFrame ==
  ASSUME BusInv, stack # <<>>
  PROVE  /\ Innermost \in Broadcast /\ Innermost.item \in 1..Len(heard) /\ heard[Innermost.item] \in Seq(Nodes)
         /\ heard[Innermost.item] \o Innermost.left = subs[source[Innermost.item]]
         /\ Innermost.left \in Seq(Nodes)
  <1>1. /\ stack \in Seq(Broadcast) /\ heard \in Seq(Seq(Nodes)) /\ Len(heard) = Len(source)
    BY Zenon DEF BusInv, BusTypeOK
  <1>2. PICK f : f = stack[Len(stack)] /\ f \in Broadcast /\ Len(stack) \in 1..Len(stack)
    BY <1>1, FrontIs, Zenon
  <1>3. FrameOK(f, source, heard, subs)
    BY <1>2, Zenon DEF BusInv
  <1>4. f.item \in 1..Len(heard) /\ f.left \in Seq(Nodes)
    BY <1>1, <1>2, <1>3, Zenon DEF FrameOK, Broadcast
  <1>5. heard[f.item] \in Seq(Nodes)
    BY <1>1, <1>4
  <1>6. QED BY <1>2, <1>3, <1>4, <1>5, Zenon DEF FrameOK, Innermost

LEMMA BroadcastKeeps == ASSUME BusInv, broadcast PROVE BusInv'
  <1>1. /\ phase = "run" /\ stack # <<>> /\ Innermost.left # <<>> /\ UNCHANGED <<bound, subs, joined, source>>
    BY Zenon DEF broadcast
  <1>2. CASE phase' = "dead" /\ UNCHANGED <<stack, heard>>
    <2>1. BusTypeOK'
      BY <1>1, <1>2, Zenon DEF BusInv, BusTypeOK
    <2>2. QED BY <1>1, <1>2, <2>1, Zenon DEF BusInv, Early
  <1>3. CASE /\ stack' = TopIs([Innermost EXCEPT !.now = Head(Innermost.left), !.left = Tail(Innermost.left)])
             /\ heard' = [heard EXCEPT ![Innermost.item] = Append(@, Head(Innermost.left))]
             /\ UNCHANGED phase
    <2>1. PICK f, i, l, e : f = Innermost /\ i = f.item /\ l = f.left /\ e = heard[i]
      BY Zenon
    <2>2. /\ f \in Broadcast /\ l \in Seq(Nodes) /\ l # <<>> /\ e \in Seq(Nodes)
          /\ e \o l = subs[source[i]] /\ i \in 1..Len(heard)
      BY <1>1, <2>1, TopIsFrame, Zenon
    <2>3. PICK who, rest, h : who = Head(l) /\ rest = Tail(l) /\ h = Append(e, who)
      BY Zenon
    <2>4. who \in Nodes /\ rest \in Seq(Nodes) /\ h \in Seq(Nodes) /\ h \o rest = e \o l
      <3>1. l \in Seq(Nodes) /\ l # <<>> /\ e \in Seq(Nodes)
        BY <2>2, Zenon
      <3>2. /\ Head(l) \in Nodes /\ Tail(l) \in Seq(Nodes) /\ Append(e, Head(l)) \in Seq(Nodes)
            /\ Append(e, Head(l)) \o Tail(l) = e \o l
        BY ONLY <3>1, TurnTaken, Zenon
      <3>3. QED BY <2>3, <3>2, Zenon
    <2>5. PICK g : g = [f EXCEPT !.now = who, !.left = rest]
      BY Zenon
    <2>6. g \in Broadcast /\ g.item = i /\ g.left = rest
      BY <2>1, <2>2, <2>4, <2>5, Zenon DEF Broadcast
    <2>7. stack' = TopIs(g)
      BY <1>3, <2>1, <2>3, <2>5, Zenon
    <2>8. heard' = [heard EXCEPT ![g.item] = h]
      BY <1>3, <2>1, <2>3, <2>6, Zenon
    <2>9. h \o g.left = subs[source[g.item]] /\ g.item = Innermost.item
      BY <2>1, <2>2, <2>4, <2>6, Zenon
    <2>10. QED BY <1>1, <1>3, <2>4, <2>6, <2>7, <2>8, <2>9, TopKeeps, Zenon
  <1>4. QED BY <1>2, <1>3, Zenon DEF broadcast

(* A subscriber returns.                                                   *)
LEMMA SinkReturnsKeeps ==
  ASSUME BusInv, stack # <<>>, stack' = TopIs([Innermost EXCEPT !.now = None]),
         UNCHANGED <<phase, bound, subs, joined, heard, source>>
  PROVE  BusInv'
  <1>1. PICK f, h : f = Innermost /\ h = heard[f.item]
    BY Zenon
  <1>2. /\ f \in Broadcast /\ h \in Seq(Nodes) /\ h \o f.left = subs[source[f.item]] /\ f.item \in 1..Len(heard)
    BY <1>1, TopIsFrame, Zenon
  <1>3. PICK g : g = [f EXCEPT !.now = None]
    BY Zenon
  <1>4. g \in Broadcast /\ g.item = f.item /\ g.left = f.left
    BY <1>2, <1>3, Zenon DEF Broadcast
  <1>5. heard' = [heard EXCEPT ![g.item] = h]
    <2>1. heard \in Seq(Seq(Nodes))
      BY Zenon DEF BusInv, BusTypeOK
    <2>2. heard = [heard EXCEPT ![g.item] = heard[g.item]]
      BY <1>2, <1>4, <2>1
    <2>3. QED BY <1>1, <1>4, <2>2, Zenon
  <1>6. stack' = TopIs(g) /\ g.item = Innermost.item /\ h \o g.left = subs[source[g.item]]
    BY <1>1, <1>2, <1>3, <1>4, Zenon
  <1>7. QED BY <1>2, <1>4, <1>5, <1>6, TopKeeps, Zenon

(* The innermost broadcast is over: all have heard its item.               *)
LEMMA BroadcastEnds ==
  ASSUME BusInv, stack # <<>>, Innermost.left = <<>>, stack' = SubSeq(stack, 1, Len(stack) - 1),
         UNCHANGED <<phase, bound, subs, joined, heard, source>>
  PROVE  BusInv'
  <1>1. PICK m, n, f, i : m = Len(stack) /\ n = m - 1 /\ f = stack[m] /\ f = Innermost /\ i = f.item
    BY Zenon DEF Innermost
  <1>2. /\ stack \in Seq(Broadcast) /\ heard \in Seq(Seq(Nodes)) /\ Len(heard) = Len(source)
    BY Zenon DEF BusInv, BusTypeOK
  <1>3. /\ stack' \in Seq(Broadcast) /\ Len(stack') = n /\ m \in 1..m /\ n \in Nat
        /\ \A k \in 1..n : stack'[k] = stack[k]
    BY <1>1, <1>2, FrontIs, Zenon
  <1>4. /\ \A k \in 1..n : k \in 1..m
        /\ \A k \in 1..m : k \in 1..n \/ k = m
    BY <1>1, <1>3
  <1>5. /\ \A j, k \in 1..m : stack[j].item = stack[k].item => j = k
        /\ \A item \in 1..Len(source) :
             (\A k \in 1..m : stack[k].item # item) => ItemOK(item, source, heard, subs)
        /\ \A k \in 1..m : FrameOK(stack[k], source, heard, subs)
    BY <1>1, Zenon DEF BusInv
  <1>6. BusTypeOK'
    BY <1>3, Zenon DEF BusInv, BusTypeOK
  <1>7. ItemOK(i, source, heard, subs)
    <2>1. /\ heard[i] \in Seq(Nodes) /\ heard[i] \o <<>> = subs[source[i]]
      BY <1>1, TopIsFrame, Zenon
    <2>2. heard[i] = subs[source[i]]
      BY <2>1, NothingAdded, Zenon
    <2>3. source[i] \in Nodes
      BY <1>1, <1>3, <1>5, Zenon DEF FrameOK
    <2>4. QED BY <2>2, <2>3, NoneIsNoNode, Zenon DEF ItemOK
  <1>8. \A k \in 1..Len(stack') : FrameOK(stack'[k], source', heard', subs')
    BY <1>3, <1>4, <1>5, Zenon
  <1>9. \A j, k \in 1..Len(stack') : stack'[j].item = stack'[k].item => j = k
    <2>1. ASSUME NEW j \in 1..n, NEW k \in 1..n, stack'[j].item = stack'[k].item PROVE j = k
      <3>1. stack[j].item = stack[k].item
        BY <1>3, <2>1, Zenon
      <3>2. QED BY <1>4, <1>5, <3>1, Zenon
    <2>2. QED BY <1>3, <2>1, Zenon
  <1>10. ASSUME NEW item \in 1..Len(source'), \A k \in 1..Len(stack') : stack'[k].item # item
         PROVE  ItemOK(item, source', heard', subs')
    <2>1. \A k \in 1..n : stack[k].item # item
      BY <1>3, <1>10, Zenon
    <2>2. item = i \/ \A k \in 1..m : stack[k].item # item
      BY <1>1, <1>4, <2>1, Zenon
    <2>3. QED BY <1>5, <1>7, <2>2, Zenon
  <1>11. phase' \notin Early
    <2>1. phase \in Early => stack = <<>>
      BY Zenon DEF BusInv
    <2>2. QED BY <2>1, Zenon
  <1>12. subs' = joined'
    BY Zenon DEF BusInv
  <1>13. QED BY <1>6, <1>8, <1>9, <1>10, <1>11, <1>12, Zenon DEF BusInv

(* Through a port, and by the owner.                                       *)
LEMMA WritesKeep ==
  ASSUME BusInv, NEW n \in Nodes, publish(n) \/ owner_write(n)
  PROVE  BusInv'
  <1>1. bound \in [Nodes -> [{"get", "publish"} -> Nodes \cup {None}]]
    BY Zenon DEF BusInv, BusTypeOK
  <1>2. bound[n]["publish"] \in Nodes \cup {None} /\ n \in Nodes \cup {None}
    BY <1>1
  <1>3. QED BY <1>2, BroadcastsKeeps, Zenon DEF publish, owner_write

LEMMA BusKeeps == ASSUME BusInv, [BusNext]_busVars PROVE BusInv'
  <1>1. CASE UNCHANGED busVars \/ MovesOn
    BY <1>1, MovesOnKeeps, Zenon
  <1>2. ASSUME NEW n \in Nodes,
               \/ publish(n) \/ owner_write(n)
               \/ \E owner \in Nodes :
                    join(n, owner) \/ \E kind \in {"get", "publish"} : attach(n, owner, kind)
        PROVE  BusInv'
    BY <1>2, WritesKeep, JoinKeeps, AttachKeeps, Zenon
  <1>3. CASE broadcast
    BY <1>3, BroadcastKeeps, Zenon
  <1>4. CASE SinkReturns
    BY <1>4, SinkReturnsKeeps, BroadcastEnds, Zenon DEF SinkReturns
  <1>5. QED BY <1>1, <1>2, <1>3, <1>4, Zenon DEF BusNext
-----------------------------------------------------------------------------
(* The broadcasts in progress are about different items, and those who     *)
(* have heard one and those who are to hear it are its subscribers.        *)
THEOREM BusInvariance == BusSpec => []BusInv
  BY BusStarts, BusKeeps, PTL DEF BusSpec

(* An item whose write is over has been heard by every connection to its   *)
(* bus, once and in order, for any wiring, any number of items and any     *)
(* nesting of writes from inside HubInner::broadcast.                      *)
THEOREM ItemsAreHeard == BusSpec => []EveryItemIsHeard
  <1>1. BusInv => EveryItemIsHeard
    BY Zenon DEF BusInv, EveryItemIsHeard, ItemOK
  <1>2. QED BY <1>1, BusInvariance, PTL
=============================================================================
