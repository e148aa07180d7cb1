---------------------------- MODULE BufferProofs ----------------------------
(* Queues between tasks.  A tapped FIFO keeps order, loses no put, shows   *)
(* its taps all the traffic and lets nobody sleep on, with any bound or    *)
(* none, any clients, and subscribers that use it; a channel lets nobody   *)
(* sleep on and says Disconnected truly, for any tasks and any capacity.   *)
EXTENDS Buffers, Integers, Sequences, TLAPS

Joins(c, a, b) == c = a \o b

(* Sequences with the same elements in the same places are equal.          *)
LEMMA SameSeq ==
  ASSUME NEW S, NEW a \in Seq(S), NEW b \in Seq(S), Len(a) = Len(b),
         \A j \in 1..Len(a) : a[j] = b[j]
  PROVE  a = b
  OBVIOUS

(* Appending to the second of two parts.                                   *)
LEMMA AppendCat ==
  ASSUME NEW S, NEW a \in Seq(S), NEW b \in Seq(S), NEW e \in S, NEW c, Joins(c, a, b)
  PROVE  Joins(Append(c, e), a, Append(b, e))
  <1>1. PICK d : c = a \o b /\ d = Append(b, e)
    BY Zenon DEF Joins
  <1>2. c \in Seq(S) /\ Len(c) = Len(a) + Len(b) /\ d \in Seq(S) /\ Len(d) = Len(b) + 1
    BY <1>1
  <1>3. /\ Append(c, e) \in Seq(S) /\ a \o d \in Seq(S)
        /\ Len(Append(c, e)) = Len(a) + Len(b) + 1 /\ Len(a \o d) = Len(a) + Len(b) + 1
    BY <1>2
  <1>4. ASSUME NEW j \in 1..Len(Append(c, e)) PROVE Append(c, e)[j] = (a \o d)[j]
    <2>1. CASE j <= Len(a)
      <3>1. Append(c, e)[j] = c[j] /\ c[j] = a[j] /\ (a \o d)[j] = a[j]
        BY <1>1, <1>2, <1>3, <2>1
      <3>2. QED BY <3>1, Zenon
    <2>2. CASE j > Len(a) /\ j <= Len(a) + Len(b)
      <3>1. j - Len(a) \in 1..Len(b)
        BY <1>2, <1>3, <2>2
      <3>2. Append(c, e)[j] = c[j]
        BY <1>2, <1>3, <2>2
      <3>3. c[j] = b[j - Len(a)]
        BY <1>1, <1>2, <1>3, <2>2
      <3>4. (a \o d)[j] = d[j - Len(a)]
        BY <1>2, <1>3, <2>2
      <3>5. d[j - Len(a)] = b[j - Len(a)]
        BY <1>1, <3>1
      <3>6. QED BY <3>2, <3>3, <3>4, <3>5, Zenon
    <2>3. CASE j = Len(a) + Len(b) + 1
      <3>1. Append(c, e)[j] = e
        <4>1. j = Len(c) + 1
          BY <1>2, <2>3, Zenon
        <4>2. Append(c, e)[Len(c) + 1] = e
          <5>1. c \in Seq(S)
            BY <1>2, Zenon
          <5>2. QED BY <5>1
        <4>3. QED BY <4>1, <4>2, Zenon
      <3>2. (a \o d)[j] = d[Len(b) + 1] /\ d[Len(b) + 1] = e
        BY <1>1, <1>2, <1>3, <2>3
      <3>3. QED BY <3>1, <3>2, Zenon
    <2>4. QED BY <1>2, <1>3, <2>1, <2>2, <2>3
  <1>5. Append(c, e) = a \o d
    BY <1>3, <1>4, SameSeq, Zenon
  <1>6. QED BY <1>1, <1>5, Zenon DEF Joins

(* The head of the second of two parts moves to the end of the first.      *)
LEMMA HeadMoves ==
  ASSUME NEW S, NEW a \in Seq(S), NEW b \in Seq(S), b # <<>>
  PROVE  Append(a, Head(b)) \o Tail(b) = a \o b
  <1>1. PICK c, d : c = Append(a, Head(b)) /\ d = Tail(b)
    BY Zenon
  <1>2. /\ Head(b) \in S /\ c \in Seq(S) /\ Len(c) = Len(a) + 1
        /\ d \in Seq(S) /\ Len(d) = Len(b) - 1
    BY <1>1
  <1>3. /\ c \o d \in Seq(S) /\ a \o b \in Seq(S)
        /\ Len(c \o d) = Len(a) + Len(b) /\ Len(a \o b) = Len(a) + Len(b)
    BY <1>2, SMTT(60)
  <1>4. ASSUME NEW j \in 1..Len(c \o d) PROVE (c \o d)[j] = (a \o b)[j]
    <2>1. CASE j <= Len(a)
      <3>1. (c \o d)[j] = c[j] /\ c[j] = a[j] /\ (a \o b)[j] = a[j]
        BY <1>1, <1>2, <1>3, <2>1
      <3>2. QED BY <3>1, Zenon
    <2>2. CASE j = Len(a) + 1
      <3>1. (c \o d)[j] = c[j] /\ c[j] = Head(b)
        BY <1>1, <1>2, <1>3, <2>2
      <3>2. (a \o b)[j] = b[1] /\ b[1] = Head(b)
        BY <1>3, <2>2
      <3>3. QED BY <3>1, <3>2, Zenon
    <2>3. CASE j > Len(a) + 1
      <3>1. (c \o d)[j] = d[j - (Len(a) + 1)]
        BY <1>2, <1>3, <2>3
      <3>2. d[j - (Len(a) + 1)] = b[j - Len(a)]
        BY <1>1, <1>2, <1>3, <2>3
      <3>3. (a \o b)[j] = b[j - Len(a)]
        BY <1>3, <2>3
      <3>4. QED BY <3>1, <3>2, <3>3, Zenon
    <2>4. QED BY <1>2, <1>3, <2>1, <2>2, <2>3
  <1>5. QED BY <1>1, <1>3, <1>4, SameSeq, Zenon

(* Appending is joining with a sequence of one.                            *)
LEMMA JoinOne ==
  ASSUME NEW S, NEW a \in Seq(S), NEW e \in S
  PROVE  a \o <<e>> = Append(a, e) /\ a \o <<>> = a
  OBVIOUS
-----------------------------------------------------------------------------
(* The inductive invariant needs the types besides what is promised.       *)
FTypeOK ==
  /\ buf \in Seq(Int) /\ accepted \in Seq(Int) /\ taken \in Seq(Int)
  /\ op \in [Users -> F!Op]
  /\ item \in [Users -> Int] /\ offered \in Int
  /\ qReady \in [Users -> BOOLEAN]

FInv ==
  FTypeOK /\ F!NoSleeperMissesOut /\ F!FirstInFirstOut /\ F!NoPutIsLost /\ putSeen = accepted
-----------------------------------------------------------------------------
(* The items of a sequence with one more at the end.                       *)
LEMMA ItemsOfAppend ==
  ASSUME NEW q \in Seq(Int), NEW v \in Int
  PROVE  F!Range(Append(q, v)) = F!Range(q) \cup {v}
  <1>1. /\ DOMAIN q = 1..Len(q) /\ DOMAIN Append(q, v) = 1..(Len(q) + 1)
        /\ \A i \in 1..Len(q) : Append(q, v)[i] = q[i]
        /\ Append(q, v)[Len(q) + 1] = v
    OBVIOUS
  <1>2. PICK r : r = Append(q, v)
    BY Zenon
  <1>3. PICK n \in Nat : n = Len(q)
    OBVIOUS
  <1>4. \A i : i \in 1..(n + 1) <=> i \in 1..n \/ i = n + 1
    BY <1>3
  <1>5. {r[i] : i \in 1..(n + 1)} = {q[i] : i \in 1..n} \cup {v}
    BY <1>1, <1>2, <1>3, <1>4, Zenon
  <1>6. QED BY <1>1, <1>2, <1>3, <1>5, Zenon DEF F!Range

(* What the traffic of a step must be: items are appended to what was      *)
(* accepted and to the buffer, and taken from the front of the buffer.     *)
TrafficOK ==
  /\ buf' \in Seq(Int) /\ accepted' \in Seq(Int) /\ taken' \in Seq(Int)
  /\ F!FirstInFirstOut' /\ F!NoPutIsLost' /\ putSeen' = accepted'

LEMMA Quiet ==
  ASSUME FInv, UNCHANGED <<buf, accepted, taken, finished, putSeen>>
  PROVE  TrafficOK
  BY Zenon DEF FInv, FTypeOK, TrafficOK, F!FirstInFirstOut, F!NoPutIsLost

(* An item goes in at the end of a buffer b, of which t was taken before.  *)
LEMMA GoesIn ==
  ASSUME NEW b \in Seq(Int), NEW t \in Seq(Int), NEW v \in Int, FInv,
         accepted = t \o b,
         buf' = Append(b, v), taken' = t, accepted' = Append(accepted, v),
         putSeen' = Append(putSeen, v), finished' = finished \cup {v}
  PROVE  TrafficOK
  <1>1. buf' \in Seq(Int) /\ taken' \in Seq(Int) /\ accepted' \in Seq(Int)
    BY DEF FInv, FTypeOK
  <1>2. F!FirstInFirstOut'
    <2>1. Joins(accepted, t, b)
      BY Zenon DEF Joins
    <2>2. Joins(Append(accepted, v), t, Append(b, v))
      BY <2>1, AppendCat, Zenon
    <2>3. QED BY <2>2, Zenon DEF Joins, F!FirstInFirstOut
  <1>3. F!NoPutIsLost'
    BY ItemsOfAppend, Zenon DEF FInv, FTypeOK, F!NoPutIsLost
  <1>4. putSeen' = accepted'
    BY Zenon DEF FInv
  <1>5. QED BY <1>1, <1>2, <1>3, <1>4, Zenon DEF TrafficOK

(* The front item goes out.                                                *)
LEMMA GoesOut ==
  ASSUME FInv, buf # <<>>
  PROVE  /\ Tail(buf) \in Seq(Int) /\ Append(taken, Head(buf)) \in Seq(Int) /\ Head(buf) \in Int
         /\ accepted = Append(taken, Head(buf)) \o Tail(buf)
  <1>1. buf \in Seq(Int) /\ taken \in Seq(Int) /\ accepted = taken \o buf
    BY Zenon DEF FInv, FTypeOK, F!FirstInFirstOut
  <1>2. Tail(buf) \in Seq(Int) /\ Head(buf) \in Int
    BY <1>1
  <1>3. Append(taken, Head(buf)) \in Seq(Int)
    BY <1>1, <1>2
  <1>4. accepted = Append(taken, Head(buf)) \o Tail(buf)
    BY <1>1, HeadMoves, Zenon
  <1>5. QED BY <1>2, <1>3, <1>4, Zenon
-----------------------------------------------------------------------------
(* Sleepers.  After an item went in where there was space, or one went out *)
(* of the front, nobody sleeps but those who did and are not concerned.    *)
Resumes(W, asleep) ==
  /\ qReady' = [q \in Users |-> (qReady[q] /\ q \notin asleep) \/ q \in W]
  /\ \A q \in Users : op'[q] = "none" \/ (op'[q] = op[q] /\ q \notin asleep)

LEMMA PutWakes ==
  ASSUME FInv, F!has_space, NEW W, getWaiters \subseteq W, NEW asleep, Resumes(W, asleep)
  PROVE  F!NoSleeperMissesOut'
  <1> SUFFICES ASSUME NEW q \in Users, ~qReady'[q] PROVE op'[q] = "none"
    BY Zenon DEF F!NoSleeperMissesOut
  <1>1. q \notin W /\ (op'[q] = "none" \/ (op'[q] = op[q] /\ ~qReady[q]))
    BY Zenon DEF Resumes
  <1>2. op[q] \in F!Op /\ (~qReady[q] => op[q] \in {"get", "peek", "none"})
    BY Zenon DEF FInv, FTypeOK, F!Op, F!NoSleeperMissesOut
  <1>3. ~qReady[q] /\ op[q] \in {"get", "peek"} => q \in getWaiters
    BY Zenon DEF FInv, F!NoSleeperMissesOut
  <1>4. QED BY <1>1, <1>2, <1>3, Zenon

LEMMA GetWakes ==
  ASSUME FInv, buf # <<>>, NEW W, putWaiters \subseteq W, NEW asleep, Resumes(W, asleep)
  PROVE  F!NoSleeperMissesOut'
  <1> SUFFICES ASSUME NEW q \in Users, ~qReady'[q] PROVE op'[q] = "none"
    BY Zenon DEF F!NoSleeperMissesOut
  <1>1. q \notin W /\ (op'[q] = "none" \/ (op'[q] = op[q] /\ ~qReady[q]))
    BY Zenon DEF Resumes
  <1>2. op[q] \in F!Op /\ (~qReady[q] => op[q] \in {"put", "space", "none"})
    BY Zenon DEF FInv, FTypeOK, F!Op, F!NoSleeperMissesOut
  <1>3. ~qReady[q] /\ op[q] \in {"put", "space"} => q \in putWaiters
    BY Zenon DEF FInv, F!NoSleeperMissesOut
  <1>4. QED BY <1>1, <1>2, <1>3, Zenon

(* A step that leaves the buffer alone, in which clients may park.         *)
LEMMA Parks ==
  ASSUME FInv, buf' = buf, getWaiters \subseteq getWaiters', putWaiters \subseteq putWaiters',
         \A q \in Users :
           \/ op'[q] = "none" \/ qReady'[q]
           \/ op'[q] = op[q] /\ qReady'[q] = qReady[q]
           \/ op'[q] \in {"get", "peek"} /\ buf = <<>> /\ q \in getWaiters'
           \/ op'[q] = "put" /\ ~F!has_space /\ q \in putWaiters'
  PROVE  F!NoSleeperMissesOut'
  BY Zenon DEF FInv, F!NoSleeperMissesOut, F!has_space
-----------------------------------------------------------------------------
(* The parts of the steps in which items move.                             *)

LEMMA WakesType ==
  ASSUME NEW W, NEW asleep, F!WakeFor(W, asleep)
  PROVE  qReady' \in [Users -> BOOLEAN]
  BY Zenon DEF F!WakeFor

(* The space that was seen is still there after the taps: what they took   *)
(* only made more of it.                                                   *)
PutFits(v, asleep, taking) ==
  LET front == IF taking /\ buf # <<>> THEN <<Head(buf)>> ELSE <<>>
  IN  /\ buf' = Append(IF front = <<>> THEN buf ELSE Tail(buf), v)
      /\ accepted' = Append(accepted, v)
      /\ putSeen' = Append(putSeen, v)
      /\ taken' = taken \o front
      /\ getSeen' = IF front = <<>> THEN getSeen ELSE Append(getSeen, Len(taken'))
      /\ finished' = finished \cup {v}
      /\ putWaiters' = IF front = <<>> THEN putWaiters ELSE {}
      /\ F!WakeFor(getWaiters \cup (putWaiters \ putWaiters'), asleep)
      /\ UNCHANGED flushed

LEMMA SpaceStays ==
  ASSUME FInv, F!has_space, NEW v, NEW asleep, NEW taking \in BOOLEAN, NEW ignores \in BOOLEAN,
         F!PutTapped(v, asleep, taking, ignores)
  PROVE  PutFits(v, asleep, taking)
  <1> DEFINE front == IF taking /\ buf # <<>> THEN <<Head(buf)>> ELSE <<>>
             rest == IF front = <<>> THEN buf ELSE Tail(buf)
             fits == Bounded => Len(rest) < Cap
  <1>1. fits
    <2>1. buf \in Seq(Int) /\ (Bounded => Len(buf) < Cap)
      BY Zenon DEF FInv, FTypeOK, F!has_space
    <2>2. rest = buf \/ (buf # <<>> /\ rest = Tail(buf))
      BY Zenon
    <2>3. Bounded => Cap \in Nat
      BY Zenon, CapAssumption
    <2>4. QED BY <2>1, <2>2, <2>3
  <1> HIDE DEF fits
  <1>2. getWaiters' = {} /\ getWaiters \ getWaiters' = getWaiters
    BY <1>1, Zenon DEF F!PutTapped, fits
  <1>3. QED BY <1>1, <1>2, Zenon DEF F!PutTapped, PutFits, fits

LEMMA PutTappedOK ==
  ASSUME FInv, F!has_space, NEW v \in Int, NEW asleep, NEW taking \in BOOLEAN,
         PutFits(v, asleep, taking),
         \A q \in Users : op'[q] = "none" \/ (op'[q] = op[q] /\ q \notin asleep)
  PROVE  TrafficOK /\ F!NoSleeperMissesOut' /\ qReady' \in [Users -> BOOLEAN]
  <1>0. qReady' \in [Users -> BOOLEAN]
    BY WakesType, Zenon DEF PutFits
  <1>1. F!NoSleeperMissesOut'
    <2>1. PICK W : W = getWaiters \cup (putWaiters \ putWaiters')
      BY Zenon
    <2>2. Resumes(W, asleep)
      BY <2>1, Zenon DEF PutFits, F!WakeFor, Resumes
    <2>3. QED BY <2>1, <2>2, PutWakes, Zenon
  <1>2. accepted' = Append(accepted, v) /\ putSeen' = Append(putSeen, v)
        /\ finished' = finished \cup {v}
    BY Zenon DEF PutFits
  <1>3. CASE taking /\ buf # <<>>
    <2>1. buf' = Append(Tail(buf), v) /\ taken' = taken \o <<Head(buf)>>
      BY <1>3, Zenon DEF PutFits
    <2>2. taken' = Append(taken, Head(buf))
      BY <1>3, <2>1, GoesOut, JoinOne, ZenonT(60) DEF FInv, FTypeOK
    <2>3. QED BY <1>0, <1>1, <1>2, <1>3, <2>1, <2>2, GoesOut, GoesIn, Zenon
  <1>4. CASE ~(taking /\ buf # <<>>)
    <2>1. buf' = Append(buf, v) /\ taken' = taken \o <<>>
      BY <1>4, Zenon DEF PutFits
    <2>2. /\ taken' = taken /\ accepted = taken \o buf
          /\ buf \in Seq(Int) /\ taken \in Seq(Int)
      BY <2>1, JoinOne, Zenon DEF FInv, FTypeOK, F!FirstInFirstOut
    <2>3. QED BY <1>0, <1>1, <1>2, <2>1, <2>2, GoesIn, Zenon
  <1>5. QED BY <1>3, <1>4, Zenon

LEMMA GetTappedOK ==
  ASSUME FInv, buf # <<>>, NEW asleep, NEW putting \in BOOLEAN, F!GetTapped(asleep, putting),
         \A q \in Users : op'[q] = "none" \/ (op'[q] = op[q] /\ q \notin asleep)
  PROVE  /\ TrafficOK /\ F!NoSleeperMissesOut'
         /\ qReady' \in [Users -> BOOLEAN] /\ offered' \in Int
  <1>0. qReady' \in [Users -> BOOLEAN]
    BY WakesType, Zenon DEF F!GetTapped
  <1>1. F!NoSleeperMissesOut'
    <2>1. PICK W : W = putWaiters \cup (getWaiters \ getWaiters')
      BY Zenon
    <2>2. Resumes(W, asleep)
      BY <2>1, Zenon DEF F!GetTapped, F!WakeFor, Resumes
    <2>3. QED BY <2>1, <2>2, GetWakes, Zenon
  <1>2. taken' = Append(taken, Head(buf))
    BY Zenon DEF F!GetTapped
  <1>3. PICK b, t : b = Tail(buf) /\ t = Append(taken, Head(buf))
    BY Zenon
  <1>4. b \in Seq(Int) /\ t \in Seq(Int) /\ accepted = t \o b /\ taken' = t
    BY <1>2, <1>3, GoesOut, Zenon
  <1>5. CASE putting
    <2>1. PICK v : v = offered'
      BY Zenon
    <2>2. v \in Int
      BY <1>5, <2>1 DEF F!GetTapped, F!Offer, FInv, FTypeOK
    <2>3. /\ buf' = b \o <<v>> /\ accepted' = accepted \o <<v>> /\ putSeen' = putSeen \o <<v>>
          /\ finished' = finished \cup F!Range(<<v>>)
      BY <1>3, <1>5, <2>1, Zenon DEF F!GetTapped
    <2>4. F!Range(<<v>>) = {v}
      BY DEF F!Range
    <2>5. /\ buf' = Append(b, v) /\ accepted' = Append(accepted, v)
          /\ putSeen' = Append(putSeen, v) /\ finished' = finished \cup {v}
      <3>1. accepted \in Seq(Int) /\ putSeen \in Seq(Int)
        BY Zenon DEF FInv, FTypeOK
      <3>2. \A q \in Seq(Int) : q \o <<v>> = Append(q, v)
        BY <2>2, JoinOne, Zenon
      <3>3. QED BY <1>4, <2>3, <2>4, <3>1, <3>2, Zenon
    <2>6. TrafficOK
      BY <1>4, <2>2, <2>5, GoesIn, Zenon
    <2>7. QED BY <1>0, <1>1, <2>1, <2>2, <2>6, Zenon
  <1>6. CASE ~putting
    <2>1. /\ buf' = b \o <<>> /\ accepted' = accepted \o <<>> /\ putSeen' = putSeen \o <<>>
          /\ finished' = finished \cup F!Range(<<>>) /\ offered' = offered
      BY <1>3, <1>6, Zenon DEF F!GetTapped
    <2>2. F!Range(<<>>) = {}
      BY DEF F!Range
    <2>3. /\ buf' = b /\ accepted' = accepted /\ putSeen' = putSeen /\ finished' = finished
      BY <1>4, <2>1, <2>2, JoinOne, Zenon DEF FInv, FTypeOK
    <2>4. TrafficOK
      BY <1>4, <2>3, Zenon DEF TrafficOK, FInv, FTypeOK, F!FirstInFirstOut, F!NoPutIsLost
    <2>5. QED BY <1>0, <1>1, <2>1, <2>4, Zenon DEF FInv, FTypeOK
  <1>7. QED BY <1>5, <1>6, Zenon
-----------------------------------------------------------------------------
(* Each step preserves the invariant.                                      *)
LEMMA Together ==
  ASSUME TrafficOK, F!NoSleeperMissesOut', op' \in [Users -> F!Op],
         item' \in [Users -> Int], offered' \in Int, qReady' \in [Users -> BOOLEAN]
  PROVE  FInv'
  BY Zenon DEF TrafficOK, FInv, FTypeOK

LEMMA Types ==
  ASSUME FInv
  PROVE  /\ op \in [Users -> F!Op] /\ item \in [Users -> Int] /\ offered \in Int
         /\ qReady \in [Users -> BOOLEAN]
         /\ \A p \in Users : /\ [op EXCEPT ![p] = "none"] \in [Users -> F!Op]
                               /\ [item EXCEPT ![p] = F!NoItem] \in [Users -> Int]
  BY DEF FInv, FTypeOK, F!Op, F!NoItem

LEMMA tryPutOK == ASSUME FInv, NEW p \in Users, F!try_put_tapped(p) PROVE FInv'
  <1>1. op' = op /\ item' = item /\ offered' = offered + 1 /\ offered' \in Int
    BY Types DEF F!try_put_tapped, F!Offer
  <1>2. CASE F!has_space
    <2>1. PICK v, A : v = offered' /\ A = {}
      BY Zenon
    <2>2. PICK taking \in BOOLEAN : PutFits(v, A, taking)
      BY <1>2, <2>1, SpaceStays, Zenon DEF F!try_put_tapped
    <2>3. TrafficOK /\ F!NoSleeperMissesOut' /\ qReady' \in [Users -> BOOLEAN]
      <3>1. v \in Int /\ \A q \in Users : op'[q] = op[q] /\ q \notin A
        BY <1>1, <2>1, Zenon
      <3>2. QED BY <1>2, <2>2, <3>1, PutTappedOK, Zenon
    <2>4. QED BY <1>1, <2>3, Types, Together, Zenon
  <1>3. CASE ~F!has_space
    <2>1. UNCHANGED <<buf, getWaiters, putWaiters, qReady, accepted, taken, finished, putSeen>>
      BY <1>3, Zenon DEF F!try_put_tapped, F!Histories
    <2>2. TrafficOK
      BY <2>1, Quiet, Zenon
    <2>3. F!NoSleeperMissesOut'
      BY <1>1, <2>1, Parks, Zenon
    <2>4. QED BY <1>1, <2>1, <2>2, <2>3, Types, Together, Zenon
  <1>4. QED BY <1>2, <1>3, Zenon

LEMMA tryGetOK == ASSUME FInv, NEW p \in Users, F!try_get_tapped(p) PROVE FInv'
  <1>1. op' = op /\ item' = item /\ buf # <<>>
    BY Zenon DEF F!try_get_tapped
  <1>2. PICK A : A = {} /\ \E putting \in BOOLEAN : F!GetTapped(A, putting)
    BY Zenon DEF F!try_get_tapped
  <1>3. /\ TrafficOK /\ F!NoSleeperMissesOut'
        /\ qReady' \in [Users -> BOOLEAN] /\ offered' \in Int
    <2>1. \A q \in Users : op'[q] = op[q] /\ q \notin A
      BY <1>1, <1>2, Zenon
    <2>2. QED BY <1>1, <1>2, <2>1, GetTappedOK, Zenon
  <1>4. QED BY <1>1, <1>3, Types, Together, Zenon

LEMMA putOK == ASSUME FInv, NEW p \in Users, F!put_tapped(p) PROVE FInv'
  <1>1. offered' = offered /\ op[p] = "put"
    BY Zenon DEF F!put_tapped
  <1>2. CASE F!has_space
    <2>1. PICK taking \in BOOLEAN : PutFits(item[p], {p}, taking)
      BY <1>2, SpaceStays, Zenon DEF F!put_tapped
    <2>2. op' = [op EXCEPT ![p] = "none"] /\ item' = [item EXCEPT ![p] = F!NoItem]
      BY <1>2, Zenon DEF F!put_tapped
    <2>3. item[p] \in Int /\ \A q \in Users : op'[q] = "none" \/ (op'[q] = op[q] /\ q \notin {p})
      BY <2>2, Types, Zenon
    <2>4. TrafficOK /\ F!NoSleeperMissesOut' /\ qReady' \in [Users -> BOOLEAN]
      BY <1>2, <2>1, <2>3, PutTappedOK, Zenon
    <2>5. QED BY <1>1, <2>2, <2>4, Types, Together, Zenon
  <1>3. CASE ~F!has_space
    <2>1. F!ParkPutter(p) /\ UNCHANGED F!Histories
      BY <1>3, Zenon DEF F!put_tapped
    <2>2. TrafficOK
      BY <2>1, Quiet, Zenon DEF F!ParkPutter, F!Histories
    <2>3. F!NoSleeperMissesOut'
      <3>1. /\ buf' = buf /\ op' = op /\ getWaiters' = getWaiters
            /\ putWaiters' = putWaiters \cup {p}
            /\ \A q \in Users : q = p \/ qReady'[q] = qReady[q]
        BY <2>1, Types, Zenon DEF F!ParkPutter
      <3>2. QED BY <1>1, <1>3, <3>1, Parks, Zenon
    <2>4. op' = op /\ item' = item /\ qReady' \in [Users -> BOOLEAN]
      BY <2>1, Types, Zenon DEF F!ParkPutter
    <2>5. QED BY <1>1, <2>2, <2>3, <2>4, Types, Together, Zenon
  <1>4. QED BY <1>2, <1>3, Zenon

(* A client goes to sleep on an empty buffer.                              *)
LEMMA ParkGetterOK ==
  ASSUME FInv, NEW p \in Users, op[p] \in {"get", "peek"}, buf = <<>>, F!ParkGetter(p),
         UNCHANGED <<offered, finished, putSeen>>
  PROVE  FInv'
  <1>1. TrafficOK
    BY Quiet, Zenon DEF F!ParkGetter
  <1>2. F!NoSleeperMissesOut'
    <2>1. /\ buf' = buf /\ op' = op /\ putWaiters' = putWaiters
          /\ getWaiters' = getWaiters \cup {p}
          /\ \A q \in Users : q = p \/ qReady'[q] = qReady[q]
      BY Types, Zenon DEF F!ParkGetter
    <2>2. QED BY <2>1, Parks, Zenon
  <1>3. op' = op /\ item' = item /\ qReady' \in [Users -> BOOLEAN]
    BY Types, Zenon DEF F!ParkGetter
  <1>4. QED BY <1>1, <1>2, <1>3, Types, Together, Zenon

LEMMA getOK == ASSUME FInv, NEW p \in Users, F!get_tapped(p) PROVE FInv'
  <1>1. CASE buf # <<>>
    <2>1. PICK putting \in BOOLEAN : F!GetTapped({p}, putting)
      BY <1>1, Zenon DEF F!get_tapped
    <2>2. op' = [op EXCEPT ![p] = "none"] /\ item' = item
      BY <1>1, Zenon DEF F!get_tapped
    <2>3. \A q \in Users : op'[q] = "none" \/ (op'[q] = op[q] /\ q \notin {p})
      BY <2>2, Types, Zenon
    <2>4. /\ TrafficOK /\ F!NoSleeperMissesOut'
          /\ qReady' \in [Users -> BOOLEAN] /\ offered' \in Int
      BY <1>1, <2>1, <2>3, GetTappedOK, Zenon
    <2>5. QED BY <2>2, <2>4, Types, Together, Zenon
  <1>2. CASE buf = <<>>
    BY <1>2, ParkGetterOK, Zenon DEF F!get_tapped
  <1>3. QED BY <1>1, <1>2, Zenon

LEMMA peekOK == ASSUME FInv, NEW p \in Users, F!peek(p) PROVE FInv'
  <1>1. CASE buf # <<>>
    <2>1. /\ op' = [op EXCEPT ![p] = "none"] /\ qReady' = [qReady EXCEPT ![p] = FALSE]
          /\ item' = item /\ offered' = offered
          /\ UNCHANGED <<buf, getWaiters, putWaiters, accepted, taken, finished, putSeen>>
      BY <1>1, Zenon DEF F!peek, F!PollPeek, F!Histories
    <2>2. TrafficOK
      BY <2>1, Quiet, Zenon
    <2>3. \A q \in Users : op'[q] = "none" \/ (op'[q] = op[q] /\ qReady'[q] = qReady[q])
      BY <2>1, Types, Zenon
    <2>4. F!NoSleeperMissesOut'
      BY <2>1, <2>3, Parks, Zenon
    <2>5. qReady' \in [Users -> BOOLEAN]
      BY <2>1, Types, Zenon
    <2>6. QED BY <2>1, <2>2, <2>4, <2>5, Types, Together, Zenon
  <1>2. CASE buf = <<>>
    BY <1>2, ParkGetterOK, Zenon DEF F!peek, F!PollPeek, F!Histories
  <1>3. QED BY <1>1, <1>2, Zenon

LEMMA dropOK == ASSUME FInv, NEW p \in Users, F!drop(p) PROVE FInv'
  <1>1. /\ op' = [op EXCEPT ![p] = "none"] /\ qReady' = [qReady EXCEPT ![p] = FALSE]
        /\ item' = [item EXCEPT ![p] = F!NoItem] /\ offered' = offered
        /\ UNCHANGED <<buf, getWaiters, putWaiters, accepted, taken, finished, putSeen>>
    BY Zenon DEF F!drop, F!Drop, F!Histories
  <1>2. TrafficOK
    BY <1>1, Quiet, Zenon
  <1>3. \A q \in Users : op'[q] = "none" \/ (op'[q] = op[q] /\ qReady'[q] = qReady[q])
    BY <1>1, Types, Zenon
  <1>4. F!NoSleeperMissesOut'
    BY <1>1, <1>3, Parks, Zenon
  <1>5. qReady' \in [Users -> BOOLEAN]
    BY <1>1, Types, Zenon
  <1>6. QED BY <1>1, <1>2, <1>4, <1>5, Types, Together, Zenon

LEMMA startOK ==
  ASSUME FInv, NEW p \in Users, NEW o \in {"put", "get", "peek"}, F!start(p, o) PROVE FInv'
  <1>1. /\ op' = [op EXCEPT ![p] = o] /\ qReady' = [qReady EXCEPT ![p] = TRUE]
        /\ UNCHANGED <<buf, getWaiters, putWaiters, accepted, taken, finished, putSeen>>
    BY Zenon DEF F!start, F!Begin, F!Histories
  <1>2. TrafficOK
    BY <1>1, Quiet, Zenon
  <1>3. \A q \in Users : qReady'[q] \/ (op'[q] = op[q] /\ qReady'[q] = qReady[q])
    BY <1>1, Types, Zenon
  <1>4. F!NoSleeperMissesOut'
    BY <1>1, <1>3, Parks, Zenon
  <1>5. qReady' \in [Users -> BOOLEAN]
    BY <1>1, Types, Zenon
  <1>6. item' \in [Users -> Int] /\ offered' \in Int
    <2>1. CASE o = "put"
      <3>1. offered' = offered + 1 /\ item' = [item EXCEPT ![p] = offered']
        BY <2>1, Zenon DEF F!start, F!Begin, F!Offer
      <3>2. offered' \in Int
        BY <3>1, Types
      <3>3. QED BY <3>1, <3>2, Types, Zenon
    <2>2. CASE o # "put"
      BY <2>2, Types, Zenon DEF F!start, F!Begin
    <2>3. QED BY <2>1, <2>2, Zenon
  <1>7. op' \in [Users -> F!Op]
    BY <1>1, Types, Zenon DEF F!Op
  <1>8. QED BY <1>2, <1>4, <1>5, <1>6, <1>7, Together, Zenon

LEMMA flushOK == ASSUME FInv, NEW p \in Users, F!flush(p) PROVE FInv'
  <1>1. /\ buf # <<>> /\ buf' = <<>> /\ taken' = taken \o buf /\ F!WakeFor(putWaiters, {})
        /\ UNCHANGED <<op, item, offered, accepted, putSeen, finished>>
    BY Zenon DEF F!flush
  <1>2. qReady' \in [Users -> BOOLEAN]
    BY <1>1, WakesType, Zenon
  <1>3. TrafficOK
    <2>1. buf \in Seq(Int) /\ taken \in Seq(Int) /\ accepted \in Seq(Int) /\ accepted = taken \o buf
      BY Zenon DEF FInv, FTypeOK, F!FirstInFirstOut
    <2>2. taken' = accepted /\ taken' \o buf' = taken'
      BY <1>1, <2>1
    <2>3. buf' \in Seq(Int) /\ taken' \in Seq(Int) /\ accepted' \in Seq(Int)
      BY <1>1, <2>1, <2>2
    <2>4. F!FirstInFirstOut' /\ F!NoPutIsLost' /\ putSeen' = accepted'
      BY <1>1, <2>2, Zenon DEF FInv, F!FirstInFirstOut, F!NoPutIsLost
    <2>5. QED BY <2>3, <2>4, Zenon DEF TrafficOK
  <1>4. F!NoSleeperMissesOut'
    <2>1. PICK W, A : W = putWaiters /\ A = {}
      BY Zenon
    <2>2. Resumes(W, A)
      BY <1>1, <2>1, Zenon DEF Resumes, F!WakeFor
    <2>3. QED BY <1>1, <2>1, <2>2, GetWakes, Zenon
  <1>5. QED BY <1>1, <1>2, <1>3, <1>4, Types, Together, Zenon

LEMMA FNextOK == ASSUME FInv, [F!FNext]_(F!fvars) PROVE FInv'
  <1>1. CASE UNCHANGED F!fvars
    BY <1>1, Zenon DEF F!fvars, FInv, FTypeOK, F!NoSleeperMissesOut, F!FirstInFirstOut, F!NoPutIsLost, F!has_space
  <1>2. CASE F!FNext
    BY <1>2, tryPutOK, tryGetOK, putOK, getOK, peekOK, dropOK, flushOK, startOK, Zenon DEF F!FNext, F!FPoll
  <1>3. QED BY <1>1, <1>2, Zenon

LEMMA FInitOK == ASSUME F!FInit PROVE FInv
  <1>1. FTypeOK
    <2>1. qReady \in [Users -> BOOLEAN]
      BY Zenon DEF F!FInit, F!QInit
    <2>2. QED BY <2>1 DEF F!FInit, F!QInit, FTypeOK, F!Op, F!NoItem
  <1>2. F!NoSleeperMissesOut
    BY Zenon DEF F!FInit, F!QInit, F!NoSleeperMissesOut
  <1>3. F!FirstInFirstOut /\ putSeen = accepted
    BY DEF F!FInit, F!QInit, F!FirstInFirstOut
  <1>4. F!NoPutIsLost
    BY DEF F!FInit, F!QInit, F!NoPutIsLost, F!Range
  <1>5. QED BY <1>1, <1>2, <1>3, <1>4, Zenon DEF FInv

(* The invariant holds in every state of a tapped FIFO.                    *)
THEOREM FifoInvariance == F!FSpec => []FInv
  BY FInitOK, FNextOK, PTL DEF F!FSpec
-----------------------------------------------------------------------------
(* What the get taps saw is every place in taken that flush did not fill,  *)
(* in ascending order.                                                     *)
SeenOK ==
  /\ getSeen \in Seq(Int)
  /\ \A k : (\E i \in 1..Len(getSeen) : getSeen[i] = k) <=> k \in 1..Len(taken) /\ k \notin flushed
  /\ \A k \in flushed : k \in 1..Len(taken)
  /\ \A i, j \in 1..Len(getSeen) : i < j => getSeen[i] < getSeen[j]

LEMMA OneIsSeen ==
  ASSUME FInv, SeenOK, NEW v \in Int, taken' = Append(taken, v),
         getSeen' = Append(getSeen, Len(taken')), flushed' = flushed
  PROVE  SeenOK'
  <1>1. PICK n \in Nat, m \in Nat : n = Len(taken) /\ m = Len(getSeen)
    BY DEF FInv, FTypeOK, SeenOK
  <1>2. Len(taken') = n + 1
    BY <1>1 DEF FInv, FTypeOK
  <1>3. /\ getSeen' \in Seq(Int) /\ Len(getSeen') = m + 1 /\ getSeen'[m + 1] = n + 1
        /\ \A i \in 1..m : getSeen'[i] = getSeen[i]
    BY <1>1, <1>2 DEF SeenOK
  <1>4. \A i : i \in 1..(m + 1) <=> i \in 1..m \/ i = m + 1
    OBVIOUS
  <1>5. \A k : k \in 1..(n + 1) <=> k \in 1..n \/ k = n + 1
    OBVIOUS
  <1>6. /\ \A k : (\E i \in 1..m : getSeen[i] = k) <=> k \in 1..n /\ k \notin flushed
        /\ \A k \in flushed : k \in 1..n
    BY <1>1, Zenon DEF SeenOK
  <1>7. n + 1 \notin 1..n
    OBVIOUS
  <1>8. ASSUME NEW k PROVE (\E i \in 1..(m + 1) : getSeen'[i] = k) <=> k \in 1..(n + 1) /\ k \notin flushed
    <2>1. (\E i \in 1..(m + 1) : getSeen'[i] = k) <=> (\E i \in 1..m : getSeen[i] = k) \/ k = n + 1
      BY <1>3, <1>4, Zenon
    <2>2. QED BY <1>5, <1>6, <1>7, <2>1, Zenon
  <1>9. \A k \in flushed : k \in 1..(n + 1)
    BY <1>5, <1>6, Zenon
  <1>10. ASSUME NEW i \in 1..(m + 1), NEW j \in 1..(m + 1), i < j PROVE getSeen'[i] < getSeen'[j]
    <2>1. i \in 1..m /\ getSeen[i] \in 1..n /\ getSeen'[i] = getSeen[i]
      BY <1>3, <1>6, <1>10
    <2>2. CASE j = m + 1
      BY <1>3, <2>1, <2>2
    <2>3. CASE j # m + 1
      <3>1. j \in 1..m
        BY <2>3
      <3>2. getSeen[i] < getSeen[j]
        BY <1>1, <1>10, <2>1, <3>1, Zenon DEF SeenOK
      <3>3. QED BY <1>3, <2>1, <3>1, <3>2, Zenon
    <2>4. QED BY <2>2, <2>3, Zenon
  <1>11. QED BY <1>2, <1>3, <1>8, <1>9, <1>10, Zenon DEF SeenOK

LEMMA FlushIsNotSeen ==
  ASSUME FInv, SeenOK, taken' = taken \o buf, getSeen' = getSeen,
         flushed' = flushed \cup (Len(taken) + 1)..Len(taken')
  PROVE  SeenOK'
  <1>1. PICK n \in Nat, m \in Nat : n = Len(taken) /\ m = Len(buf)
    BY DEF FInv, FTypeOK
  <1>2. Len(taken') = n + m
    BY <1>1 DEF FInv, FTypeOK
  <1>3. \A k : k \in 1..(n + m) <=> k \in 1..n \/ k \in (n + 1)..(n + m)
    OBVIOUS
  <1>4. \A k \in 1..n : k \notin (n + 1)..(n + m)
    OBVIOUS
  <1>5. /\ \A k : (\E i \in 1..Len(getSeen) : getSeen[i] = k) <=> k \in 1..n /\ k \notin flushed
        /\ \A k \in flushed : k \in 1..n
    BY <1>1, Zenon DEF SeenOK
  <1>6. flushed' = flushed \cup (n + 1)..(n + m)
    BY <1>1, <1>2, Zenon
  <1>7. \A k : (\E i \in 1..Len(getSeen) : getSeen[i] = k) <=> k \in 1..(n + m) /\ k \notin flushed'
    BY <1>3, <1>4, <1>5, <1>6, Zenon
  <1>8. \A k \in flushed' : k \in 1..(n + m)
    BY <1>3, <1>5, <1>6, Zenon
  <1>9. QED BY <1>2, <1>7, <1>8, Zenon DEF SeenOK

LEMMA PutSeen ==
  ASSUME FInv, SeenOK, NEW v, NEW asleep, NEW taking \in BOOLEAN, PutFits(v, asleep, taking)
  PROVE  SeenOK'
  <1>1. CASE taking /\ buf # <<>>
    <2>1. /\ taken' = taken \o <<Head(buf)>> /\ getSeen' = Append(getSeen, Len(taken'))
          /\ flushed' = flushed
      BY <1>1, Zenon DEF PutFits
    <2>2. Head(buf) \in Int /\ taken' = Append(taken, Head(buf))
      BY <1>1, <2>1, GoesOut, JoinOne, Zenon DEF FInv, FTypeOK
    <2>3. QED BY <2>1, <2>2, OneIsSeen, Zenon
  <1>2. CASE ~(taking /\ buf # <<>>)
    <2>1. taken' = taken \o <<>> /\ getSeen' = getSeen /\ flushed' = flushed
      BY <1>2, Zenon DEF PutFits
    <2>2. taken' = taken
      BY <2>1, JoinOne, Zenon DEF FInv, FTypeOK
    <2>3. QED BY <2>1, <2>2, Zenon DEF SeenOK
  <1>3. QED BY <1>1, <1>2, Zenon

LEMMA GetSeen ==
  ASSUME FInv, SeenOK, buf # <<>>, NEW asleep, NEW putting \in BOOLEAN, F!GetTapped(asleep, putting)
  PROVE  SeenOK'
  <1>1. /\ taken' = Append(taken, Head(buf)) /\ getSeen' = Append(getSeen, Len(taken'))
        /\ flushed' = flushed
    BY Zenon DEF F!GetTapped
  <1>2. QED BY <1>1, GoesOut, OneIsSeen, Zenon

LEMMA StepSeen == ASSUME FInv, SeenOK, [F!FNext]_(F!fvars) PROVE SeenOK'
  <1>1. CASE UNCHANGED <<taken, getSeen, flushed>>
    BY <1>1, Zenon DEF SeenOK
  <1>2. ASSUME NEW p \in Users, F!try_put_tapped(p) \/ F!put_tapped(p) PROVE SeenOK'
    <2>1. CASE F!has_space
      BY <1>2, <2>1, PutSeen, SpaceStays, Zenon DEF F!try_put_tapped, F!put_tapped
    <2>2. CASE ~F!has_space
      BY <1>1, <1>2, <2>2, Zenon DEF F!try_put_tapped, F!put_tapped, F!ParkPutter, F!Histories
    <2>3. QED BY <2>1, <2>2, Zenon
  <1>3. ASSUME NEW p \in Users, F!try_get_tapped(p) \/ F!get_tapped(p) PROVE SeenOK'
    BY <1>1, <1>3, GetSeen, Zenon DEF F!try_get_tapped, F!get_tapped, F!ParkGetter
  <1>4. ASSUME NEW p \in Users, F!peek(p) \/ F!drop(p) PROVE SeenOK'
    BY <1>1, <1>4, Zenon DEF F!peek, F!PollPeek, F!ParkGetter, F!drop, F!Drop, F!Histories
  <1>5. ASSUME NEW p \in Users, NEW o, F!start(p, o) PROVE SeenOK'
    BY <1>1, <1>5, Zenon DEF F!start, F!Begin, F!Histories
  <1>6. ASSUME NEW p \in Users, F!flush(p) PROVE SeenOK'
    BY <1>6, FlushIsNotSeen, Zenon DEF F!flush
  <1>7. CASE UNCHANGED F!fvars
    BY <1>1, <1>7, Zenon DEF F!fvars
  <1>8. QED BY <1>2, <1>3, <1>4, <1>5, <1>6, <1>7, Zenon DEF F!FNext, F!FPoll

(* With any bound, any clients and subscribers that take and put items     *)
(* from inside the taps: items leave in the order in which they entered,   *)
(* every put that returned put its item, the put taps see the items in     *)
(* order, and the get taps all that left, in order, but what was flushed.  *)
THEOREM FifoKeepsOrder == F!FSpec => []ItemsKeepOrder
  <1>1. F!FInit => SeenOK
    BY DEF F!FInit, F!QInit, SeenOK
  <1>2. FInv /\ SeenOK /\ [F!FNext]_(F!fvars) => SeenOK'
    BY StepSeen, Zenon
  <1>3. FInv /\ SeenOK => ItemsKeepOrder
    <2> SUFFICES ASSUME FInv, SeenOK PROVE ItemsKeepOrder
      BY Zenon
    <2>1. DOMAIN getSeen = 1..Len(getSeen) /\ DOMAIN taken = 1..Len(taken)
      BY DEF FInv, FTypeOK, SeenOK
    <2>2. F!Range(getSeen) = (DOMAIN taken) \ flushed
      BY <2>1, Zenon DEF SeenOK, F!Range
    <2>3. QED BY <2>1, <2>2, Zenon DEF FInv, SeenOK, ItemsKeepOrder, F!TrafficIsTapped
  <1>4. QED BY <1>1, <1>2, <1>3, FifoInvariance, PTL DEF F!FSpec
-----------------------------------------------------------------------------
(* The channel.  Its inductive invariant: the types, that send futures are *)
(* the senders', that items leave in the order in which they entered, that *)
(* Disconnected is said only without senders, and nobody missing out.      *)
CTypeOK ==
  /\ cBuf \in Seq(Int) /\ cAccepted \in Seq(Int) /\ cTaken \in Seq(Int)
  /\ cOp \in [C!Tasks -> {"none", "send", "recv", "peek"}]
  /\ cItem \in [C!Tasks -> Int] /\ cOffered \in Int
  /\ cReady \in [C!Tasks -> BOOLEAN]

SendersSend == \A p \in C!Tasks : cOp[p] = "send" => p \in SendTasks

CInv ==
  /\ CTypeOK /\ SendersSend /\ C!NoSleeperMissesOut
  /\ cAccepted = cTaken \o cBuf
  /\ told => tx = {}

(* A step's items: one goes in, one goes out, or none moves.               *)
ItemsOK ==
  /\ cBuf' \in Seq(Int) /\ cAccepted' \in Seq(Int) /\ cTaken' \in Seq(Int)
  /\ cAccepted' = cTaken' \o cBuf'

LEMMA CQuiet ==
  ASSUME CInv, UNCHANGED <<cBuf, cAccepted, cTaken>>
  PROVE  ItemsOK
  BY Zenon DEF CInv, CTypeOK, ItemsOK

LEMMA CGoesIn ==
  ASSUME CInv, NEW v \in Int, NEW asleep, C!push(v, asleep)
  PROVE  ItemsOK
  <1>1. /\ cBuf' = Append(cBuf, v) /\ cAccepted' = Append(cAccepted, v) /\ cTaken' = cTaken
        /\ cBuf \in Seq(Int) /\ cAccepted \in Seq(Int) /\ cTaken \in Seq(Int)
    BY Zenon DEF C!push, CInv, CTypeOK
  <1>2. cBuf' \in Seq(Int) /\ cAccepted' \in Seq(Int) /\ cTaken' \in Seq(Int)
    BY <1>1
  <1>3. Joins(cAccepted, cTaken, cBuf)
    BY Zenon DEF CInv, Joins
  <1>4. Joins(Append(cAccepted, v), cTaken, Append(cBuf, v))
    BY <1>1, <1>3, AppendCat, Zenon
  <1>5. QED BY <1>1, <1>2, <1>4, Zenon DEF Joins, ItemsOK

LEMMA CGoesOut ==
  ASSUME CInv, cBuf # <<>>, NEW asleep, C!pop(asleep)
  PROVE  ItemsOK
  <1>1. /\ cBuf' = Tail(cBuf) /\ cTaken' = Append(cTaken, Head(cBuf)) /\ cAccepted' = cAccepted
        /\ cBuf \in Seq(Int) /\ cAccepted \in Seq(Int) /\ cTaken \in Seq(Int)
        /\ cAccepted = cTaken \o cBuf
    BY Zenon DEF C!pop, CInv, CTypeOK
  <1>2. Tail(cBuf) \in Seq(Int) /\ Head(cBuf) \in Int
    BY <1>1
  <1>3. Append(cTaken, Head(cBuf)) \in Seq(Int)
    BY <1>1, <1>2
  <1>4. cAccepted = Append(cTaken, Head(cBuf)) \o Tail(cBuf)
    BY <1>1, HeadMoves, Zenon
  <1>5. QED BY <1>1, <1>2, <1>3, <1>4, Zenon DEF ItemsOK

(* Sleepers, as for the FIFO: after an item went in where there was space, *)
(* or one went out, nobody sleeps in an operation.                         *)
CResumes(W, asleep) ==
  /\ cReady' = C!Woken(W, asleep)
  /\ \A q \in C!Tasks : cOp'[q] = "none" \/ (cOp'[q] = cOp[q] /\ q \notin asleep)

LEMMA CPutWakes ==
  ASSUME CInv, C!has_space, NEW asleep, CResumes(recvWaiters, asleep)
  PROVE  C!NoSleeperMissesOut'
  <1> SUFFICES ASSUME NEW q \in C!Tasks, ~cReady'[q] PROVE cOp'[q] = "none"
    BY Zenon DEF C!NoSleeperMissesOut
  <1>1. q \notin recvWaiters /\ (cOp'[q] = "none" \/ (cOp'[q] = cOp[q] /\ ~cReady[q]))
    BY Zenon DEF CResumes, C!Woken
  <1>2. /\ cOp[q] \in {"none", "send", "recv", "peek"}
        /\ ~cReady[q] => cOp[q] # "send" /\ (cOp[q] \in {"recv", "peek"} => q \in recvWaiters)
    BY Zenon DEF CInv, CTypeOK, C!NoSleeperMissesOut
  <1>3. QED BY <1>1, <1>2

LEMMA CGetWakes ==
  ASSUME CInv, cBuf # <<>>, NEW asleep, CResumes(sendWaiters, asleep)
  PROVE  C!NoSleeperMissesOut'
  <1> SUFFICES ASSUME NEW q \in C!Tasks, ~cReady'[q] PROVE cOp'[q] = "none"
    BY Zenon DEF C!NoSleeperMissesOut
  <1>1. q \notin sendWaiters /\ (cOp'[q] = "none" \/ (cOp'[q] = cOp[q] /\ ~cReady[q]))
    BY Zenon DEF CResumes, C!Woken
  <1>2. /\ cOp[q] \in {"none", "send", "recv", "peek"}
        /\ ~cReady[q] => cOp[q] \notin {"recv", "peek"} /\ (cOp[q] = "send" => q \in sendWaiters)
    BY Zenon DEF CInv, CTypeOK, C!NoSleeperMissesOut
  <1>3. QED BY <1>1, <1>2

(* A step that leaves the buffer and the last handles alone, in which      *)
(* tasks may park.                                                         *)
LEMMA CParks ==
  ASSUME CInv, cBuf' = cBuf, recvWaiters \subseteq recvWaiters', sendWaiters \subseteq sendWaiters',
         tx # {} => tx' # {}, rx # {} => rx' # {},
         \A q \in C!Tasks :
           \/ cOp'[q] = "none" \/ cReady'[q]
           \/ cOp'[q] = cOp[q] /\ cReady'[q] = cReady[q]
           \/ cOp'[q] \in {"recv", "peek"} /\ cBuf = <<>> /\ tx # {} /\ q \in recvWaiters'
           \/ cOp'[q] = "send" /\ ~C!has_space /\ rx # {} /\ q \in sendWaiters'
  PROVE  C!NoSleeperMissesOut'
  BY Zenon DEF CInv, C!NoSleeperMissesOut, C!has_space

LEMMA CTogether ==
  ASSUME ItemsOK, C!NoSleeperMissesOut', SendersSend', told' => tx' = {},
         cOp' \in [C!Tasks -> {"none", "send", "recv", "peek"}],
         cItem' \in [C!Tasks -> Int], cOffered' \in Int, cReady' \in [C!Tasks -> BOOLEAN]
  PROVE  CInv'
  BY Zenon DEF ItemsOK, CInv, CTypeOK

LEMMA CTypes ==
  ASSUME CInv
  PROVE  /\ cOp \in [C!Tasks -> {"none", "send", "recv", "peek"}]
         /\ cItem \in [C!Tasks -> Int] /\ cOffered \in Int
         /\ cReady \in [C!Tasks -> BOOLEAN]
         /\ SendersSend /\ (told => tx = {})
  BY Zenon DEF CInv, CTypeOK

(* The future of p ends.                                                   *)
LEMMA CFinishes ==
  ASSUME CInv, NEW p \in C!Tasks, C!Finish(p)
  PROVE  /\ cOp' \in [C!Tasks -> {"none", "send", "recv", "peek"}]
         /\ cItem' \in [C!Tasks -> Int] /\ SendersSend'
         /\ \A q \in C!Tasks : cOp'[q] = "none" \/ (cOp'[q] = cOp[q] /\ q # p)
         /\ cOp'[p] = "none"
  BY CTypes DEF C!Finish, SendersSend

LEMMA CPushOK ==
  ASSUME CInv, C!has_space, NEW v \in Int, NEW asleep, C!push(v, asleep),
         \A q \in C!Tasks : cOp'[q] = "none" \/ (cOp'[q] = cOp[q] /\ q \notin asleep)
  PROVE  ItemsOK /\ C!NoSleeperMissesOut' /\ cReady' \in [C!Tasks -> BOOLEAN]
  <1>1. cReady' = C!Woken(recvWaiters, asleep)
    BY Zenon DEF C!push
  <1>2. cReady' \in [C!Tasks -> BOOLEAN]
    BY <1>1, Zenon DEF C!Woken
  <1>3. QED BY <1>1, <1>2, CGoesIn, CPutWakes, Zenon DEF CResumes

LEMMA CPopOK ==
  ASSUME CInv, cBuf # <<>>, NEW asleep, C!pop(asleep),
         \A q \in C!Tasks : cOp'[q] = "none" \/ (cOp'[q] = cOp[q] /\ q \notin asleep)
  PROVE  ItemsOK /\ C!NoSleeperMissesOut' /\ cReady' \in [C!Tasks -> BOOLEAN]
  <1>1. cReady' = C!Woken(sendWaiters, asleep)
    BY Zenon DEF C!pop
  <1>2. cReady' \in [C!Tasks -> BOOLEAN]
    BY <1>1, Zenon DEF C!Woken
  <1>3. QED BY <1>1, <1>2, CGoesOut, CGetWakes, Zenon DEF CResumes
-----------------------------------------------------------------------------
(* Each step of the channel preserves the invariant.                       *)
LEMMA CloneSenderOK == ASSUME CInv, NEW p \in SendTasks, C!CloneSender(p) PROVE CInv'
  <1>1. /\ tx # {} /\ tx' # {}
        /\ UNCHANGED <<cBuf, rx, sendWaiters, recvWaiters, cOp, cItem, cReady, cOffered, cAccepted,
                       cTaken, told>>
    BY Zenon DEF C!CloneSender
  <1>2. ItemsOK /\ C!NoSleeperMissesOut'
    BY <1>1, CQuiet, CParks, Zenon
  <1>3. SendersSend' /\ ~told'
    BY <1>1, CTypes, Zenon DEF SendersSend
  <1>4. QED BY <1>1, <1>2, <1>3, CTypes, CTogether, Zenon

LEMMA CloneReceiverOK == ASSUME CInv, NEW p \in RecvTasks, C!CloneReceiver(p) PROVE CInv'
  <1>1. /\ rx' # {}
        /\ UNCHANGED <<cBuf, tx, sendWaiters, recvWaiters, cOp, cItem, cReady, cOffered, cAccepted,
                       cTaken, told>>
    BY Zenon DEF C!CloneReceiver
  <1>2. ItemsOK /\ C!NoSleeperMissesOut'
    BY <1>1, CQuiet, CParks, Zenon
  <1>3. SendersSend' /\ (told' => tx' = {})
    BY <1>1, CTypes, Zenon DEF SendersSend
  <1>4. QED BY <1>1, <1>2, <1>3, CTypes, CTogether, Zenon

LEMMA DropSenderOK == ASSUME CInv, NEW p \in SendTasks, C!DropSender(p) PROVE CInv'
  <1>1. /\ tx # {} /\ UNCHANGED <<cBuf, rx, sendWaiters, cOp, cItem, cOffered, cAccepted, cTaken, told>>
        /\ tx' = {} => cReady' = C!Woken(recvWaiters, {})
        /\ tx' # {} => UNCHANGED <<recvWaiters, cReady>>
    BY Zenon DEF C!DropSender
  <1>2. cReady' \in [C!Tasks -> BOOLEAN]
    <2>1. C!Woken(recvWaiters, {}) \in [C!Tasks -> BOOLEAN]
      BY Zenon DEF C!Woken
    <2>2. QED BY <1>1, <2>1, CTypes, Zenon
  <1>3. ItemsOK /\ SendersSend' /\ ~told'
    BY <1>1, CQuiet, CTypes, Zenon DEF SendersSend
  <1>4. CASE tx' # {}
    <2>1. C!NoSleeperMissesOut'
      BY <1>1, <1>4, CParks, Zenon
    <2>2. QED BY <1>1, <1>2, <1>3, <2>1, CTypes, CTogether, Zenon
  <1>5. CASE tx' = {}
    <2>1. \A q \in C!Tasks : ~cReady'[q] => ~cReady[q] /\ q \notin recvWaiters
      BY <1>1, <1>5, Zenon DEF C!Woken
    <2>2. C!NoSleeperMissesOut'
      BY <1>1, <2>1, Zenon DEF CInv, C!NoSleeperMissesOut, C!has_space
    <2>3. QED BY <1>1, <1>2, <1>3, <2>2, CTypes, CTogether, Zenon
  <1>6. QED BY <1>4, <1>5, Zenon

LEMMA DropReceiverOK == ASSUME CInv, NEW p \in RecvTasks, C!DropReceiver(p) PROVE CInv'
  <1>1. /\ rx # {} /\ UNCHANGED <<cBuf, tx, recvWaiters, cOp, cItem, cOffered, cAccepted, cTaken, told>>
        /\ rx' = {} => cReady' = C!Woken(sendWaiters, {})
        /\ rx' # {} => UNCHANGED <<sendWaiters, cReady>>
    BY Zenon DEF C!DropReceiver
  <1>2. cReady' \in [C!Tasks -> BOOLEAN]
    <2>1. C!Woken(sendWaiters, {}) \in [C!Tasks -> BOOLEAN]
      BY Zenon DEF C!Woken
    <2>2. QED BY <1>1, <2>1, CTypes, Zenon
  <1>3. ItemsOK /\ SendersSend' /\ (told' => tx' = {})
    BY <1>1, CQuiet, CTypes, Zenon DEF SendersSend
  <1>4. CASE rx' # {}
    <2>1. C!NoSleeperMissesOut'
      BY <1>1, <1>4, CParks, ZenonT(60)
    <2>2. QED BY <1>1, <1>2, <1>3, <2>1, CTypes, CTogether, Zenon
  <1>5. CASE rx' = {}
    <2>1. \A q \in C!Tasks : ~cReady'[q] => ~cReady[q] /\ q \notin sendWaiters
      BY <1>1, <1>5, Zenon DEF C!Woken
    <2>2. C!NoSleeperMissesOut'
      BY <1>1, <2>1, Zenon DEF CInv, C!NoSleeperMissesOut, C!has_space
    <2>3. QED BY <1>1, <1>2, <1>3, <2>2, CTypes, CTogether, Zenon
  <1>6. QED BY <1>4, <1>5, Zenon

LEMMA trySendOK == ASSUME CInv, NEW p \in SendTasks, C!try_send(p) PROVE CInv'
  <1>1. /\ UNCHANGED <<tx, rx, cOp, cItem, told>> /\ cOffered' = cOffered + 1 /\ cOffered' \in Int
        /\ SendersSend' /\ (told' => tx' = {})
    BY CTypes DEF C!try_send, C!Offer, SendersSend
  <1>2. CASE rx # {} /\ C!has_space
    <2>1. PICK v, A : v = cOffered' /\ A = {}
      BY Zenon
    <2>2. C!push(v, A)
      BY <1>2, <2>1, Zenon DEF C!try_send
    <2>3. ItemsOK /\ C!NoSleeperMissesOut' /\ cReady' \in [C!Tasks -> BOOLEAN]
      BY <1>1, <1>2, <2>1, <2>2, CPushOK, Zenon
    <2>4. QED BY <1>1, <2>3, CTypes, CTogether, Zenon
  <1>3. CASE ~(rx # {} /\ C!has_space)
    <2>1. UNCHANGED <<cBuf, sendWaiters, recvWaiters, cReady, cAccepted, cTaken>>
      BY <1>3, Zenon DEF C!try_send
    <2>2. ItemsOK /\ C!NoSleeperMissesOut'
      BY <1>1, <2>1, CQuiet, CParks, Zenon
    <2>3. QED BY <1>1, <2>1, <2>2, CTypes, CTogether, Zenon
  <1>4. QED BY <1>2, <1>3, Zenon

LEMMA tryRecvOK == ASSUME CInv, NEW p \in RecvTasks, C!try_recv(p) PROVE CInv'
  <1>1. /\ cBuf # <<>> /\ UNCHANGED <<tx, rx, cOp, cItem, cOffered, told>>
        /\ SendersSend' /\ (told' => tx' = {})
    BY CTypes, Zenon DEF C!try_recv, SendersSend
  <1>2. PICK A : A = {}
    BY Zenon
  <1>3. C!pop(A)
    BY <1>2, Zenon DEF C!try_recv
  <1>4. ItemsOK /\ C!NoSleeperMissesOut' /\ cReady' \in [C!Tasks -> BOOLEAN]
    BY <1>1, <1>2, <1>3, CPopOK, Zenon
  <1>5. QED BY <1>1, <1>4, CTypes, CTogether, Zenon

(* A future is made.                                                       *)
LEMMA BeginsOK ==
  ASSUME CInv, NEW p \in C!Tasks, NEW o \in {"send", "recv", "peek"}, o = "send" => p \in SendTasks,
         cOp' = [cOp EXCEPT ![p] = o], cReady' = [cReady EXCEPT ![p] = TRUE],
         UNCHANGED <<cBuf, tx, rx, sendWaiters, recvWaiters, cAccepted, cTaken, told>>,
         cItem' \in [C!Tasks -> Int], cOffered' \in Int
  PROVE  CInv'
  <1>1. cReady' \in [C!Tasks -> BOOLEAN]
    BY CTypes, Zenon
  <1>2. \A q \in C!Tasks : cReady'[q] \/ (cOp'[q] = cOp[q] /\ cReady'[q] = cReady[q])
    BY CTypes, Zenon
  <1>3. ItemsOK /\ C!NoSleeperMissesOut'
    <2>1. ItemsOK
      BY CQuiet, Zenon
    <2>2. C!NoSleeperMissesOut'
      BY <1>2, CParks, Zenon
    <2>3. QED BY <2>1, <2>2, Zenon
  <1>4. SendersSend' /\ cOp' \in [C!Tasks -> {"none", "send", "recv", "peek"}]
    BY CTypes, Zenon DEF SendersSend
  <1>5. told' => tx' = {}
    BY CTypes, Zenon
  <1>6. QED BY <1>1, <1>3, <1>4, <1>5, CTogether, Zenon

LEMMA sendOK == ASSUME CInv, NEW p \in SendTasks, C!send(p) PROVE CInv'
  <1>1. PICK o : o = "send"
    BY Zenon
  <1>2. /\ cOp' = [cOp EXCEPT ![p] = o] /\ cReady' = [cReady EXCEPT ![p] = TRUE]
        /\ cItem' = [cItem EXCEPT ![p] = cOffered'] /\ cOffered' = cOffered + 1
        /\ UNCHANGED <<cBuf, tx, rx, sendWaiters, recvWaiters, cAccepted, cTaken, told>>
    BY <1>1, Zenon DEF C!send, C!Offer
  <1>3. cOffered' \in Int
    BY <1>2, CTypes
  <1>4. cItem' \in [C!Tasks -> Int]
    BY <1>2, <1>3, CTypes, Zenon
  <1>5. p \in C!Tasks
    BY Zenon DEF C!Tasks
  <1>6. QED BY <1>1, <1>2, <1>3, <1>4, <1>5, BeginsOK, Zenon

LEMMA recvOK ==
  ASSUME CInv, NEW p \in RecvTasks, NEW o \in {"recv", "peek"}, C!recv(p, o) PROVE CInv'
  <1>1. p \in C!Tasks
    BY Zenon DEF C!Tasks
  <1>2. /\ cOp' = [cOp EXCEPT ![p] = o] /\ cReady' = [cReady EXCEPT ![p] = TRUE]
        /\ UNCHANGED <<cBuf, tx, rx, sendWaiters, recvWaiters, cItem, cOffered, cAccepted, cTaken, told>>
    BY Zenon DEF C!recv
  <1>3. cItem' \in [C!Tasks -> Int] /\ cOffered' \in Int
    BY <1>2, CTypes, Zenon
  <1>4. o \in {"send", "recv", "peek"} /\ o # "send"
    BY Zenon
  <1>5. QED BY <1>1, <1>2, <1>3, <1>4, BeginsOK, Zenon

(* A future ends without touching the buffer, or parks.                    *)
LEMMA EndsOK ==
  ASSUME CInv, NEW p \in C!Tasks, C!Finish(p), cReady' = [cReady EXCEPT ![p] = FALSE],
         UNCHANGED <<cBuf, tx, rx, sendWaiters, recvWaiters, cOffered, cAccepted, cTaken>>,
         told' => tx' = {}
  PROVE  CInv'
  <1>1. cReady' \in [C!Tasks -> BOOLEAN]
    BY CTypes, Zenon
  <1>2. \A q \in C!Tasks : cOp'[q] = "none" \/ (cOp'[q] = cOp[q] /\ cReady'[q] = cReady[q])
    <2>1. \A q \in C!Tasks : q # p => cReady'[q] = cReady[q]
      BY CTypes, Zenon
    <2>2. QED BY <2>1, CFinishes, Zenon
  <1>3. ItemsOK /\ C!NoSleeperMissesOut'
    <2>1. ItemsOK
      BY CQuiet, Zenon
    <2>2. C!NoSleeperMissesOut'
      BY <1>2, CParks, Zenon
    <2>3. QED BY <2>1, <2>2, Zenon
  <1>4. QED BY <1>1, <1>3, CFinishes, CTypes, CTogether, Zenon

LEMMA ParksOK ==
  ASSUME CInv, NEW p \in C!Tasks, cReady' = [cReady EXCEPT ![p] = FALSE],
         recvWaiters \subseteq recvWaiters', sendWaiters \subseteq sendWaiters',
         \/ cOp[p] \in {"recv", "peek"} /\ cBuf = <<>> /\ tx # {} /\ p \in recvWaiters'
         \/ cOp[p] = "send" /\ ~C!has_space /\ rx # {} /\ p \in sendWaiters',
         UNCHANGED <<cBuf, tx, rx, cOp, cItem, cOffered, cAccepted, cTaken, told>>
  PROVE  CInv'
  <1>1. cReady' \in [C!Tasks -> BOOLEAN]
    BY CTypes, Zenon
  <1>2. \A q \in C!Tasks : q = p \/ cReady'[q] = cReady[q]
    BY CTypes, Zenon
  <1>3. ItemsOK /\ C!NoSleeperMissesOut'
    <2>1. ItemsOK
      BY CQuiet, Zenon
    <2>2. C!NoSleeperMissesOut'
      BY <1>2, CParks, Zenon
    <2>3. QED BY <2>1, <2>2, Zenon
  <1>4. SendersSend'
    BY CTypes, Zenon DEF SendersSend
  <1>5. QED BY <1>1, <1>3, <1>4, CTypes, CTogether, Zenon

LEMMA PollSendOK == ASSUME CInv, NEW p \in C!Tasks, C!PollSend(p) PROVE CInv'
  <1>1. cOp[p] = "send" /\ UNCHANGED <<tx, rx, cOffered, told>>
    BY Zenon DEF C!PollSend
  <1>2. CASE rx = {}
    BY <1>1, <1>2, EndsOK, CTypes DEF C!PollSend
  <1>3. CASE rx # {} /\ C!has_space
    <2>1. PICK v, A : v = cItem[p] /\ A = {p}
      BY Zenon
    <2>2. C!push(v, A) /\ C!Finish(p) /\ v \in Int
      BY <1>3, <2>1, CTypes, Zenon DEF C!PollSend
    <2>3. ItemsOK /\ C!NoSleeperMissesOut' /\ cReady' \in [C!Tasks -> BOOLEAN]
      BY <1>3, <2>1, <2>2, CFinishes, CPushOK
    <2>4. QED BY <1>1, <2>2, <2>3, CFinishes, CTypes, CTogether, Zenon
  <1>4. CASE rx # {} /\ ~C!has_space
    BY <1>1, <1>4, ParksOK, Zenon DEF C!PollSend
  <1>5. QED BY <1>2, <1>3, <1>4, Zenon

LEMMA PollRecvOK == ASSUME CInv, NEW p \in C!Tasks, C!PollRecv(p) PROVE CInv'
  <1>1. cOp[p] \in {"recv", "peek"} /\ UNCHANGED <<tx, rx, cOffered>>
    BY Zenon DEF C!PollRecv
  <1>2. CASE cBuf # <<>> /\ cOp[p] = "recv"
    <2>1. PICK A : A = {p}
      BY Zenon
    <2>2. C!pop(A) /\ C!Finish(p) /\ told' = told
      BY <1>2, <2>1, Zenon DEF C!PollRecv
    <2>3. ItemsOK /\ C!NoSleeperMissesOut' /\ cReady' \in [C!Tasks -> BOOLEAN]
      BY <1>2, <2>1, <2>2, CFinishes, CPopOK, Zenon
    <2>4. QED BY <1>1, <2>2, <2>3, CFinishes, CTypes, CTogether, Zenon
  <1>3. CASE cBuf # <<>> /\ cOp[p] = "peek"
    BY <1>1, <1>3, EndsOK, CTypes DEF C!PollRecv
  <1>4. CASE cBuf = <<>> /\ tx = {}
    BY <1>1, <1>4, EndsOK, Zenon DEF C!PollRecv
  <1>5. CASE cBuf = <<>> /\ tx # {}
    BY <1>1, <1>5, ParksOK, Zenon DEF C!PollRecv
  <1>6. QED BY <1>1, <1>2, <1>3, <1>4, <1>5, Zenon

LEMMA DropFutureOK == ASSUME CInv, NEW p \in C!Tasks, C!DropFuture(p) PROVE CInv'
  <1>1. /\ C!Finish(p) /\ cReady' = [cReady EXCEPT ![p] = FALSE]
        /\ UNCHANGED <<cBuf, tx, rx, sendWaiters, recvWaiters, cOffered, cAccepted, cTaken, told>>
    BY Zenon DEF C!DropFuture
  <1>2. told' => tx' = {}
    BY <1>1, CTypes, Zenon
  <1>3. QED BY <1>1, <1>2, EndsOK, Zenon

LEMMA CNextOK == ASSUME CInv, [C!Next]_(C!vars) PROVE CInv'
  <1>1. CASE UNCHANGED C!vars
    BY <1>1, Zenon DEF C!vars, CInv, CTypeOK, SendersSend, C!NoSleeperMissesOut, C!has_space
  <1>2. CASE C!Next
    BY <1>2, CloneSenderOK, CloneReceiverOK, DropSenderOK, DropReceiverOK, trySendOK, tryRecvOK,
       sendOK, recvOK, PollSendOK, PollRecvOK, DropFutureOK, ZenonT(60) DEF C!Next, C!Poll
  <1>3. QED BY <1>1, <1>2, Zenon

LEMMA CInitOK == ASSUME C!Init PROVE CInv
  <1>1. cReady \in [C!Tasks -> BOOLEAN]
    BY Zenon DEF C!Init
  <1>2. CTypeOK
    BY <1>1 DEF C!Init, CTypeOK
  <1>3. SendersSend /\ C!NoSleeperMissesOut
    BY Zenon DEF C!Init, SendersSend, C!NoSleeperMissesOut
  <1>4. cAccepted = cTaken \o cBuf /\ ~told
    BY DEF C!Init
  <1>5. QED BY <1>2, <1>3, <1>4, Zenon DEF CInv

(* The invariant holds in every state of a channel.                        *)
THEOREM ChannelInvariance == C!Spec => []CInv
  BY CInitOK, CNextOK, PTL DEF C!Spec

(* No task sleeps on a buffer while the poll that it waits for would       *)
(* complete: a getter or receiver with an item there or the senders gone,  *)
(* a putter or sender with space or the receivers gone.                    *)
THEOREM NobodyMissesOut == F!FSpec /\ C!Spec => []NoSleeperMissesOut
  <1>1. FInv /\ CInv => NoSleeperMissesOut
    BY Zenon DEF FInv, CInv, NoSleeperMissesOut
  <1>2. QED BY <1>1, FifoInvariance, ChannelInvariance, PTL
-----------------------------------------------------------------------------
(* What a step may do when and after a receiver is told Disconnected.      *)
ToldOK ==
  /\ ~told /\ told' => cTaken = cAccepted
  /\ told => /\ told'
             /\ cAccepted' # cAccepted =>
                  \E p \in SendTasks \ tx : cOp[p] = "send" /\ cOp'[p] = "none"

LEMMA SendTold == ASSUME CInv, NEW p \in C!Tasks, C!PollSend(p) PROVE ToldOK
  <1>1. cOp[p] = "send" /\ told' = told /\ p \in SendTasks
    BY CTypes, Zenon DEF C!PollSend, SendersSend
  <1>2. cAccepted' # cAccepted => C!Finish(p)
    BY Zenon DEF C!PollSend
  <1>3. told => p \in SendTasks \ tx
    BY <1>1, CTypes, Zenon
  <1>4. QED BY <1>1, <1>2, <1>3, CFinishes, Zenon DEF ToldOK

LEMMA RecvTold == ASSUME CInv, NEW p \in C!Tasks, C!PollRecv(p) PROVE ToldOK
  <1>1. cAccepted' = cAccepted /\ (told => told')
    BY DEF C!PollRecv, C!pop
  <1>2. ~told /\ told' => cBuf = <<>>
    BY Zenon DEF C!PollRecv
  <1>3. cBuf = <<>> => cTaken = cAccepted
    BY DEF CInv, CTypeOK
  <1>4. QED BY <1>1, <1>2, <1>3, Zenon DEF ToldOK

LEMMA TryTold == ASSUME CInv, NEW p \in SendTasks, C!try_send(p) PROVE ToldOK
  <1>1. told' = told /\ tx # {}
    BY Zenon DEF C!try_send
  <1>2. QED BY <1>1, CTypes, Zenon DEF ToldOK

LEMMA StepTold == ASSUME CInv, [C!Next]_(C!vars) PROVE ToldOK
  <1>1. CASE UNCHANGED C!vars
    BY <1>1, Zenon DEF C!vars, ToldOK
  <1>2. ASSUME NEW p \in SendTasks, C!CloneSender(p) \/ C!DropSender(p) \/ C!send(p) PROVE ToldOK
    BY <1>2 DEF C!CloneSender, C!DropSender, C!send, ToldOK
  <1>3. ASSUME NEW p \in RecvTasks, C!CloneReceiver(p) \/ C!DropReceiver(p) PROVE ToldOK
    BY <1>3 DEF C!CloneReceiver, C!DropReceiver, ToldOK
  <1>4. ASSUME NEW p \in RecvTasks, C!try_recv(p) \/ \E o \in {"recv", "peek"} : C!recv(p, o)
        PROVE  ToldOK
    BY <1>4 DEF C!try_recv, C!pop, C!recv, ToldOK
  <1>5. ASSUME NEW p \in C!Tasks, C!DropFuture(p) PROVE ToldOK
    BY <1>5, Zenon DEF C!DropFuture, ToldOK
  <1>6. QED BY <1>1, <1>2, <1>3, <1>4, <1>5, SendTold, RecvTold, TryTold, Zenon DEF C!Next, C!Poll

(* Disconnected is said only after every item that entered the buffer was  *)
(* received, is never taken back, and afterwards an item can only come     *)
(* from a send future that has outlived its handle.                        *)
THEOREM Disconnection == C!Spec => DisconnectIsHonest
  <1>1. CInv /\ [C!Next]_(C!vars) => [ToldOK]_(C!vars)
    BY StepTold, Zenon
  <1>2. QED
    BY <1>1, ChannelInvariance, PTL DEF C!Spec, DisconnectIsHonest, C!DisconnectIsHonest, ToldOK
=============================================================================
