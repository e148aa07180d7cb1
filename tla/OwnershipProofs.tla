-------------------------- MODULE OwnershipProofs ---------------------------
(* Who owns what: the lock is sound and fair for any set of clients, and   *)
(* the references to a callback balance, for any set of registrations, any *)
(* depth of nested trampolines and any number of calls.                    *)
EXTENDS Lock, Callbacks, Integers, TLAPS

(* Queues: who is in them, that nobody is in them twice, and one with      *)
(* element i cut out.                                                      *)
In(t, q) == \E i \in 1..Len(q) : q[i] = t
Distinct(q) == \A i, j \in 1..Len(q) : q[i] = q[j] => i = j
Cut(q, i) == SubSeq(q, 1, i - 1) \o SubSeq(q, i + 1, Len(q))

(* An append adds its element and, if it is new, no duplicate.             *)
LEMMA AppendEffect ==
  ASSUME NEW S, NEW q \in Seq(S), NEW e \in S, Distinct(q), ~In(e, q)
  PROVE  /\ Append(q, e) \in Seq(S)
         /\ Distinct(Append(q, e))
         /\ \A t : In(t, Append(q, e)) <=> In(t, q) \/ t = e
  <1>1. Distinct(Append(q, e))
    BY DEF Distinct, In
  <1>2. ASSUME NEW t PROVE In(t, Append(q, e)) <=> In(t, q) \/ t = e
    <2>1. Append(q, e)[Len(q) + 1] = e /\ Len(q) + 1 \in 1..Len(Append(q, e))
      OBVIOUS
    <2>2. In(t, q) => In(t, Append(q, e))
      BY DEF In
    <2>3. In(t, Append(q, e)) => In(t, q) \/ t = e
      BY DEF In
    <2>4. QED BY <2>1, <2>2, <2>3, Zenon DEF In
  <1>3. QED BY <1>1, <1>2

(* Cutting element i out moves the later ones up by one.                   *)
LEMMA CutIs ==
  ASSUME NEW S, NEW q \in Seq(S), NEW i \in 1..Len(q)
  PROVE  /\ Cut(q, i) \in Seq(S)
         /\ Len(Cut(q, i)) = Len(q) - 1
         /\ \A j \in 1..(Len(q) - 1) : Cut(q, i)[j] = IF j < i THEN q[j] ELSE q[j + 1]
  <1> DEFINE a == SubSeq(q, 1, i - 1)
             b == SubSeq(q, i + 1, Len(q))
  <1>1. a \in Seq(S) /\ Len(a) = i - 1 /\ \A j \in 1..(i - 1) : a[j] = q[j]
    OBVIOUS
  <1>2. b \in Seq(S) /\ Len(b) = Len(q) - i /\ \A j \in 1..(Len(q) - i) : b[j] = q[i + j]
    OBVIOUS
  <1>3. Cut(q, i) = a \o b
    BY Zenon DEF Cut
  <1> HIDE DEF a, b
  <1>4. a \o b \in Seq(S) /\ Len(a \o b) = Len(q) - 1
    <2>0. a \in Seq(S) /\ b \in Seq(S)
      BY <1>1, <1>2, Zenon
    <2>1. a \o b \in Seq(S) /\ Len(a \o b) = Len(a) + Len(b)
      BY <2>0
    <2>2. i \in Int /\ Len(q) \in Int
      OBVIOUS
    <2>3. QED BY <1>1, <1>2, <2>1, <2>2
  <1>5. ASSUME NEW j \in 1..(Len(q) - 1)
        PROVE  (a \o b)[j] = IF j < i THEN q[j] ELSE q[j + 1]
    <2>1. CASE j < i
      BY <1>1, <1>2, <2>1
    <2>2. CASE j >= i
      <3>1. (a \o b)[j] = b[j - (i - 1)]
        BY <1>1, <1>2, <2>2, SMTT(60)
      <3>2. j - (i - 1) \in 1..(Len(q) - i) /\ i + (j - (i - 1)) = j + 1
        BY <2>2
      <3>3. b[j - (i - 1)] = q[i + (j - (i - 1))]
        BY <1>2, <3>2, Zenon
      <3>4. QED BY <2>2, <3>1, <3>2, <3>3
    <2>3. j < i \/ j >= i
      OBVIOUS
    <2>4. QED BY <2>1, <2>2, <2>3, Zenon
  <1>6. QED BY <1>3, <1>4, <1>5, Zenon

(* Without duplicates, a cut takes its element out and no other.           *)
LEMMA CutEffect ==
  ASSUME NEW S, NEW q \in Seq(S), NEW i \in 1..Len(q), Distinct(q)
  PROVE  /\ Distinct(Cut(q, i))
         /\ \A t : In(t, Cut(q, i)) <=> In(t, q) /\ t # q[i]
  <1> DEFINE r == Cut(q, i)
  <1>1. /\ Len(r) = Len(q) - 1
        /\ \A j \in 1..(Len(q) - 1) : r[j] = IF j < i THEN q[j] ELSE q[j + 1]
    BY CutIs, Zenon
  <1> HIDE DEF r
  <1>2. Distinct(r)
    <2> SUFFICES ASSUME NEW j \in 1..Len(r), NEW k \in 1..Len(r), r[j] = r[k] PROVE j = k
      BY Zenon DEF Distinct
    <2> DEFINE from(n) == IF n < i THEN n ELSE n + 1
    <2>1. from(j) \in 1..Len(q) /\ from(k) \in 1..Len(q) /\ q[from(j)] = q[from(k)]
      BY <1>1
    <2>2. from(j) = from(k)
      BY <2>1, Zenon DEF Distinct
    <2>3. QED BY <2>2
  <1>3. ASSUME NEW t, In(t, r) PROVE In(t, q) /\ t # q[i]
    <2>1. PICK j \in 1..Len(r) : r[j] = t
      BY <1>3, Zenon DEF In
    <2>2. CASE j < i
      <3>1. j \in 1..Len(q) /\ q[j] = t /\ j # i
        BY <1>1, <2>1, <2>2
      <3>2. QED BY <3>1, Zenon DEF In, Distinct
    <2>3. CASE j >= i
      <3>1. j + 1 \in 1..Len(q) /\ q[j + 1] = t /\ j + 1 # i
        BY <1>1, <2>1, <2>3
      <3>2. QED BY <3>1, Zenon DEF In, Distinct
    <2>4. QED BY <2>2, <2>3
  <1>4. ASSUME NEW t, In(t, q), t # q[i] PROVE In(t, r)
    <2>1. PICK j \in 1..Len(q) : q[j] = t
      BY <1>4, Zenon DEF In
    <2>2. CASE j < i
      <3>1. j \in 1..Len(r) /\ r[j] = t
        BY <1>1, <2>1, <2>2
      <3>2. QED BY <3>1, Zenon DEF In
    <2>3. CASE j > i
      <3>1. j - 1 \in 1..Len(r) /\ r[j - 1] = q[(j - 1) + 1] /\ (j - 1) + 1 = j
        BY <1>1, <2>3
      <3>2. QED BY <2>1, <3>1, Zenon DEF In
    <2>4. j # i
      BY <1>4, <2>1, Zenon
    <2>5. QED BY <2>2, <2>3, <2>4
  <1>5. QED BY <1>2, <1>3, <1>4, Zenon DEF r

(* What a sequence with e in front looks like.                             *)
LEMMA ConsIs ==
  ASSUME NEW S, NEW e \in S, NEW q \in Seq(S)
  PROVE  /\ <<e>> \o q \in Seq(S) /\ <<e>> \o q # <<>>
         /\ Len(<<e>> \o q) = Len(q) + 1
         /\ Head(<<e>> \o q) = e /\ (<<e>> \o q)[1] = e
         /\ \A j \in 1..Len(q) : (<<e>> \o q)[j + 1] = q[j]
  <1>1. <<e>> \in Seq(S) /\ Len(<<e>>) = 1 /\ <<e>>[1] = e
    OBVIOUS
  <1>2. PICK s : s = <<e>>
    BY Zenon
  <1>3. s \o q \in Seq(S) /\ Len(s \o q) = Len(q) + 1
    BY <1>1, <1>2
  <1>4. (s \o q)[1] = e /\ \A j \in 1..Len(q) : (s \o q)[j + 1] = q[j]
    BY <1>1, <1>2
  <1>5. s \o q # <<>> /\ Head(s \o q) = e
    BY <1>3, <1>4
  <1>6. QED BY <1>2, <1>3, <1>4, <1>5, Zenon

(* Sequences with the same elements in the same places are equal.          *)
LEMMA SameSeq ==
  ASSUME NEW S, NEW a \in Seq(S), NEW b \in Seq(S), Len(a) = Len(b),
         \A j \in 1..Len(a) : a[j] = b[j]
  PROVE  a = b
  OBVIOUS

(* A sequence is its head in front of its tail.                            *)
LEMMA ConsTail ==
  ASSUME NEW S, NEW q \in Seq(S), q # <<>>
  PROVE  <<Head(q)>> \o Tail(q) = q
  <1>1. Head(q) \in S /\ Tail(q) \in Seq(S) /\ Len(q) = Len(Tail(q)) + 1
    OBVIOUS
  <1>2. q[1] = Head(q) /\ \A j \in 1..Len(Tail(q)) : q[j + 1] = Tail(q)[j]
    OBVIOUS
  <1>3. PICK c : c = <<Head(q)>> \o Tail(q)
    BY Zenon
  <1>4. /\ c \in Seq(S) /\ Len(c) = Len(q) /\ c[1] = q[1]
        /\ \A j \in 1..Len(Tail(q)) : c[j + 1] = q[j + 1]
    BY <1>1, <1>2, <1>3, ConsIs
  <1>5. ASSUME NEW j \in 1..Len(q) PROVE c[j] = q[j]
    <2>1. CASE j = 1
      BY <1>4, <2>1, Zenon
    <2>2. CASE j # 1
      <3>1. j - 1 \in 1..Len(Tail(q)) /\ (j - 1) + 1 = j
        BY <1>1, <2>2
      <3>2. c[(j - 1) + 1] = q[(j - 1) + 1]
        BY <1>4, <3>1, Zenon
      <3>3. QED BY <3>1, <3>2, Zenon
    <2>3. QED BY <2>1, <2>2, Zenon
  <1>6. QED BY <1>3, <1>4, <1>5, SameSeq, Zenon

(* Cutting out the first element undoes putting it in front.               *)
LEMMA CutFirst ==
  ASSUME NEW S, NEW e \in S, NEW q \in Seq(S)
  PROVE  Cut(<<e>> \o q, 1) = q
  <1>1. PICK c : c = <<e>> \o q
    BY Zenon
  <1>2. /\ c \in Seq(S) /\ Len(c) = Len(q) + 1 /\ 1 \in 1..Len(c)
        /\ \A j \in 1..Len(q) : c[j + 1] = q[j]
    BY <1>1, ConsIs
  <1>3. /\ Cut(c, 1) \in Seq(S) /\ Len(Cut(c, 1)) = Len(q)
        /\ \A j \in 1..Len(q) : Cut(c, 1)[j] = c[j + 1]
    <2>1. /\ Cut(c, 1) \in Seq(S) /\ Len(Cut(c, 1)) = Len(c) - 1
          /\ \A j \in 1..(Len(c) - 1) : Cut(c, 1)[j] = IF j < 1 THEN c[j] ELSE c[j + 1]
      BY <1>2, CutIs, Zenon
    <2>2. Len(c) - 1 = Len(q)
      BY <1>2
    <2>3. QED BY <2>1, <2>2
  <1>4. QED BY <1>1, <1>2, <1>3, SameSeq, Zenon

(* Cutting behind the first element is cutting the rest.                   *)
LEMMA CutLater ==
  ASSUME NEW S, NEW e \in S, NEW q \in Seq(S), NEW i \in 1..Len(q)
  PROVE  Cut(<<e>> \o q, i + 1) = <<e>> \o Cut(q, i)
  <1>1. PICK c, r, d : c = <<e>> \o q /\ r = Cut(q, i) /\ d = <<e>> \o r
    BY Zenon
  <1>2. /\ c \in Seq(S) /\ Len(c) = Len(q) + 1 /\ i + 1 \in 1..Len(c) /\ c[1] = e
        /\ \A j \in 1..Len(q) : c[j + 1] = q[j]
    BY <1>1, ConsIs
  <1>3. /\ r \in Seq(S) /\ Len(r) = Len(q) - 1
        /\ \A j \in 1..(Len(q) - 1) : r[j] = IF j < i THEN q[j] ELSE q[j + 1]
    BY <1>1, CutIs, Zenon
  <1>4. /\ d \in Seq(S) /\ Len(d) = Len(q) /\ d[1] = e
        /\ \A j \in 1..(Len(q) - 1) : d[j + 1] = r[j]
    BY <1>1, <1>3, ConsIs
  <1>5. /\ Cut(c, i + 1) \in Seq(S) /\ Len(Cut(c, i + 1)) = Len(q)
        /\ \A j \in 1..Len(q) : Cut(c, i + 1)[j] = IF j < i + 1 THEN c[j] ELSE c[j + 1]
    <2>1. PICK n : n = i + 1
      BY Zenon
    <2>2. /\ Cut(c, n) \in Seq(S) /\ Len(Cut(c, n)) = Len(c) - 1
          /\ \A j \in 1..(Len(c) - 1) : Cut(c, n)[j] = IF j < n THEN c[j] ELSE c[j + 1]
      BY <1>2, <2>1, CutIs, Zenon
    <2>3. Len(c) - 1 = Len(q)
      BY <1>2
    <2>4. QED BY <2>1, <2>2, <2>3, Zenon
  <1>6. ASSUME NEW j \in 1..Len(q) PROVE Cut(c, i + 1)[j] = d[j]
    <2>1. CASE j = 1
      BY <1>2, <1>4, <1>5, <2>1
    <2>2. CASE j # 1
      <3>1. PICK k \in 1..(Len(q) - 1) : j = k + 1
        <4>1. j - 1 \in 1..(Len(q) - 1) /\ j = (j - 1) + 1
          BY <2>2
        <4>2. QED BY <4>1, Zenon
      <3>2. d[j] = IF k < i THEN q[k] ELSE q[k + 1]
        BY <1>3, <1>4, <3>1, Zenon
      <3>3. Cut(c, i + 1)[j] = IF k < i THEN c[k + 1] ELSE c[(k + 1) + 1]
        BY <1>5, <3>1
      <3>4. c[k + 1] = q[k] /\ c[(k + 1) + 1] = q[k + 1]
        <4>1. k \in 1..Len(q) /\ k + 1 \in 1..Len(q)
          BY <3>1
        <4>2. QED BY <1>2, <4>1, Zenon
      <3>5. QED BY <3>2, <3>3, <3>4, Zenon
    <2>3. QED BY <2>1, <2>2, Zenon
  <1>7. QED BY <1>1, <1>4, <1>5, <1>6, SameSeq, Zenon

(* Without duplicates, a tail has everyone but the head.                   *)
LEMMA TailEffect ==
  ASSUME NEW S, NEW q \in Seq(S), q # <<>>, Distinct(q)
  PROVE  /\ Head(q) \in S /\ In(Head(q), q) /\ Tail(q) \in Seq(S)
         /\ Distinct(Tail(q))
         /\ \A t : In(t, Tail(q)) <=> In(t, q) /\ t # Head(q)
  <1>1. 1 \in 1..Len(q) /\ q[1] = Head(q) /\ Head(q) \in S
    OBVIOUS
  <1>2. Tail(q) = Cut(q, 1)
    <2>1. /\ Cut(q, 1) \in Seq(S) /\ Len(Cut(q, 1)) = Len(q) - 1
          /\ \A j \in 1..(Len(q) - 1) : Cut(q, 1)[j] = q[j + 1]
      BY <1>1, CutIs
    <2>2. /\ Tail(q) \in Seq(S) /\ Len(Tail(q)) = Len(q) - 1
          /\ \A j \in 1..(Len(q) - 1) : Tail(q)[j] = q[j + 1]
      OBVIOUS
    <2>3. QED BY <2>1, <2>2
  <1>3. In(Head(q), q)
    BY <1>1, Zenon DEF In
  <1>4. Tail(q) \in Seq(S)
    OBVIOUS
  <1>5. /\ Distinct(Cut(q, 1))
        /\ \A t : In(t, Cut(q, 1)) <=> In(t, q) /\ t # q[1]
    BY <1>1, CutEffect, Zenon
  <1>6. QED BY <1>1, <1>2, <1>3, <1>4, <1>5, Zenon

(* An element put in front is added and, if new, no duplicate.             *)
LEMMA ConsEffect ==
  ASSUME NEW S, NEW q \in Seq(S), NEW e \in S, Distinct(q), ~In(e, q)
  PROVE  /\ <<e>> \o q \in Seq(S)
         /\ Distinct(<<e>> \o q)
         /\ \A t : In(t, <<e>> \o q) <=> In(t, q) \/ t = e
  <1>1. PICK c : c = <<e>> \o q
    BY Zenon
  <1>2. /\ c \in Seq(S) /\ Len(c) = Len(q) + 1 /\ c[1] = e
        /\ \A j \in 1..Len(q) : c[j + 1] = q[j]
    BY <1>1, ConsIs
  <1>3. \A i \in 1..Len(c) : i # 1 => i - 1 \in 1..Len(q) /\ c[i] = q[i - 1]
    <2> SUFFICES ASSUME NEW i \in 1..Len(c), i # 1
                 PROVE  i - 1 \in 1..Len(q) /\ c[i] = q[i - 1]
      BY Zenon
    <2>1. i - 1 \in 1..Len(q) /\ (i - 1) + 1 = i
      BY <1>2
    <2>2. c[(i - 1) + 1] = q[i - 1]
      BY <1>2, <2>1, Zenon
    <2>3. QED BY <2>1, <2>2, Zenon
  <1>4. Distinct(c)
    <2> SUFFICES ASSUME NEW i \in 1..Len(c), NEW j \in 1..Len(c), c[i] = c[j] PROVE i = j
      BY Zenon DEF Distinct
    <2>1. CASE i = 1 /\ j # 1
      BY <1>2, <1>3, <2>1, Zenon DEF In
    <2>2. CASE i # 1 /\ j = 1
      BY <1>2, <1>3, <2>2, Zenon DEF In
    <2>3. CASE i # 1 /\ j # 1
      <3>1. i - 1 = j - 1
        BY <1>3, <2>3, Zenon DEF Distinct
      <3>2. QED BY <3>1
    <2>4. QED BY <2>1, <2>2, <2>3, Zenon
  <1>5. ASSUME NEW t PROVE In(t, c) <=> In(t, q) \/ t = e
    <2>1. In(t, c) => In(t, q) \/ t = e
      BY <1>2, <1>3 DEF In
    <2>2. In(t, q) => In(t, c)
      <3>1. ASSUME NEW j \in 1..Len(q), q[j] = t PROVE In(t, c)
        <4>1. j + 1 \in 1..Len(c) /\ c[j + 1] = t
          BY <1>2, <3>1
        <4>2. QED BY <4>1, Zenon DEF In
      <3>2. QED BY <3>1, Zenon DEF In
    <2>3. In(e, c)
      <3>1. 1 \in 1..Len(c)
        BY <1>2
      <3>2. QED BY <1>2, <3>1, Zenon DEF In
    <2>4. QED BY <2>1, <2>2, <2>3, Zenon
  <1>6. QED BY <1>1, <1>2, <1>4, <1>5, Zenon
-----------------------------------------------------------------------------
(* A lock that nobody owns has nobody in its queue: release unlocks only   *)
(* when the queue is empty, and only a locked lock makes a client queue.   *)
UnlockedIsFree == waiters # <<>> => locked

(* The inductive invariant.                                                *)
IInv == TypeOK /\ OwnershipIsSound /\ UnlockedIsFree
-----------------------------------------------------------------------------
(* The invariant in terms of membership, which is what the steps use.      *)

LEMMA Facts ==
  ASSUME IInv
  PROVE  /\ waiters \in Seq(Clients) /\ Distinct(waiters)
         /\ \A p \in Clients : fut[p] = "waiting" <=> In(p, waiters) \/ granted[p]
         /\ \A p \in Clients : ~(In(p, waiters) /\ granted[p])
         /\ \A p \in Clients : granted[p] => ready[p]
         /\ \A p, q \in Clients : Owns(p) /\ Owns(q) => p = q
         /\ locked <=> \E p \in Clients : Owns(p)
  BY Zenon DEF IInv, TypeOK, OwnershipIsSound, OneOwner, NobodyIsForgotten, Queued, In, Distinct

LEMMA InitIInv == ASSUME Init PROVE IInv
  <1>1. TypeOK /\ UnlockedIsFree
    <2>1. waiters = <<>> /\ waiters \in Seq(Clients)
      BY DEF Init
    <2>2. locked \in BOOLEAN /\ granted \in [Clients -> BOOLEAN] /\ ready \in [Clients -> BOOLEAN]
      BY Zenon DEF Init
    <2>3. fut \in [Clients -> {"idle", "created", "waiting", "holding"}]
      BY Zenon DEF Init
    <2>4. QED BY <2>1, <2>2, <2>3, Zenon DEF TypeOK, UnlockedIsFree
  <1>2. OneOwner
    BY Zenon DEF Init, OneOwner, Owns
  <1>3. NobodyIsForgotten
    BY DEF Init, NobodyIsForgotten, Queued
  <1>4. QED BY <1>1, <1>2, <1>3, Zenon DEF IInv, OwnershipIsSound

LEMMA acquirePreserves == ASSUME IInv, NEW p \in Clients, acquire(p) PROVE IInv'
  <1> USE DEF acquire
  <1>1. TypeOK' /\ UnlockedIsFree'
    BY Zenon DEF IInv, TypeOK, UnlockedIsFree
  <1>2. \A q \in Clients : Owns(q)' <=> Owns(q)
    BY Zenon DEF IInv, TypeOK, Owns
  <1>3. OneOwner'
    BY <1>2, Zenon DEF IInv, OwnershipIsSound, OneOwner
  <1>4. NobodyIsForgotten'
    BY ZenonT(60) DEF IInv, TypeOK, OwnershipIsSound, NobodyIsForgotten, Queued
  <1>5. QED BY <1>1, <1>3, <1>4, Zenon DEF IInv, OwnershipIsSound

LEMMA PollFirstPreserves == ASSUME IInv, NEW p \in Clients, PollFirst(p) PROVE IInv'
  <1> USE DEF PollFirst
  <1>1. ~In(p, waiters) /\ ~granted[p] /\ ~Owns(p)
    BY Facts, Zenon DEF Owns
  <1>2. CASE locked
    <2>1. waiters' = Append(waiters, p) /\ fut' = [fut EXCEPT ![p] = "waiting"] /\ locked' = locked
      BY <1>2, Zenon
    <2>2. /\ waiters' \in Seq(Clients) /\ Distinct(waiters')
          /\ \A t : In(t, waiters') <=> In(t, waiters) \/ t = p
      BY <1>1, <2>1, Facts, AppendEffect, Zenon
    <2>3. TypeOK' /\ UnlockedIsFree'
      BY <1>2, <2>1, <2>2, Zenon DEF IInv, TypeOK, UnlockedIsFree
    <2>4. \A q \in Clients : Owns(q)' <=> Owns(q)
      BY <1>1, <2>1, Zenon DEF IInv, TypeOK, Owns
    <2>5. OneOwner'
      BY <2>1, <2>4, Zenon DEF IInv, OwnershipIsSound, OneOwner
    <2>6. \A q \in Clients : Queued(q)' <=> Queued(q) \/ q = p
      BY <2>2, Zenon DEF Queued, In
    <2>7. NobodyIsForgotten'
      <3>1. \A q \in Clients : fut'[q] = "waiting" <=> Queued(q)' \/ granted'[q]
        BY <1>1, <2>1, <2>6, Zenon DEF IInv, TypeOK, OwnershipIsSound, NobodyIsForgotten
      <3>2. \A q \in Clients : ~(Queued(q)' /\ granted'[q])
        BY <1>1, <2>6, Zenon DEF IInv, OwnershipIsSound, NobodyIsForgotten
      <3>3. \A q \in Clients : granted'[q] => ready'[q]
        BY <1>1, Zenon DEF IInv, TypeOK, OwnershipIsSound, NobodyIsForgotten
      <3>4. QED BY <2>2, <3>1, <3>2, <3>3, Zenon DEF NobodyIsForgotten, Distinct
    <2>8. QED BY <2>3, <2>5, <2>7, Zenon DEF IInv, OwnershipIsSound
  <1>3. CASE ~locked
    <2>1. waiters' = waiters /\ fut' = [fut EXCEPT ![p] = "holding"] /\ locked' = TRUE
      BY <1>3, Zenon
    <2>2. TypeOK' /\ UnlockedIsFree'
      BY <2>1, Zenon DEF IInv, TypeOK, UnlockedIsFree
    <2>3. \A q \in Clients : Owns(q)' <=> q = p
      BY <1>3, <2>1, Facts, Zenon DEF IInv, TypeOK, Owns
    <2>4. OneOwner'
      BY <2>1, <2>3, Zenon DEF OneOwner
    <2>5. NobodyIsForgotten'
      BY <1>1, <2>1, ZenonT(60) DEF IInv, TypeOK, OwnershipIsSound, NobodyIsForgotten, Queued
    <2>6. QED BY <2>2, <2>4, <2>5, Zenon DEF IInv, OwnershipIsSound
  <1>4. QED BY <1>2, <1>3, Zenon

LEMMA PollWaiterPreserves == ASSUME IInv, NEW p \in Clients, PollWaiter(p) PROVE IInv'
  <1> USE DEF PollWaiter
  <1>1. TypeOK' /\ UnlockedIsFree'
    BY Zenon DEF IInv, TypeOK, UnlockedIsFree
  <1>2. \A q \in Clients : Owns(q)' <=> Owns(q)
    BY Zenon DEF IInv, TypeOK, Owns
  <1>3. OneOwner'
    BY <1>2, Zenon DEF IInv, OwnershipIsSound, OneOwner
  <1>4. NobodyIsForgotten'
    BY DEF IInv, TypeOK, OwnershipIsSound, NobodyIsForgotten, Queued
  <1>5. QED BY <1>1, <1>3, <1>4, Zenon DEF IInv, OwnershipIsSound

(* The owner is gone: the front waiter owns the lock, or nobody does.      *)
LEMMA releasePreserves ==
  ASSUME IInv, NEW p \in Clients, Owns(p),
         fut' = [fut EXCEPT ![p] = "idle"], release([granted EXCEPT ![p] = FALSE])
  PROVE  IInv'
  <1> USE DEF release
  <1>1. ~In(p, waiters)
    BY Facts, Zenon DEF Owns, IInv, TypeOK
  <1>2. \A q \in Clients \ {p} : ~Owns(q)
    BY Facts, Zenon
  <1>3. CASE waiters = <<>>
    <2>1. /\ locked' = FALSE /\ granted' = [granted EXCEPT ![p] = FALSE]
          /\ waiters' = waiters /\ ready' = ready
      BY <1>3, Zenon
    <2>2. TypeOK' /\ UnlockedIsFree'
      BY <1>3, <2>1, Zenon DEF IInv, TypeOK, UnlockedIsFree
    <2>3. \A q \in Clients : ~Owns(q)'
      BY <1>2, <2>1, Zenon DEF IInv, TypeOK, Owns
    <2>4. OneOwner'
      BY <2>1, <2>3, Zenon DEF OneOwner
    <2>5. NobodyIsForgotten'
      BY <1>1, <1>2, <2>1 DEF IInv, TypeOK, OwnershipIsSound, NobodyIsForgotten, Queued, In
    <2>6. QED BY <2>2, <2>4, <2>5, Zenon DEF IInv, OwnershipIsSound
  <1>4. CASE waiters # <<>>
    <2>1. PICK h : h = Head(waiters)
      BY Zenon
    <2>2. /\ h \in Clients /\ In(h, waiters)
          /\ Tail(waiters) \in Seq(Clients) /\ Distinct(Tail(waiters))
          /\ \A t : In(t, Tail(waiters)) <=> In(t, waiters) /\ t # h
      BY <1>4, <2>1, Facts, TailEffect, Zenon
    <2>3. /\ waiters' = Tail(waiters) /\ locked' = locked
          /\ granted' = [[granted EXCEPT ![p] = FALSE] EXCEPT ![h] = TRUE]
          /\ ready' = [ready EXCEPT ![h] = TRUE]
      BY <1>4, <2>1, Zenon
    <2>4. h # p /\ locked /\ fut[h] = "waiting"
      BY <1>1, <1>4, <2>2, Facts, Zenon DEF IInv, UnlockedIsFree
    <2>5. TypeOK' /\ UnlockedIsFree'
      BY <2>2, <2>3, <2>4, Zenon DEF IInv, TypeOK, UnlockedIsFree
    <2>6. \A q \in Clients : Owns(q)' <=> q = h
      BY <1>2, <2>2, <2>3, <2>4, Zenon DEF IInv, TypeOK, Owns
    <2>7. OneOwner'
      BY <2>2, <2>3, <2>4, <2>6, Zenon DEF OneOwner
    <2>8. \A q \in Clients : Queued(q)' <=> In(q, waiters) /\ q # h
      BY <2>2, <2>3, Zenon DEF Queued, In
    <2>9. NobodyIsForgotten'
      <3>1. \A q \in Clients : granted'[q] <=> q = h
        BY <1>2, <2>2, <2>3, <2>4, Zenon DEF IInv, TypeOK, Owns
      <3>2. \A q \in Clients : fut'[q] = "waiting" <=> Queued(q)' \/ granted'[q]
        BY <1>1, <1>2, <2>4, <2>8, <3>1, Facts, ZenonT(60) DEF IInv, TypeOK, Owns
      <3>3. \A q \in Clients : granted'[q] => ready'[q]
        BY <2>2, <2>3, <3>1, Zenon DEF IInv, TypeOK
      <3>4. QED BY <2>2, <2>3, <2>8, <3>1, <3>2, <3>3, Zenon DEF NobodyIsForgotten, Distinct
    <2>10. QED BY <2>5, <2>7, <2>9, Zenon DEF IInv, OwnershipIsSound
  <1>5. QED BY <1>3, <1>4, Zenon

LEMMA DropGuardPreserves == ASSUME IInv, NEW p \in Clients, DropGuard(p) PROVE IInv'
  <1>1. Owns(p) /\ granted = [granted EXCEPT ![p] = FALSE]
    BY Facts, ZenonT(60) DEF DropGuard, Owns, IInv, TypeOK
  <1>2. release([granted EXCEPT ![p] = FALSE])
    BY <1>1, Zenon DEF DropGuard
  <1>3. QED BY <1>1, <1>2, releasePreserves, Zenon DEF DropGuard

LEMMA DropAcquirePreserves == ASSUME IInv, NEW p \in Clients, DropAcquire(p) PROVE IInv'
  <1>1. CASE granted[p]
    <2>1. Owns(p)
      BY <1>1, Zenon DEF Owns
    <2>2. QED BY <1>1, <2>1, releasePreserves, Zenon DEF DropAcquire
  <1>2. CASE ~granted[p]
    <2>1. /\ Dequeue(p) /\ locked' = locked /\ granted' = granted /\ ready' = ready
          /\ fut' = [fut EXCEPT ![p] = "idle"]
      BY <1>2, Zenon DEF DropAcquire
    <2>2. /\ waiters' \in Seq(Clients) /\ Distinct(waiters')
          /\ \A t : In(t, waiters') <=> In(t, waiters) /\ t # p
      <3>1. CASE Queued(p)
        <4>1. PICK i \in 1..Len(waiters) : waiters[i] = p /\ waiters' = Cut(waiters, i)
          BY <2>1, <3>1, Zenon DEF Dequeue, Cut
        <4>2. QED BY <4>1, Facts, CutIs, CutEffect, Zenon
      <3>2. CASE ~Queued(p)
        <4>1. waiters' = waiters /\ ~In(p, waiters)
          BY <2>1, <3>2, Zenon DEF Dequeue, Queued, In
        <4>2. QED BY <4>1, Facts, Zenon
      <3>3. QED BY <3>1, <3>2, Zenon
    <2>3. waiters' # <<>> => waiters # <<>>
      <3>1. waiters' # <<>> => In(waiters'[1], waiters')
        BY <2>2 DEF In
      <3>2. QED BY <2>2, <3>1 DEF In
    <2>4. TypeOK' /\ UnlockedIsFree'
      BY <2>1, <2>2, <2>3, Zenon DEF IInv, TypeOK, UnlockedIsFree
    <2>5. \A q \in Clients : Owns(q)' <=> Owns(q)
      BY <1>2, <2>1, Zenon DEF DropAcquire, IInv, TypeOK, Owns
    <2>6. OneOwner'
      BY <2>1, <2>5, Zenon DEF IInv, OwnershipIsSound, OneOwner
    <2>7. \A q \in Clients : Queued(q)' <=> In(q, waiters) /\ q # p
      BY <2>2, Zenon DEF Queued, In
    <2>8. NobodyIsForgotten'
      <3>1. \A q \in Clients : fut'[q] = "waiting" <=> Queued(q)' \/ granted'[q]
        BY <1>2, <2>1, <2>7, Facts, Zenon DEF IInv, TypeOK
      <3>2. QED BY <2>1, <2>2, <2>7, <3>1, Facts, Zenon DEF NobodyIsForgotten, Distinct
    <2>9. QED BY <2>4, <2>6, <2>8, Zenon DEF IInv, OwnershipIsSound
  <1>3. QED BY <1>1, <1>2, Zenon

LEMMA NextPreserves == ASSUME IInv, [Next]_vars PROVE IInv'
  <1>1. CASE UNCHANGED vars
    BY <1>1 DEF vars, IInv, TypeOK, OwnershipIsSound, OneOwner, NobodyIsForgotten, Queued, Owns,
       UnlockedIsFree
  <1>2. CASE Next
    BY <1>2, acquirePreserves, PollFirstPreserves, PollWaiterPreserves, DropAcquirePreserves,
       DropGuardPreserves, Zenon DEF Next, Poll
  <1>3. QED BY <1>1, <1>2, Zenon

(* The invariant holds in every state of the lock.                         *)
THEOREM Invariance == Spec => []IInv
  BY InitIInv, NextPreserves, PTL DEF Spec

(* The lock has one owner exactly while it is locked, be the owner one     *)
(* that was granted the lock and cancelled before it was polled, and       *)
(* everyone who waits is in the queue once or has been granted and woken,  *)
(* for any set of clients.                                                 *)
THEOREM Ownership == Spec => []OwnershipIsSound
<1>1. IInv => OwnershipIsSound
  BY Zenon DEF IInv
<1>2. QED BY <1>1, Invariance, PTL
-----------------------------------------------------------------------------
(* The line before and after a step, by its owner.                         *)
StepMaps == [Fair!LineNext]_(Fair!lvars)

LEMMA LineNow ==
  ASSUME IInv, NEW r \in Clients, Owns(r)
  PROVE  /\ locked /\ waiters \in Seq(Clients)
         /\ \A q \in Clients : Owns(q) <=> q = r
         /\ Line = <<r>> \o waiters
  <1>1. locked /\ waiters \in Seq(Clients) /\ \A q \in Clients : Owns(q) <=> q = r
    BY Facts, Zenon
  <1>2. Owner = r
    BY <1>1, Zenon DEF Owner
  <1>3. QED BY <1>1, <1>2, Zenon DEF Line

LEMMA LineThen ==
  ASSUME NEW r \in Clients, locked', \A q \in Clients : Owns(q)' <=> q = r
  PROVE  Line' = <<r>> \o waiters'
  <1>1. Owner' = r
    BY Zenon DEF Owner
  <1>2. QED BY <1>1, Zenon DEF Line

LEMMA LineFree ==
  ASSUME IInv, ~locked
  PROVE  Line = <<>> /\ waiters = <<>> /\ \A q \in Clients : ~Owns(q)
  BY Facts, Zenon DEF Line, IInv, UnlockedIsFree

LEMMA InitMaps == Init => Fair!LineInit
  BY Zenon DEF Init, Fair!LineInit, Line, Inside

(* A step that leaves the owner, the queue and the guards alone.           *)
LEMMA Stutter ==
  ASSUME IInv, locked' = locked, waiters' = waiters, Inside' = Inside,
         \A q \in Clients : Owns(q)' <=> Owns(q)
  PROVE  StepMaps
  <1>1. CASE locked
    <2>1. PICK r \in Clients : Owns(r)
      BY <1>1, Facts, Zenon
    <2>2. Line = <<r>> \o waiters /\ \A q \in Clients : Owns(q)' <=> q = r
      BY <2>1, LineNow, Zenon
    <2>3. Line' = <<r>> \o waiters'
      BY <1>1, <2>2, LineThen, Zenon
    <2>4. QED BY <2>2, <2>3, Zenon DEF StepMaps, Fair!lvars
  <1>2. CASE ~locked
    BY <1>2, Zenon DEF StepMaps, Fair!lvars, Line
  <1>3. QED BY <1>1, <1>2, Zenon

LEMMA acquireMaps == ASSUME IInv, NEW p \in Clients, acquire(p) PROVE StepMaps
  <1>1. locked' = locked /\ waiters' = waiters /\ Inside' = Inside
    BY Zenon DEF acquire, IInv, TypeOK, Inside
  <1>2. \A q \in Clients : Owns(q)' <=> Owns(q)
    BY Zenon DEF acquire, IInv, TypeOK, Owns
  <1>3. QED BY <1>1, <1>2, Stutter, Zenon

(* An Ask, an Enter or a Leave of p is a step of the line.                 *)
LEMMA AskMaps ==
  ASSUME NEW p \in Clients, ~Fair!Standing(p), Line' = Append(Line, p),
         Inside' = IF Line = <<>> THEN {p} ELSE Inside
  PROVE  StepMaps
  BY Zenon DEF StepMaps, Fair!LineNext, Fair!Ask

LEMMA EnterMaps ==
  ASSUME NEW p \in Clients, Line # <<>>, Head(Line) = p, Line' = Line, Inside' = {p}
  PROVE  StepMaps
  BY Zenon DEF StepMaps, Fair!LineNext, Fair!Enter

LEMMA LeaveMaps ==
  ASSUME NEW p \in Clients, NEW i \in 1..Len(Line), Line[i] = p, Line' = Cut(Line, i),
         Inside' = Inside \ {p}
  PROVE  StepMaps
  BY Zenon DEF StepMaps, Fair!LineNext, Fair!Leave, Cut
-----------------------------------------------------------------------------
(* Every step of the lock is a step of the line.                           *)

LEMMA PollFirstMaps == ASSUME IInv, NEW p \in Clients, PollFirst(p) PROVE StepMaps
  <1>1. ~In(p, waiters) /\ ~granted[p] /\ ~Owns(p)
    BY Facts, Zenon DEF PollFirst, Owns
  <1>2. CASE locked
    <2>1. waiters' = Append(waiters, p) /\ fut' = [fut EXCEPT ![p] = "waiting"] /\ locked'
      BY <1>2, Zenon DEF PollFirst
    <2>2. PICK r \in Clients : Owns(r)
      BY <1>2, Facts, Zenon
    <2>3. /\ Line = <<r>> \o waiters /\ waiters \in Seq(Clients)
          /\ \A q \in Clients : Owns(q) <=> q = r
      BY <2>2, LineNow, Zenon
    <2>4. \A q \in Clients : Owns(q)' <=> q = r
      BY <1>1, <2>1, <2>3, Zenon DEF PollFirst, IInv, TypeOK, Owns
    <2>5. Line' = <<r>> \o Append(waiters, p)
      BY <2>1, <2>4, LineThen, Zenon
    <2>6. Line' = Append(Line, p)
      BY <2>3, <2>5
    <2>7. Line # <<>> /\ ~Fair!Standing(p)
      <3>1. PICK c : c = Line
        BY Zenon
      <3>2. /\ c # <<>> /\ Len(c) = Len(waiters) + 1 /\ c[1] = r
            /\ \A j \in 1..Len(waiters) : c[j + 1] = waiters[j]
        BY <2>3, <3>1, ConsIs
      <3>3. ASSUME NEW i \in 1..Len(c), c[i] = p PROVE FALSE
        <4>1. i # 1
          BY <1>1, <2>2, <3>2, <3>3, Zenon
        <4>2. i - 1 \in 1..Len(waiters) /\ (i - 1) + 1 = i
          BY <2>3, <3>2, <4>1
        <4>3. waiters[i - 1] = p
          BY <3>2, <3>3, <4>2, Zenon
        <4>4. QED BY <1>1, <4>2, <4>3, Zenon DEF In
      <3>4. QED BY <3>1, <3>2, <3>3, Zenon DEF Fair!Standing
    <2>8. Inside' = Inside
      BY <2>1, Zenon DEF PollFirst, IInv, TypeOK, Inside
    <2>9. QED BY <2>6, <2>7, <2>8, AskMaps, Zenon
  <1>3. CASE ~locked
    <2>1. waiters' = waiters /\ fut' = [fut EXCEPT ![p] = "holding"] /\ locked'
      BY <1>3, Zenon DEF PollFirst
    <2>2. Line = <<>> /\ waiters = <<>> /\ \A q \in Clients : ~Owns(q)
      BY <1>3, LineFree, Zenon
    <2>3. \A q \in Clients : Owns(q)' <=> q = p
      BY <2>1, <2>2, Zenon DEF PollFirst, IInv, TypeOK, Owns
    <2>4. Line' = <<p>> \o waiters'
      BY <2>1, <2>3, LineThen, Zenon
    <2>5. Line' = Append(Line, p)
      BY <2>1, <2>2, <2>4
    <2>6. ~Fair!Standing(p)
      BY <2>2 DEF Fair!Standing
    <2>7. Inside' = {p}
      BY <2>1, <2>2, Zenon DEF IInv, TypeOK, Owns, Inside
    <2>8. QED BY <2>2, <2>5, <2>6, <2>7, AskMaps, Zenon
  <1>4. QED BY <1>2, <1>3, Zenon

LEMMA PollWaiterMaps == ASSUME IInv, NEW p \in Clients, PollWaiter(p) PROVE StepMaps
  <1>1. locked' = locked /\ waiters' = waiters
    BY Zenon DEF PollWaiter
  <1>2. CASE granted[p]
    <2>1. fut' = [fut EXCEPT ![p] = "holding"] /\ granted' = [granted EXCEPT ![p] = FALSE]
      BY <1>2, Zenon DEF PollWaiter
    <2>2. Owns(p)
      BY <1>2, Zenon DEF Owns
    <2>3. /\ Line = <<p>> \o waiters /\ waiters \in Seq(Clients) /\ locked
          /\ \A q \in Clients : Owns(q) <=> q = p
      BY <2>2, LineNow, Zenon
    <2>4. \A q \in Clients : Owns(q)' <=> q = p
      BY <2>1, <2>3, Zenon DEF IInv, TypeOK, Owns
    <2>5. Line' = Line
      BY <1>1, <2>3, <2>4, LineThen, Zenon
    <2>6. Line # <<>> /\ Head(Line) = p
      BY <2>3, ConsIs
    <2>7. Inside' = {p}
      BY <2>1, <2>3, Zenon DEF IInv, TypeOK, Owns, Inside
    <2>8. QED BY <2>5, <2>6, <2>7, EnterMaps, Zenon
  <1>3. CASE ~granted[p]
    <2>1. fut' = fut /\ granted' = granted
      BY <1>3, Zenon DEF PollWaiter
    <2>2. Inside' = Inside /\ \A q \in Clients : Owns(q)' <=> Owns(q)
      BY <2>1, Zenon DEF Inside, Owns
    <2>3. QED BY <1>1, <2>2, Stutter, Zenon
  <1>4. QED BY <1>2, <1>3, Zenon

(* The owner goes: the line moves up by one.                               *)
LEMMA releaseMaps ==
  ASSUME IInv, NEW p \in Clients, Owns(p), fut' = [fut EXCEPT ![p] = "idle"],
         release([granted EXCEPT ![p] = FALSE])
  PROVE  StepMaps
  <1>1. /\ Line = <<p>> \o waiters /\ waiters \in Seq(Clients) /\ locked
        /\ \A q \in Clients : Owns(q) <=> q = p
    BY LineNow, Zenon
  <1>2. Inside' = Inside \ {p}
    BY Zenon DEF IInv, TypeOK, Inside
  <1>3. 1 \in 1..Len(Line) /\ Line[1] = p /\ Cut(Line, 1) = waiters
    <2>1. Len(Line) = Len(waiters) + 1 /\ Line[1] = p
      BY <1>1, ConsIs, ZenonT(60)
    <2>2. Cut(Line, 1) = waiters
      BY <1>1, CutFirst, Zenon
    <2>3. QED BY <1>1, <2>1, <2>2
  <1>4. Line' = waiters
    <2>1. CASE waiters = <<>>
      <3>1. locked' = FALSE /\ waiters' = waiters
        BY <2>1, Zenon DEF release
      <3>2. QED BY <3>1, Zenon DEF Line
    <2>2. CASE waiters # <<>>
      <3>1. PICK h : h = Head(waiters)
        BY Zenon
      <3>2. /\ waiters' = Tail(waiters) /\ locked'
            /\ granted' = [[granted EXCEPT ![p] = FALSE] EXCEPT ![h] = TRUE]
        BY <1>1, <2>2, <3>1, Zenon DEF release
      <3>3. h \in Clients /\ In(h, waiters)
        BY <2>2, <3>1, Facts, TailEffect, Zenon
      <3>4. h # p /\ fut[h] = "waiting"
        BY <1>1, <3>3, Facts, Zenon DEF Owns
      <3>5. \A q \in Clients : Owns(q)' <=> q = h
        BY <1>1, <3>2, <3>3, <3>4, Zenon DEF IInv, TypeOK, Owns
      <3>6. Line' = <<h>> \o Tail(waiters)
        BY <3>2, <3>3, <3>5, LineThen, Zenon
      <3>7. QED BY <1>1, <2>2, <3>1, <3>6, ConsTail, Zenon
    <2>3. QED BY <2>1, <2>2, Zenon
  <1>5. QED BY <1>2, <1>3, <1>4, LeaveMaps, Zenon

LEMMA DropGuardMaps == ASSUME IInv, NEW p \in Clients, DropGuard(p) PROVE StepMaps
  <1>1. Owns(p) /\ granted = [granted EXCEPT ![p] = FALSE]
    BY Facts, Zenon DEF DropGuard, Owns, IInv, TypeOK
  <1>2. release([granted EXCEPT ![p] = FALSE])
    BY <1>1, Zenon DEF DropGuard
  <1>3. QED BY <1>1, <1>2, releaseMaps, Zenon DEF DropGuard
LEMMA DropAcquireMaps == ASSUME IInv, NEW p \in Clients, DropAcquire(p) PROVE StepMaps
  <1>1. CASE granted[p]
    <2>1. Owns(p)
      BY <1>1, Zenon DEF Owns
    <2>2. QED BY <1>1, <2>1, releaseMaps, Zenon DEF DropAcquire
  <1>2. CASE ~granted[p]
    <2>1. /\ Dequeue(p) /\ locked' = locked /\ granted' = granted
          /\ fut' = [fut EXCEPT ![p] = "idle"] /\ fut[p] # "holding"
      BY <1>2, Zenon DEF DropAcquire
    <2>2. \A q \in Clients : Owns(q)' <=> Owns(q)
      BY <2>1, Zenon DEF IInv, TypeOK, Owns
    <2>3. Inside' = Inside /\ Inside = Inside \ {p}
      BY <2>1, Zenon DEF IInv, TypeOK, Inside
    <2>4. CASE Queued(p)
      <3>1. PICK i \in 1..Len(waiters) : waiters[i] = p /\ waiters' = Cut(waiters, i)
        BY <2>1, <2>4, Zenon DEF Dequeue, Cut
      <3>2. locked
        <4>1. waiters # <<>>
          BY <3>1
        <4>2. QED BY <4>1, Zenon DEF IInv, UnlockedIsFree
      <3>3. PICK r \in Clients : Owns(r)
        BY <3>2, Facts, Zenon
      <3>4. /\ Line = <<r>> \o waiters /\ waiters \in Seq(Clients)
            /\ \A q \in Clients : Owns(q) <=> q = r
        BY <3>3, LineNow, Zenon
      <3>5. Line' = <<r>> \o Cut(waiters, i)
        BY <2>1, <2>2, <3>1, <3>2, <3>4, LineThen, Zenon
      <3>6. Line' = Cut(Line, i + 1)
        BY <3>4, <3>5, CutLater, Zenon
      <3>7. i + 1 \in 1..Len(Line) /\ Line[i + 1] = p
        <4>1. Len(Line) = Len(waiters) + 1 /\ Line[i + 1] = waiters[i]
          BY <3>4, ConsIs
        <4>2. QED BY <3>1, <3>4, <4>1
      <3>8. QED BY <2>3, <3>6, <3>7, LeaveMaps, Zenon
    <2>5. CASE ~Queued(p)
      <3>1. waiters' = waiters
        BY <2>1, <2>5, Zenon DEF Dequeue
      <3>2. QED BY <2>1, <2>2, <2>3, <3>1, Stutter, Zenon
    <2>6. QED BY <2>4, <2>5, Zenon
  <1>3. QED BY <1>1, <1>2, Zenon

LEMMA NextMaps == ASSUME IInv, [Next]_vars PROVE StepMaps
  <1>1. CASE UNCHANGED vars
    BY <1>1 DEF vars, StepMaps, Fair!lvars, Line, Owner, Owns, Inside
  <1>2. CASE Next
    BY <1>2, acquireMaps, PollFirstMaps, PollWaiterMaps, DropAcquireMaps, DropGuardMaps, Zenon
       DEF Next, Poll
  <1>3. QED BY <1>1, <1>2, Zenon

(* The lock is fair, for any set of clients: it is a line in which clients *)
(* stand in the order of their first poll of a taken lock, only the head   *)
(* of the line is ever inside, and a cancelled acquire or a dropped guard  *)
(* takes out its own client and nobody else's place.                       *)
THEOREM LockIsFair == Spec => RefinesFairLock
  <1>1. Init => Fair!LineInit
    BY InitMaps, Zenon
  <1>2. IInv /\ [Next]_vars => [Fair!LineNext]_(Fair!lvars)
    BY NextMaps, Zenon DEF StepMaps
  <1>3. QED BY <1>1, <1>2, Invariance, PTL DEF Spec, RefinesFairLock, Fair!LineSpec
-----------------------------------------------------------------------------
CbTypeOK ==
  /\ kind \in [Cbs -> {"none", "failed", "once", "recurring"}]
  /\ vpi \in [Cbs -> BOOLEAN] /\ released \in [Cbs -> BOOLEAN]
  /\ borrowed \in [Cbs -> BOOLEAN] /\ handle \in [Cbs -> BOOLEAN]
  /\ refs \in [Cbs -> Int] /\ removes \in [Cbs -> Int] /\ reclaims \in [Cbs -> Int]
  /\ stack \in Seq(Cbs)

One(b) == IF b THEN 1 ELSE 0

(* Who holds a reference: the simulator while it knows the registration,   *)
(* the handle, and a trampoline on the stack.  Of a refused registration   *)
(* nobody holds one.                                                       *)
CountIsExact ==
  \A c \in Cbs :
    kind[c] # "failed" => refs[c] = One(vpi[c]) + One(handle[c]) + One(In(c, stack))

(* The simulator knows what was registered and not released, and every     *)
(* release removes and reclaims.                                           *)
ReleaseIsExact ==
  \A c \in Cbs :
    /\ vpi[c] <=> kind[c] \notin {"none", "failed"} /\ ~released[c]
    /\ removes[c] = One(released[c]) /\ reclaims[c] = One(released[c])
    /\ kind[c] \in {"none", "failed"} => ~released[c] /\ ~handle[c] /\ ~In(c, stack)

(* No registration has two trampolines on the stack: a one-shot callback   *)
(* is released before its closure runs, a recurring one is borrowed while  *)
(* it runs.                                                                *)
OneTrampoline ==
  /\ Distinct(stack)
  /\ \A c \in Cbs :
       /\ kind[c] = "once" /\ In(c, stack) => released[c]
       /\ borrowed[c] <=> kind[c] = "recurring" /\ In(c, stack)

(* The inductive invariant.                                                *)
CbInv == CbTypeOK /\ CountIsExact /\ ReleaseIsExact /\ OneTrampoline
-----------------------------------------------------------------------------
LEMMA InitCbInv == ASSUME CbInit PROVE CbInv
  <1>1. stack = <<>> /\ stack \in Seq(Cbs) /\ Distinct(stack) /\ \A c : ~In(c, stack)
    BY DEF CbInit, In, Distinct
  <1>2. CbTypeOK
    <2>1. /\ vpi \in [Cbs -> BOOLEAN] /\ released \in [Cbs -> BOOLEAN]
          /\ borrowed \in [Cbs -> BOOLEAN] /\ handle \in [Cbs -> BOOLEAN]
      BY Zenon DEF CbInit
    <2>2. /\ kind \in [Cbs -> {"none", "failed", "once", "recurring"}]
          /\ refs \in [Cbs -> Int] /\ removes \in [Cbs -> Int] /\ reclaims \in [Cbs -> Int]
      BY DEF CbInit
    <2>3. QED BY <1>1, <2>1, <2>2, Zenon DEF CbTypeOK
  <1>3. CountIsExact
    <2> SUFFICES ASSUME NEW c \in Cbs
                 PROVE  refs[c] = One(vpi[c]) + One(handle[c]) + One(In(c, stack))
      BY Zenon DEF CountIsExact
    <2>1. refs[c] = 0 /\ ~vpi[c] /\ ~handle[c] /\ ~In(c, stack)
      BY <1>1, Zenon DEF CbInit
    <2>2. QED BY <2>1 DEF One
  <1>4. ReleaseIsExact
    BY <1>1, Zenon DEF CbInit, ReleaseIsExact, One
  <1>5. OneTrampoline
    BY <1>1, Zenon DEF CbInit, OneTrampoline
  <1>6. QED BY <1>2, <1>3, <1>4, <1>5, Zenon DEF CbInv

LEMMA registerPreserves ==
  ASSUME CbInv, NEW c \in Cbs, NEW k \in {"once", "recurring"}, register(c, k)
  PROVE  CbInv'
  <1>1. ~released[c] /\ ~handle[c] /\ ~In(c, stack) /\ stack' = stack
    BY Zenon DEF register, CbInv, ReleaseIsExact
  <1>2. CbTypeOK'
    <2>1. vpi' \in [Cbs -> BOOLEAN] /\ handle' \in [Cbs -> BOOLEAN]
      BY Zenon DEF register, CbInv, CbTypeOK
    <2>2. QED BY <2>1 DEF register, CbInv, CbTypeOK
  <1>3. CountIsExact'
    BY <1>1 DEF register, CbInv, CbTypeOK, CountIsExact, One
  <1>4. ReleaseIsExact'
    BY <1>1 DEF register, CbInv, CbTypeOK, ReleaseIsExact, One
  <1>5. OneTrampoline'
    BY <1>1, Zenon DEF register, CbInv, CbTypeOK, OneTrampoline
  <1>6. QED BY <1>2, <1>3, <1>4, <1>5, Zenon DEF CbInv

LEMMA register_failsPreserves ==
  ASSUME CbInv, NEW c \in Cbs, register_fails(c) PROVE CbInv'
  <1>1. /\ kind[c] = "none" /\ kind' = [kind EXCEPT ![c] = "failed"]
        /\ refs' = [refs EXCEPT ![c] = 1]
        /\ vpi' = vpi /\ released' = released /\ borrowed' = borrowed /\ handle' = handle
        /\ stack' = stack /\ removes' = removes /\ reclaims' = reclaims
    BY Zenon DEF register_fails
  <1>2. CbTypeOK'
    BY <1>1 DEF CbInv, CbTypeOK
  <1>3. CountIsExact'
    BY <1>1 DEF CbInv, CbTypeOK, CountIsExact
  <1>4. ReleaseIsExact'
    BY <1>1 DEF CbInv, CbTypeOK, ReleaseIsExact
  <1>5. OneTrampoline'
    BY <1>1, Zenon DEF CbInv, CbTypeOK, OneTrampoline
  <1>6. QED BY <1>2, <1>3, <1>4, <1>5, Zenon DEF CbInv

LEMMA FireOncePreserves == ASSUME CbInv, NEW c \in Cbs, FireOnce(c) PROVE CbInv'
  <1>1. ~In(c, stack) /\ vpi[c]
    BY Zenon DEF FireOnce, Called, CbInv, OneTrampoline
  <1>2. /\ stack' \in Seq(Cbs) /\ Distinct(stack')
        /\ \A t : In(t, stack') <=> In(t, stack) \/ t = c
    BY <1>1, ConsEffect, Zenon DEF FireOnce, CbInv, CbTypeOK, OneTrampoline
  <1>3. /\ released' = [released EXCEPT ![c] = TRUE] /\ vpi' = [vpi EXCEPT ![c] = FALSE]
        /\ removes' = [removes EXCEPT ![c] = @ + 1] /\ reclaims' = [reclaims EXCEPT ![c] = @ + 1]
        /\ refs' = refs
        /\ kind' = kind /\ borrowed' = borrowed /\ handle' = handle
        /\ kind[c] = "once" /\ ~released[c]
    BY DEF FireOnce, CbInv, CbTypeOK
  <1>4. CbTypeOK'
    <2>1. vpi' \in [Cbs -> BOOLEAN] /\ released' \in [Cbs -> BOOLEAN]
      BY <1>3, Zenon DEF CbInv, CbTypeOK
    <2>2. QED BY <1>2, <1>3, <2>1 DEF CbInv, CbTypeOK
  <1>5. CountIsExact'
    BY <1>1, <1>2, <1>3, SMTT(60) DEF CbInv, CbTypeOK, CountIsExact, One
  <1>6. ReleaseIsExact'
    BY <1>1, <1>2, <1>3 DEF CbInv, CbTypeOK, ReleaseIsExact, One
  <1>7. OneTrampoline'
    BY <1>1, <1>2, <1>3, Zenon DEF CbInv, CbTypeOK, OneTrampoline
  <1>8. QED BY <1>4, <1>5, <1>6, <1>7, Zenon DEF CbInv

LEMMA FireRecurringPreserves == ASSUME CbInv, NEW c \in Cbs, FireRecurring(c) PROVE CbInv'
  <1>1. CASE borrowed[c]
    BY <1>1 DEF FireRecurring, CbInv, CbTypeOK, CountIsExact, ReleaseIsExact, OneTrampoline
  <1>2. CASE ~borrowed[c]
    <2>1. ~In(c, stack)
      BY <1>2, Zenon DEF FireRecurring, CbInv, OneTrampoline
    <2>2. /\ stack' \in Seq(Cbs) /\ Distinct(stack')
          /\ \A t : In(t, stack') <=> In(t, stack) \/ t = c
      <3>1. stack' = <<c>> \o stack
        BY <1>2, Zenon DEF FireRecurring
      <3>2. QED BY <2>1, <3>1, ConsEffect, Zenon DEF CbInv, CbTypeOK, OneTrampoline
    <2>3. /\ borrowed' = [borrowed EXCEPT ![c] = TRUE] /\ refs' = [refs EXCEPT ![c] = @ + 1]
          /\ kind' = kind /\ vpi' = vpi /\ released' = released /\ handle' = handle
          /\ removes' = removes /\ reclaims' = reclaims /\ kind[c] = "recurring"
      BY <1>2, Zenon DEF FireRecurring
    <2>4. CbTypeOK'
      <3>1. borrowed' \in [Cbs -> BOOLEAN]
        BY <2>3, Zenon DEF CbInv, CbTypeOK
      <3>2. QED BY <2>2, <2>3, <3>1 DEF CbInv, CbTypeOK
    <2>5. CountIsExact'
      <3> SUFFICES ASSUME NEW d \in Cbs, kind[d] # "failed"
                   PROVE  refs'[d] = One(vpi[d]) + One(handle[d]) + One(In(d, stack'))
        BY <2>3, Zenon DEF CountIsExact
      <3>1. refs[d] = One(vpi[d]) + One(handle[d]) + One(In(d, stack))
        BY Zenon DEF CbInv, CountIsExact
      <3>2. CASE d = c
        <4>1. refs'[d] = refs[d] + 1 /\ One(In(d, stack)) = 0 /\ One(In(d, stack')) = 1
          BY <2>1, <2>2, <2>3, <3>2, Zenon DEF CbInv, CbTypeOK, One
        <4>2. One(vpi[d]) \in Int /\ One(handle[d]) \in Int
          BY DEF One
        <4>3. QED BY <3>1, <4>1, <4>2
      <3>3. CASE d # c
        <4>1. refs'[d] = refs[d] /\ (In(d, stack') <=> In(d, stack))
          BY <2>2, <2>3, <3>3, Zenon DEF CbInv, CbTypeOK
        <4>2. QED BY <3>1, <4>1, Zenon DEF One
      <3>4. QED BY <3>2, <3>3, Zenon
    <2>6. ReleaseIsExact'
      BY <2>1, <2>2, <2>3, Zenon DEF CbInv, CbTypeOK, ReleaseIsExact, One
    <2>7. OneTrampoline'
      BY <2>1, <2>2, <2>3, Zenon DEF CbInv, CbTypeOK, OneTrampoline
    <2>8. QED BY <2>4, <2>5, <2>6, <2>7, Zenon DEF CbInv
  <1>3. QED BY <1>1, <1>2, Zenon

LEMMA ReturnPreserves == ASSUME CbInv, Return PROVE CbInv'
  <1>1. PICK h : h = Head(stack)
    BY Zenon
  <1>2. /\ h \in Cbs /\ In(h, stack) /\ stack' \in Seq(Cbs) /\ Distinct(stack')
        /\ \A t : In(t, stack') <=> In(t, stack) /\ t # h
    BY <1>1, TailEffect, Zenon DEF Return, CbInv, CbTypeOK, OneTrampoline
  <1>3. /\ borrowed' = [borrowed EXCEPT ![h] = FALSE] /\ refs' = [refs EXCEPT ![h] = @ - 1]
        /\ kind' = kind /\ vpi' = vpi /\ released' = released /\ handle' = handle
        /\ removes' = removes /\ reclaims' = reclaims
    BY <1>1, Zenon DEF Return
  <1>4. CbTypeOK'
    <2>1. borrowed' \in [Cbs -> BOOLEAN]
      BY <1>3, Zenon DEF CbInv, CbTypeOK
    <2>2. QED BY <1>2, <1>3, <2>1 DEF CbInv, CbTypeOK
  <1>5. CountIsExact'
    <2> SUFFICES ASSUME NEW d \in Cbs, kind[d] # "failed"
                 PROVE  refs'[d] = One(vpi[d]) + One(handle[d]) + One(In(d, stack'))
      BY <1>3, Zenon DEF CountIsExact
    <2>1. refs[d] = One(vpi[d]) + One(handle[d]) + One(In(d, stack))
      BY Zenon DEF CbInv, CountIsExact
    <2>2. CASE d = h
      <3>1. refs'[d] = refs[d] - 1 /\ One(In(d, stack)) = 1 /\ One(In(d, stack')) = 0
        BY <1>2, <1>3, <2>2, Zenon DEF CbInv, CbTypeOK, One
      <3>2. One(vpi[d]) \in Int /\ One(handle[d]) \in Int
        BY DEF One
      <3>3. QED BY <2>1, <3>1, <3>2
    <2>3. CASE d # h
      <3>1. refs'[d] = refs[d] /\ (In(d, stack') <=> In(d, stack))
        BY <1>2, <1>3, <2>3, Zenon DEF CbInv, CbTypeOK
      <3>2. QED BY <2>1, <3>1, Zenon DEF One
    <2>4. QED BY <2>2, <2>3, Zenon
  <1>6. ReleaseIsExact'
    BY <1>2, <1>3, Zenon DEF CbInv, ReleaseIsExact, One
  <1>7. OneTrampoline'
    BY <1>2, <1>3, Zenon DEF CbInv, CbTypeOK, OneTrampoline
  <1>8. QED BY <1>4, <1>5, <1>6, <1>7, Zenon DEF CbInv

LEMMA DropHandlePreserves == ASSUME CbInv, NEW c \in Cbs, DropHandle(c) PROVE CbInv'
  <1>1. /\ handle[c] /\ handle' = [handle EXCEPT ![c] = FALSE]
        /\ kind' = kind /\ borrowed' = borrowed /\ stack' = stack
    BY Zenon DEF DropHandle
  <1>2. handle' \in [Cbs -> BOOLEAN]
    BY <1>1, Zenon DEF CbInv, CbTypeOK
  <1>3. CASE released[c]
    <2>1. /\ refs' = [refs EXCEPT ![c] = @ - 1]
          /\ vpi' = vpi /\ released' = released /\ removes' = removes /\ reclaims' = reclaims
      BY <1>3, Zenon DEF DropHandle
    <2>2. CbTypeOK'
      BY <1>1, <1>2, <2>1 DEF CbInv, CbTypeOK
    <2>3. CountIsExact'
      BY <1>1, <2>1 DEF CbInv, CbTypeOK, CountIsExact, One
    <2>4. ReleaseIsExact' /\ OneTrampoline'
      BY <1>1, <2>1, Zenon DEF CbInv, CbTypeOK, ReleaseIsExact, OneTrampoline, One
    <2>5. QED BY <2>2, <2>3, <2>4, Zenon DEF CbInv
  <1>4. CASE ~released[c]
    <2>1. /\ released' = [released EXCEPT ![c] = TRUE] /\ vpi' = [vpi EXCEPT ![c] = FALSE]
          /\ removes' = [removes EXCEPT ![c] = @ + 1]
          /\ reclaims' = [reclaims EXCEPT ![c] = @ + 1]
          /\ refs' = [refs EXCEPT ![c] = @ - 2]
      BY <1>4, Zenon DEF DropHandle
    <2>2. vpi[c]
      BY <1>1, <1>4, Zenon DEF CbInv, ReleaseIsExact
    <2>3. CbTypeOK'
      <3>1. vpi' \in [Cbs -> BOOLEAN] /\ released' \in [Cbs -> BOOLEAN]
        BY <2>1, Zenon DEF CbInv, CbTypeOK
      <3>2. QED BY <1>1, <1>2, <2>1, <3>1 DEF CbInv, CbTypeOK
    <2>4. CountIsExact'
      BY <1>1, <2>1, <2>2, SMTT(60) DEF CbInv, CbTypeOK, CountIsExact, One
    <2>5. ReleaseIsExact'
      BY <1>1, <1>4, <2>1, <2>2 DEF CbInv, CbTypeOK, ReleaseIsExact, One
    <2>6. OneTrampoline'
      BY <1>1, <2>1, Zenon DEF CbInv, CbTypeOK, OneTrampoline
    <2>7. QED BY <2>3, <2>4, <2>5, <2>6, Zenon DEF CbInv
  <1>5. QED BY <1>3, <1>4, Zenon

LEMMA forgetPreserves == ASSUME CbInv, NEW c \in Cbs, forget(c) PROVE CbInv'
  <1>1. CbTypeOK'
    <2>1. handle' \in [Cbs -> BOOLEAN]
      BY Zenon DEF forget, CbInv, CbTypeOK
    <2>2. QED BY <2>1 DEF forget, CbInv, CbTypeOK
  <1>2. CountIsExact'
    BY DEF forget, CbInv, CbTypeOK, CountIsExact, One
  <1>3. ReleaseIsExact' /\ OneTrampoline'
    BY Zenon DEF forget, CbInv, CbTypeOK, ReleaseIsExact, OneTrampoline, One
  <1>4. QED BY <1>1, <1>2, <1>3, Zenon DEF CbInv

LEMMA CbNextPreserves == ASSUME CbInv, [CbNext]_cbVars PROVE CbInv'
  <1>1. CASE UNCHANGED cbVars
    BY <1>1, Zenon DEF cbVars, CbInv, CbTypeOK, CountIsExact, ReleaseIsExact, OneTrampoline
  <1>2. CASE CbNext
    BY <1>2, registerPreserves, register_failsPreserves, FireOncePreserves,
       FireRecurringPreserves, ReturnPreserves,
       DropHandlePreserves, forgetPreserves, Zenon DEF CbNext, Registers
  <1>3. QED BY <1>1, <1>2, Zenon

(* The invariant holds in every state of the callbacks.                    *)
THEOREM ReferencesAreCounted == CbSpec => []CbInv
  BY InitCbInv, CbNextPreserves, PTL DEF CbSpec

(* However callbacks fire, nest, and have their handles dropped, from      *)
(* inside their own closures too, the simulator's reference is given back  *)
(* at most once, nobody who can reach a registration finds it freed, and a *)
(* released one without a handle is freed when its trampoline returns.     *)
THEOREM Balance == CbSpec => []ReferencesBalance
  <1>1. CbInv => ReferencesBalance
    <2> SUFFICES ASSUME CbInv PROVE ReferencesBalance
      BY Zenon
    <2>1. \A c \in Cbs : OnStack(c) <=> In(c, stack)
      BY Zenon DEF OnStack, In
    <2>2. ReclaimedOnce
      <3> SUFFICES ASSUME NEW c \in Cbs PROVE reclaims[c] <= 1 /\ removes[c] <= 1
        BY Zenon DEF ReclaimedOnce
      <3>1. reclaims[c] \in {0, 1} /\ removes[c] \in {0, 1}
        BY Zenon DEF CbInv, ReleaseIsExact, One
      <3>2. PICK m, n : m = reclaims[c] /\ n = removes[c]
        BY Zenon
      <3>3. m \in {0, 1} /\ n \in {0, 1} => m <= 1 /\ n <= 1
        OBVIOUS
      <3>4. QED BY <3>1, <3>2, <3>3, Zenon
    <2>3. NoDanglingCallback
      BY <2>1 DEF CbInv, CountIsExact, ReleaseIsExact, NoDanglingCallback, One
    <2>4. NoLeakedCallback
      BY <2>1 DEF CbInv, CountIsExact, ReleaseIsExact, NoLeakedCallback, One
    <2>5. QED BY <2>2, <2>3, <2>4, Zenon DEF ReferencesBalance
  <1>2. QED BY <1>1, ReferencesAreCounted, PTL
=============================================================================
