---------------------------- MODULE PhaseProofs -----------------------------
(* The phase hub keeps its promises to any tasks that wait for phases and  *)
(* write signals, inside and outside of them, in any order.                *)
EXTENDS Phase, TLAPS

(* A list of pairs, each giving a value to the argument it names, that     *)
(* turns the function f into g on D; no two pairs have the same argument.  *)
Settles(q, D, f, g) ==
  /\ \A i, j \in 1..Len(q) : q[i][1] = q[j][1] => i = j
  /\ \A d \in D :
       \/ \E i \in 1..Len(q) : q[i][1] = d /\ q[i][2] = g[d]
       \/ f[d] = g[d] /\ \A i \in 1..Len(q) : q[i][1] # d

Names(q, s) == \E i \in 1..Len(q) : q[i][1] = s

(* The pair for s is replaced where it is, or comes last.                  *)
Replace(q, s, v) ==
  IF \E i \in DOMAIN q : q[i][1] = s
    THEN [i \in DOMAIN q |-> IF q[i][1] = s THEN <<s, v>> ELSE q[i]]
    ELSE Append(q, <<s, v>>)

(* What the replacement looks like.                                        *)
Replaced(u, q, s, v) ==
  IF \E i \in 1..Len(q) : q[i][1] = s
    THEN Len(u) = Len(q) /\ \A i \in 1..Len(q) : u[i] = IF q[i][1] = s THEN <<s, v>> ELSE q[i]
    ELSE /\ Len(u) = Len(q) + 1 /\ u[Len(q) + 1] = <<s, v>>
         /\ \A i \in 1..Len(q) : u[i] = q[i]

LEMMA AppendIs ==
  ASSUME NEW S, NEW q \in Seq(S), NEW e \in S
  PROVE  /\ Append(q, e) \in Seq(S) /\ Len(Append(q, e)) = Len(q) + 1
         /\ Append(q, e)[Len(q) + 1] = e /\ \A i \in 1..Len(q) : Append(q, e)[i] = q[i]
  OBVIOUS

LEMMA MapIs ==
  ASSUME NEW S, NEW q \in Seq(S), NEW u, u = [i \in 1..Len(q) |-> u[i]],
         \A i \in 1..Len(q) : u[i] \in S
  PROVE  u \in Seq(S) /\ Len(u) = Len(q)
  OBVIOUS

LEMMA ReplaceIs ==
  ASSUME NEW D, NEW V, NEW s \in D, NEW v \in V, NEW q \in Seq(D \X V), NEW u, u = Replace(q, s, v)
  PROVE  u \in Seq(D \X V) /\ Replaced(u, q, s, v)
  <1>1. PICK S, e : S = D \X V /\ e = <<s, v>>
    BY Zenon
  <1>2. e \in S /\ q \in Seq(S) /\ DOMAIN q = 1..Len(q)
    BY <1>1
  <1>3. \A i \in 1..Len(q) : q[i] \in S
    BY <1>2
  <1>4. CASE \E i \in 1..Len(q) : q[i][1] = s
    <2>1. u = [i \in 1..Len(q) |-> IF q[i][1] = s THEN e ELSE q[i]]
      BY <1>1, <1>2, <1>4, Zenon DEF Replace
    <2>2. u = [i \in 1..Len(q) |-> u[i]]
      BY <2>1, Zenon
    <2>3. \A i \in 1..Len(q) : u[i] = IF q[i][1] = s THEN e ELSE q[i]
      BY <2>1, Zenon
    <2>4. \A i \in 1..Len(q) : u[i] \in S
      BY <1>2, <1>3, <2>3, Zenon
    <2>5. u \in Seq(S) /\ Len(u) = Len(q)
      BY <1>2, <2>2, <2>4, MapIs
    <2>6. QED BY <1>1, <1>4, <2>3, <2>5, Zenon DEF Replaced
  <1>5. CASE ~ \E i \in 1..Len(q) : q[i][1] = s
    <2>1. u = Append(q, e)
      BY <1>1, <1>2, <1>5, Zenon DEF Replace
    <2>2. /\ u \in Seq(S) /\ Len(u) = Len(q) + 1
          /\ u[Len(q) + 1] = e /\ \A i \in 1..Len(q) : u[i] = q[i]
      BY <1>2, <2>1, AppendIs
    <2>3. QED BY <1>1, <1>5, <2>2, Zenon DEF Replaced
  <1>6. QED BY <1>4, <1>5, Zenon

(* Carrying out the first pair leaves the others.                          *)
LEMMA SettleFirst ==
  ASSUME NEW D, NEW V, NEW q \in Seq(D \X V), q # <<>>, NEW f, NEW g, NEW h, Settles(q, D, f, g),
         \A r \in D : h[r] = IF r = q[1][1] THEN q[1][2] ELSE f[r]
  PROVE  Settles(Tail(q), D, h, g)
  <1>1. PICK u : u = Tail(q)
    BY Zenon
  <1>2. /\ Len(u) = Len(q) - 1 /\ Len(q) \in Nat /\ 1 \in 1..Len(q)
        /\ \A i \in 1..Len(u) : u[i] = q[i + 1] /\ i + 1 \in 1..Len(q)
    BY <1>1
  <1>3. ASSUME NEW i \in 1..Len(u), NEW j \in 1..Len(u), u[i][1] = u[j][1] PROVE i = j
    <2>1. i + 1 \in 1..Len(q) /\ j + 1 \in 1..Len(q) /\ q[i + 1][1] = q[j + 1][1]
      BY <1>2, <1>3, Zenon
    <2>2. i + 1 = j + 1
      BY <2>1, Zenon DEF Settles
    <2>3. QED BY <2>2
  <1>4. ASSUME NEW s \in D
        PROVE  \/ \E i \in 1..Len(u) : u[i][1] = s /\ u[i][2] = g[s]
               \/ h[s] = g[s] /\ \A i \in 1..Len(u) : u[i][1] # s
    <2>1. CASE s = q[1][1]
      <3>1. q[1][2] = g[s]
        BY <1>2, <2>1, Zenon DEF Settles
      <3>2. ASSUME NEW i \in 1..Len(u), u[i][1] = s PROVE FALSE
        <4>1. i + 1 \in 1..Len(q) /\ 1 \in 1..Len(q) /\ q[i + 1][1] = q[1][1]
          BY <1>2, <2>1, <3>2, Zenon
        <4>2. i + 1 = 1
          BY <4>1, Zenon DEF Settles
        <4>3. QED BY <4>2
      <3>3. QED BY <2>1, <3>1, <3>2, Zenon
    <2>2. CASE s # q[1][1] /\ \E i \in 1..Len(q) : q[i][1] = s /\ q[i][2] = g[s]
      <3>1. PICK i \in 1..Len(q) : q[i][1] = s /\ q[i][2] = g[s]
        BY <2>2, Zenon
      <3>2. i - 1 \in 1..Len(u) /\ u[i - 1] = q[i]
        BY <1>2, <2>2, <3>1
      <3>3. QED BY <3>1, <3>2, Zenon
    <2>3. CASE s # q[1][1] /\ f[s] = g[s] /\ \A i \in 1..Len(q) : q[i][1] # s
      BY <1>2, <2>3, ZenonT(60)
    <2>4. QED BY <2>1, <2>2, <2>3, Zenon DEF Settles
  <1>5. QED BY <1>1, <1>3, <1>4, ZenonT(60) DEF Settles

(* Deciding s once more: the pair for s is replaced, or a new one comes last.*)
LEMMA SettleLater ==
  ASSUME NEW D, NEW V, NEW s \in D, NEW v \in V, NEW q \in Seq(D \X V), NEW f, NEW g, NEW h,
         Settles(q, D, f, g), \A r \in D : h[r] = IF r = s THEN v ELSE g[r]
  PROVE  Settles(Replace(q, s, v), D, f, h)
  <1>0. PICK u : u = Replace(q, s, v)
    BY Zenon
  <1>1. Replaced(u, q, s, v)
    BY <1>0, ReplaceIs, Zenon
  <1>2. Len(q) \in Nat
    OBVIOUS
  <1>3. \A r \in D : h[r] = IF r = s THEN v ELSE g[r]
    BY Zenon
  <1>4. \A i, j \in 1..Len(q) : q[i][1] = q[j][1] => i = j
    BY <1>2, Zenon DEF Settles
  <1>5. \A r \in D :
          \/ \E i \in 1..Len(q) : q[i][1] = r /\ q[i][2] = g[r]
          \/ f[r] = g[r] /\ \A i \in 1..Len(q) : q[i][1] # r
    BY <1>2, Zenon DEF Settles
  <1>7. CASE \E i \in 1..Len(q) : q[i][1] = s
    <2>2. Len(u) = Len(q)
      BY <1>1, <1>7, Zenon DEF Replaced
    <2>3. \A i \in 1..Len(q) : u[i] = IF q[i][1] = s THEN <<s, v>> ELSE q[i]
      BY <1>1, <1>7, Zenon DEF Replaced
    <2>4. \A i \in 1..Len(q) : u[i][1] = q[i][1]
      BY <2>3
    <2>5. \A i, j \in 1..Len(u) : u[i][1] = u[j][1] => i = j
      BY <1>4, <2>2, <2>4, Zenon
    <2>6. ASSUME NEW r \in D
          PROVE  \/ \E i \in 1..Len(u) : u[i][1] = r /\ u[i][2] = h[r]
                 \/ f[r] = h[r] /\ \A i \in 1..Len(u) : u[i][1] # r
      <3>1. CASE r = s
        <4>1. PICK i \in 1..Len(q) : q[i][1] = s
          BY <1>7, Zenon
        <4>2. u[i] = <<s, v>>
          BY <2>3, <4>1, Zenon
        <4>3. u[i][1] = r /\ u[i][2] = h[r]
          BY <1>3, <3>1, <4>2
        <4>4. QED BY <2>2, <4>1, <4>3, Zenon
      <3>2. CASE r # s
        <4>1. h[r] = g[r]
          BY <1>3, <3>2, Zenon
        <4>2. CASE \E i \in 1..Len(q) : q[i][1] = r /\ q[i][2] = g[r]
          <5>1. PICK i \in 1..Len(q) : q[i][1] = r /\ q[i][2] = g[r]
            BY <4>2, Zenon
          <5>2. u[i] = q[i]
            BY <2>3, <3>2, <5>1, Zenon
          <5>3. QED BY <2>2, <4>1, <5>1, <5>2, Zenon
        <4>3. CASE f[r] = g[r] /\ \A i \in 1..Len(q) : q[i][1] # r
          BY <2>2, <2>4, <4>1, <4>3, Zenon
        <4>4. QED BY <1>5, <4>2, <4>3, Zenon
      <3>3. QED BY <3>1, <3>2, Zenon
    <2>7. QED BY <1>0, <2>5, <2>6, Zenon DEF Settles
  <1>8. CASE ~ \E i \in 1..Len(q) : q[i][1] = s
    <2>2. /\ Len(u) = Len(q) + 1 /\ u[Len(q) + 1] = <<s, v>>
          /\ \A i \in 1..Len(q) : u[i] = q[i]
      BY <1>1, <1>8, Zenon DEF Replaced
    <2>3. u[Len(q) + 1][1] = s /\ u[Len(q) + 1][2] = v
      BY <2>2
    <2>4. ASSUME NEW i \in 1..Len(u), NEW j \in 1..Len(u), u[i][1] = u[j][1] PROVE i = j
      <3>1. CASE i \in 1..Len(q) /\ j \in 1..Len(q)
        BY <1>4, <2>2, <2>4, <3>1, Zenon
      <3>2. CASE i = Len(q) + 1 /\ j \in 1..Len(q)
        BY <1>8, <2>2, <2>3, <2>4, <3>2, Zenon
      <3>3. CASE j = Len(q) + 1 /\ i \in 1..Len(q)
        BY <1>8, <2>2, <2>3, <2>4, <3>3, Zenon
      <3>4. CASE i = Len(q) + 1 /\ j = Len(q) + 1
        BY <3>4, Zenon
      <3>5. /\ i \in 1..Len(q) \/ i = Len(q) + 1
            /\ j \in 1..Len(q) \/ j = Len(q) + 1
        BY <1>2, <2>2
      <3>6. QED BY <3>1, <3>2, <3>3, <3>4, <3>5, Zenon
    <2>5. ASSUME NEW r \in D
          PROVE  \/ \E i \in 1..Len(u) : u[i][1] = r /\ u[i][2] = h[r]
                 \/ f[r] = h[r] /\ \A i \in 1..Len(u) : u[i][1] # r
      <3>1. CASE r = s
        <4>1. Len(q) + 1 \in 1..Len(u)
          BY <1>2, <2>2
        <4>2. QED BY <1>3, <2>3, <3>1, <4>1, Zenon
      <3>2. CASE r # s
        <4>1. h[r] = g[r]
          BY <1>3, <3>2, Zenon
        <4>2. CASE \E i \in 1..Len(q) : q[i][1] = r /\ q[i][2] = g[r]
          <5>1. PICK i \in 1..Len(q) : q[i][1] = r /\ q[i][2] = g[r]
            BY <4>2, Zenon
          <5>2. u[i] = q[i] /\ i \in 1..Len(u)
            BY <1>2, <2>2, <5>1
          <5>3. QED BY <4>1, <5>1, <5>2, Zenon
        <4>3. CASE f[r] = g[r] /\ \A i \in 1..Len(q) : q[i][1] # r
          <5>1. ASSUME NEW i \in 1..Len(u), u[i][1] = r PROVE FALSE
            <6>1. i \in 1..Len(q) \/ i = Len(q) + 1
              BY <1>2, <2>2
            <6>2. QED BY <2>2, <2>3, <3>2, <4>3, <5>1, <6>1, Zenon
          <5>2. QED BY <4>1, <4>3, <5>1, Zenon
        <4>4. QED BY <1>5, <4>2, <4>3, Zenon
      <3>3. QED BY <3>1, <3>2, Zenon
    <2>6. QED BY <1>0, <2>4, <2>5, Zenon DEF Settles
  <1>9. QED BY <1>7, <1>8, Zenon

(* Giving s a value beside the list: it lasts if no pair names s.          *)
LEMMA SettleOver ==
  ASSUME NEW D, NEW s \in D, NEW q, NEW f, NEW g, NEW h, NEW k, Settles(q, D, f, g),
         \A r \in D : r # s => h[r] = f[r],
         \A r \in D : k[r] = IF r = s /\ ~Names(q, s) THEN h[s] ELSE g[r]
  PROVE  Settles(q, D, h, k)
  <1>1. ASSUME NEW r \in D
        PROVE  \/ \E i \in 1..Len(q) : q[i][1] = r /\ q[i][2] = k[r]
               \/ h[r] = k[r] /\ \A i \in 1..Len(q) : q[i][1] # r
    <2>1. CASE \E i \in 1..Len(q) : q[i][1] = r /\ q[i][2] = g[r]
      BY <2>1 DEF Names
    <2>2. CASE f[r] = g[r] /\ \A i \in 1..Len(q) : q[i][1] # r
      BY <2>2, Zenon DEF Names
    <2>3. QED BY <2>1, <2>2, Zenon DEF Settles
  <1>2. QED BY <1>1, Zenon DEF Settles
-----------------------------------------------------------------------------
TypeOK ==
  /\ waiters \in [Hubs -> SUBSET Tasks]
  /\ await \in [Tasks -> Kinds \cup {"nothing", "dead"}]
  /\ fired \in [Tasks -> BOOLEAN] /\ ready \in [Tasks -> BOOLEAN]
  /\ sigval \in [Signals -> Values] /\ lastSet \in [Signals -> Values]
  /\ writes \in Seq(Signals \X Values) /\ batch \in Seq(Signals \X Values)

(* The hub's lists hold the waits that are wanted and have not ended.      *)
ListsAreTrue ==
  \A k \in Hubs, p \in Tasks : p \in waiters[k] => await[p] = k /\ ~fired[p]

(* Tasks run inside callbacks only, and the phase is that of the callback: *)
(* a ReadWrite callback has taken the writes, and in the ReadOnly region   *)
(* there is only the ReadOnly callback.                                    *)
CallbackFits ==
  /\ where \in {"sim", "apply"} => NoneReady
  /\ where \in {"apply", "nested"} => phase = "ReadWrite" /\ region = "active"
  /\ where = "sim" => phase = "Normal"
  /\ phase = "ReadWrite" => writes = <<>>
  /\ batch # <<>> => where \in {"apply", "nested"}
  /\ region = "ro" => ~due /\ (where = "drain" => phase = "ReadOnly")

(* A write for each signal at most; a signal without one has the value     *)
(* last given to it, and one with a write is about to get it.              *)
Shows(q) == Settles(q, Signals, sigval, lastSet)

(* Where edges come late no task runs before the batch is applied.         *)
LateFits ==
  ~sync => /\ where # "nested"
           /\ where = "apply" => fresh = {}
           /\ batch = <<>> => Shows(writes)
           /\ batch # <<>> => Shows(batch)

(* The inductive invariant.                                                *)
IInv == TypeOK /\ ListsAreTrue /\ NothingIsForgotten /\ CallbackFits /\ LateFits

-----------------------------------------------------------------------------
(* Firing futures wakes exactly their tasks.                               *)
LEMMA FireEffect ==
  ASSUME TypeOK, NEW W, Fire(W)
  PROVE  /\ fired' \in [Tasks -> BOOLEAN] /\ ready' \in [Tasks -> BOOLEAN]
         /\ \A p \in Tasks : (fired'[p] <=> fired[p] \/ p \in W) /\ (ready'[p] <=> ready[p] \/ p \in W)
  BY Zenon DEF Fire, TypeOK

(* A write inside a poll wakes watchers of its signal, and nobody else.    *)
LEMMA PutEffect ==
  ASSUME TypeOK, NEW s \in Signals, NEW v \in Values, Put(s, v)
  PROVE  /\ fired' \in [Tasks -> BOOLEAN] /\ ready' \in [Tasks -> BOOLEAN]
         /\ sigval' \in [Signals -> Values]
         /\ \A r \in Signals : sigval'[r] = IF r = s THEN v ELSE sigval[r]
         /\ \A p \in Tasks :
              /\ fired[p] => fired'[p]
              /\ fired'[p] => fired[p] \/ await[p] = s
              /\ ~sync => (fired'[p] <=> fired[p]) /\ (ready'[p] <=> ready[p])
  <1>1. PICK W : W = Watching(s)
    BY Zenon
  <1>2. sigval' \in [Signals -> Values] /\ \A r \in Signals : sigval'[r] = IF r = s THEN v ELSE sigval[r]
    BY Zenon DEF TypeOK, Put
  <1>3. CASE sync /\ sigval[s] # v
    <2>1. Fire(W)
      BY <1>1, <1>3, Zenon DEF Put
    <2>2. \A p \in W : await[p] = s
      BY <1>1, Zenon DEF Watching
    <2>3. QED BY <1>2, <1>3, <2>1, <2>2, FireEffect, Zenon
  <1>4. CASE ~(sync /\ sigval[s] # v)
    <2>1. fired' = fired /\ ready' = ready
      BY <1>4, Zenon DEF Put
    <2>2. QED BY <1>2, <2>1, Zenon DEF TypeOK
  <1>5. QED BY <1>3, <1>4, Zenon
-----------------------------------------------------------------------------
LEMMA InitIInv == ASSUME Init PROVE IInv
  <1>1. TypeOK
    <2>1. fired \in [Tasks -> BOOLEAN] /\ ready \in [Tasks -> BOOLEAN]
      BY Zenon DEF Init
    <2>2. /\ waiters \in [Hubs -> SUBSET Tasks]
          /\ await \in [Tasks -> Kinds \cup {"nothing", "dead"}]
          /\ sigval \in [Signals -> Values] /\ lastSet \in [Signals -> Values]
          /\ writes \in Seq(Signals \X Values) /\ batch \in Seq(Signals \X Values)
      BY DEF Init, Values
    <2>3. QED BY <2>1, <2>2, Zenon DEF TypeOK
  <1>2. ListsAreTrue /\ NothingIsForgotten /\ CallbackFits
    BY Zenon DEF Init, ListsAreTrue, NothingIsForgotten, CallbackFits, Hubs
  <1>3. LateFits
    BY DEF Init, LateFits, Shows, Settles
  <1>4. QED BY <1>1, <1>2, <1>3, Zenon DEF IInv

(* The simulator's own steps between callbacks, and the ends of callbacks. *)
LEMMA RegionOK ==
  ASSUME IInv, EnterReadOnly \/ NextTime \/ EndNested \/ EndDrain
  PROVE  IInv'
  <1>1. /\ UNCHANGED <<sync, writes, primed, waiters, batch, sigval, await, fired, ready, ops, lastSet, fresh>>
        /\ where = where' \/ (where = "nested" /\ where' = "apply") \/ (where = "drain" /\ where' = "sim")
    BY Zenon DEF EnterReadOnly, NextTime, EndNested, EndDrain
  <1>2. TypeOK' /\ ListsAreTrue'
    BY <1>1, Zenon DEF IInv, TypeOK, ListsAreTrue
  <1>3. NothingIsForgotten'
    BY <1>1, Zenon DEF IInv, NothingIsForgotten
  <1>4. CallbackFits'
    BY DEF IInv, CallbackFits, NoneReady, EnterReadOnly, NextTime, EndNested, EndDrain
  <1>5. LateFits'
    <2>1. \A q : Shows(q)' <=> Shows(q)
      BY <1>1, Zenon DEF Shows
    <2>2. QED BY <1>1, <2>1, Zenon DEF IInv, LateFits, Shows
  <1>6. QED BY <1>2, <1>3, <1>4, <1>5, Zenon DEF IInv

LEMMA OtherCallbackOK == ASSUME IInv, NEW p \in Tasks, OtherCallback(p) PROVE IInv'
  <1>1. PICK W : W = {p}
    BY Zenon
  <1>2. /\ Fire(W) /\ where = "sim" /\ where' = "drain" /\ region = "active"
        /\ await[p] = "timer" \/ await[p] \in Signals
        /\ UNCHANGED <<sync, phase, writes, primed, waiters, batch, region, due, sigval, await, ops,
                       lastSet, fresh>>
    BY <1>1, Zenon DEF OtherCallback, Drain
  <1>3. TypeOK
    BY Zenon DEF IInv
  <1>4. /\ fired' \in [Tasks -> BOOLEAN] /\ ready' \in [Tasks -> BOOLEAN]
        /\ \A r \in Tasks : (fired'[r] <=> fired[r] \/ r \in W) /\ (ready'[r] <=> ready[r] \/ r \in W)
    BY <1>2, <1>3, FireEffect, Zenon
  <1>5. TypeOK'
    BY <1>2, <1>3, <1>4, Zenon DEF TypeOK
  <1>6. ListsAreTrue'
    <2>1. await[p] \notin Hubs
      BY <1>2, SignalsAssumption, Zenon DEF Hubs
    <2>2. QED BY <1>1, <1>2, <1>4, <2>1 DEF IInv, ListsAreTrue
  <1>7. NothingIsForgotten'
    BY <1>2, <1>4, Zenon DEF IInv, NothingIsForgotten
  <1>8. CallbackFits'
    BY <1>2, Zenon DEF IInv, CallbackFits
  <1>9. LateFits'
    BY <1>2, Zenon DEF IInv, LateFits, Shows
  <1>10. QED BY <1>5, <1>6, <1>7, <1>8, <1>9, Zenon DEF IInv

LEMMA ReadWriteCallbackOK == ASSUME IInv, ReadWriteCallback PROVE IInv'
  <1>1. /\ where = "sim" /\ region = "active" /\ primed' = primed \ {"rw"} /\ phase' = "ReadWrite"
        /\ batch' = writes /\ writes' = <<>> /\ where' = "apply" /\ fresh' = {}
        /\ UNCHANGED <<sync, waiters, region, due, sigval, await, fired, ready, ops, lastSet>>
    BY Zenon DEF ReadWriteCallback
  <1>2. TypeOK' /\ ListsAreTrue'
    BY <1>1 DEF IInv, TypeOK, ListsAreTrue
  <1>3. NothingIsForgotten'
    BY <1>1, Zenon DEF IInv, NothingIsForgotten
  <1>4. CallbackFits'
    BY <1>1, Zenon DEF IInv, CallbackFits, NoneReady
  <1>5. LateFits'
    <2>1. batch = <<>>
      BY <1>1, Zenon DEF IInv, CallbackFits
    <2>2. \A q : Shows(q)' <=> Shows(q)
      BY <1>1, Zenon DEF Shows
    <2>3. QED BY <1>1, <2>1, <2>2, Zenon DEF IInv, LateFits, Shows
  <1>6. QED BY <1>2, <1>3, <1>4, <1>5, Zenon DEF IInv

(* A callback detaches its list and fires it: nobody on it is left asleep. *)
LEMMA FireList ==
  ASSUME IInv, NEW k \in Hubs, NEW W, W = waiters[k], Fire(W),
         waiters' = [waiters EXCEPT ![k] = {}], UNCHANGED await
  PROVE  /\ fired' \in [Tasks -> BOOLEAN] /\ ready' \in [Tasks -> BOOLEAN]
         /\ waiters' \in [Hubs -> SUBSET Tasks]
         /\ ListsAreTrue'
         /\ \A p \in Tasks : fired[p] => fired'[p]
         /\ \A p \in Tasks : fired'[p] => fired[p] \/ await[p] = k
         /\ \A p \in Tasks : await'[p] \in Hubs /\ ~fired'[p] =>
              await'[p] # k /\ p \in waiters'[await'[p]]
  <1>1. TypeOK
    BY Zenon DEF IInv
  <1>2. /\ fired' \in [Tasks -> BOOLEAN] /\ ready' \in [Tasks -> BOOLEAN]
        /\ \A r \in Tasks : (fired'[r] <=> fired[r] \/ r \in W)
    BY <1>1, FireEffect, Zenon
  <1>3. waiters' \in [Hubs -> SUBSET Tasks]
    BY <1>1, Zenon DEF TypeOK
  <1>4. \A j \in Hubs : waiters'[j] = IF j = k THEN {} ELSE waiters[j]
    BY <1>1, Zenon DEF TypeOK
  <1>5. \A r \in Tasks : r \in W => await[r] = k
    BY Zenon DEF IInv, ListsAreTrue
  <1>6. ListsAreTrue'
    BY <1>2, <1>4, <1>5 DEF IInv, ListsAreTrue
  <1>7. \A p \in Tasks : await'[p] \in Hubs /\ ~fired'[p] => await'[p] # k /\ p \in waiters'[await'[p]]
    BY <1>2, <1>4, Zenon DEF IInv, NothingIsForgotten
  <1>8. QED BY <1>2, <1>3, <1>5, <1>6, <1>7, Zenon
LEMMA FireReadWriteOK == ASSUME IInv, FireReadWrite PROVE IInv'
  <1>1. PICK W : W = waiters["rw"]
    BY Zenon
  <1>2. /\ where = "apply" /\ batch = <<>> /\ Fire(W) /\ waiters' = [waiters EXCEPT !["rw"] = {}]
        /\ where' = "drain"
        /\ UNCHANGED <<sync, phase, writes, primed, batch, region, due, sigval, await, ops, lastSet, fresh>>
    BY <1>1, Zenon DEF FireReadWrite
  <1>3. "rw" \in Hubs
    BY Zenon DEF Hubs
  <1>4. /\ fired' \in [Tasks -> BOOLEAN] /\ ready' \in [Tasks -> BOOLEAN]
        /\ waiters' \in [Hubs -> SUBSET Tasks] /\ ListsAreTrue'
        /\ \A p \in Tasks : fired[p] => fired'[p]
        /\ \A p \in Tasks : await'[p] \in Hubs /\ ~fired'[p] =>
             await'[p] # "rw" /\ p \in waiters'[await'[p]]
    BY <1>1, <1>2, <1>3, FireList, Zenon
  <1>5. TypeOK'
    BY <1>2, <1>4, Zenon DEF IInv, TypeOK
  <1>6. NothingIsForgotten'
    BY <1>2, <1>4, Zenon DEF IInv, NothingIsForgotten
  <1>7. CallbackFits'
    BY <1>2, Zenon DEF IInv, CallbackFits
  <1>8. LateFits'
    BY <1>2, Zenon DEF IInv, LateFits, Shows
  <1>9. QED BY <1>4, <1>5, <1>6, <1>7, <1>8, Zenon DEF IInv

LEMMA ReadOnlyCallbackOK == ASSUME IInv, ReadOnlyCallback PROVE IInv'
  <1>1. PICK W : W = waiters["ro"]
    BY Zenon
  <1>2. /\ region = "ro" /\ primed' = primed \ {"ro"} /\ phase' = "ReadOnly"
        /\ where = "sim" /\ where' = "drain" /\ Fire(W) /\ waiters' = [waiters EXCEPT !["ro"] = {}]
        /\ UNCHANGED <<sync, writes, batch, region, due, sigval, await, ops, lastSet, fresh>>
    BY <1>1, Zenon DEF ReadOnlyCallback, Drain
  <1>3. "ro" \in Hubs
    BY Zenon DEF Hubs
  <1>4. /\ fired' \in [Tasks -> BOOLEAN] /\ ready' \in [Tasks -> BOOLEAN]
        /\ waiters' \in [Hubs -> SUBSET Tasks] /\ ListsAreTrue'
        /\ \A p \in Tasks : fired[p] => fired'[p]
        /\ \A p \in Tasks : await'[p] \in Hubs /\ ~fired'[p] =>
             await'[p] # "ro" /\ p \in waiters'[await'[p]]
    BY <1>1, <1>2, <1>3, FireList, Zenon
  <1>5. TypeOK'
    BY <1>2, <1>4, Zenon DEF IInv, TypeOK
  <1>6. NothingIsForgotten'
    BY <1>2, <1>4, Zenon DEF IInv, NothingIsForgotten
  <1>7. CallbackFits'
    BY <1>2, Zenon DEF IInv, CallbackFits
  <1>8. LateFits'
    BY <1>2, Zenon DEF IInv, LateFits, Shows
  <1>9. QED BY <1>4, <1>5, <1>6, <1>7, <1>8, Zenon DEF IInv

LEMMA NextTimeCallbackOK == ASSUME IInv, NextTimeCallback PROVE IInv'
  <1>1. PICK W : W = waiters["nt"]
    BY Zenon
  <1>2. /\ due /\ ~due' /\ primed' = primed \ {"nt"}
        /\ where = "sim" /\ where' = "drain" /\ Fire(W) /\ waiters' = [waiters EXCEPT !["nt"] = {}]
        /\ UNCHANGED <<sync, phase, writes, batch, region, sigval, await, ops, lastSet, fresh>>
    BY <1>1, Zenon DEF NextTimeCallback, Drain
  <1>3. "nt" \in Hubs
    BY Zenon DEF Hubs
  <1>4. /\ fired' \in [Tasks -> BOOLEAN] /\ ready' \in [Tasks -> BOOLEAN]
        /\ waiters' \in [Hubs -> SUBSET Tasks] /\ ListsAreTrue'
        /\ \A p \in Tasks : fired[p] => fired'[p]
        /\ \A p \in Tasks : await'[p] \in Hubs /\ ~fired'[p] =>
             await'[p] # "nt" /\ p \in waiters'[await'[p]]
    BY <1>1, <1>2, <1>3, FireList, Zenon
  <1>5. TypeOK'
    BY <1>2, <1>4, Zenon DEF IInv, TypeOK
  <1>6. NothingIsForgotten'
    BY <1>2, <1>4, Zenon DEF IInv, NothingIsForgotten
  <1>7. CallbackFits'
    BY <1>2, Zenon DEF IInv, CallbackFits
  <1>8. LateFits'
    BY <1>2, Zenon DEF IInv, LateFits, Shows
  <1>9. QED BY <1>4, <1>5, <1>6, <1>7, <1>8, Zenon DEF IInv

LEMMA ApplyOK == ASSUME IInv, apply_write PROVE IInv'
  <1>0. PICK s, v : s = batch[1][1] /\ v = batch[1][2]
    BY Zenon
  <1>1. /\ where = "apply" /\ batch # <<>> /\ Put(s, v) /\ batch' = Tail(batch)
        /\ where' = IF NoneReady' THEN "apply" ELSE "nested"
        /\ UNCHANGED <<sync, phase, writes, primed, waiters, region, due, await, ops, lastSet, fresh>>
    BY <1>0, Zenon DEF apply_write
  <1>2. s \in Signals /\ v \in Values /\ batch \in Seq(Signals \X Values) /\ batch' \in Seq(Signals \X Values)
    <2>1. batch \in Seq(Signals \X Values) /\ batch # <<>>
      BY <1>1, Zenon DEF IInv, TypeOK
    <2>2. batch[1] \in Signals \X Values /\ Tail(batch) \in Seq(Signals \X Values)
      BY <2>1
    <2>3. QED BY <1>0, <1>1, <2>1, <2>2, Zenon
  <1>3. TypeOK
    BY Zenon DEF IInv
  <1>4. /\ fired' \in [Tasks -> BOOLEAN] /\ ready' \in [Tasks -> BOOLEAN]
        /\ sigval' \in [Signals -> Values]
        /\ \A r \in Signals : sigval'[r] = IF r = s THEN v ELSE sigval[r]
        /\ \A p \in Tasks :
             /\ fired[p] => fired'[p]
             /\ fired'[p] => fired[p] \/ await[p] = s
             /\ ~sync => (fired'[p] <=> fired[p]) /\ (ready'[p] <=> ready[p])
    BY <1>1, <1>2, <1>3, PutEffect, Zenon
  <1>5. TypeOK'
    BY <1>1, <1>2, <1>3, <1>4, Zenon DEF TypeOK
  <1>6. ListsAreTrue'
    <2>1. s \notin Hubs
      BY <1>2, SignalsAssumption, Zenon DEF Hubs
    <2>2. QED BY <1>1, <1>4, <2>1 DEF IInv, ListsAreTrue
  <1>7. NothingIsForgotten'
    BY <1>1, <1>4, Zenon DEF IInv, NothingIsForgotten
  <1>8. CallbackFits'
    BY <1>1, Zenon DEF IInv, CallbackFits
  <1>9. LateFits'
    <2> SUFFICES ASSUME ~sync PROVE /\ where' # "nested" /\ (where' = "apply" => fresh' = {})
                                    /\ batch' = <<>> => Shows(writes)'
                                    /\ batch' # <<>> => Shows(batch)'
      BY <1>1, Zenon DEF LateFits
    <2>1. NoneReady'
      BY <1>1, <1>4, Zenon DEF IInv, CallbackFits, NoneReady
    <2>2. where' = "apply" /\ fresh' = {}
      BY <1>1, <2>1, Zenon DEF IInv, LateFits
    <2>3. PICK q, f, g, h : q = batch /\ f = sigval /\ g = lastSet /\ h = sigval'
      BY Zenon
    <2>4. /\ Settles(q, Signals, f, g) /\ q \in Seq(Signals \X Values) /\ q # <<>>
          /\ \A r \in Signals : h[r] = IF r = q[1][1] THEN q[1][2] ELSE f[r]
      BY <1>0, <1>1, <1>2, <1>4, <2>3, Zenon DEF IInv, LateFits, Shows
    <2>5. Settles(Tail(q), Signals, h, g)
      BY <2>4, SettleFirst, Zenon
    <2>6. Tail(q) = batch' /\ writes' = <<>>
      BY <1>1, <2>3, Zenon DEF IInv, CallbackFits
    <2>7. /\ Tail(q) = batch' => Shows(batch)'
          /\ Tail(q) = writes' => Shows(writes)'
      BY <1>1, <2>3, <2>5, Zenon DEF Shows
    <2>8. QED BY <2>2, <2>6, <2>7, Zenon
  <1>10. QED BY <1>5, <1>6, <1>7, <1>8, <1>9, Zenon DEF IInv
(* A task that panics leaves the run in an orderly state.                  *)
LEMMA PanicOK ==
  ASSUME IInv, NEW p \in Tasks, Runs(p), Panic(p),
         UNCHANGED <<sync, phase, waiters, batch, where, region, due, fresh>>
  PROVE  IInv'
  <1>1. /\ await' = [await EXCEPT ![p] = "dead"] /\ ready' = [ready EXCEPT ![p] = FALSE]
        /\ await[p] = "nothing" /\ ops' = ops + 1 /\ where \in {"drain", "nested"}
        /\ UNCHANGED <<writes, primed, sigval, fired, lastSet>>
    BY Zenon DEF Runs, Panic
  <1>2. ready' \in [Tasks -> BOOLEAN]
    BY <1>1, Zenon DEF IInv, TypeOK
  <1>3. TypeOK'
    BY <1>1, <1>2, Zenon DEF IInv, TypeOK
  <1>4. \A q \in Tasks : await'[q] = IF q = p THEN "dead" ELSE await[q]
    BY <1>1, Zenon DEF IInv, TypeOK
  <1>5. ListsAreTrue'
    BY <1>1, <1>4, Zenon DEF IInv, ListsAreTrue, Hubs
  <1>6. NothingIsForgotten'
    BY <1>1, <1>4 DEF IInv, NothingIsForgotten, Hubs
  <1>7. CallbackFits'
    BY <1>1, Zenon DEF IInv, CallbackFits
  <1>8. LateFits'
    BY <1>1, Zenon DEF IInv, LateFits, Shows
  <1>9. QED BY <1>3, <1>5, <1>6, <1>7, <1>8, Zenon DEF IInv

(* An immediate write from a poll, whose value is recorded as the last one *)
(* unless a write of the same signal is still to come.                     *)
LEMMA PutOK ==
  ASSUME IInv, NEW p \in Tasks, NEW s \in Signals, NEW v \in Values, Runs(p), Put(s, v),
         lastSet' = lastSet \/ lastSet' = [lastSet EXCEPT ![s] = v],
         ~sync => lastSet' = IF Pending(s) THEN lastSet ELSE [lastSet EXCEPT ![s] = v],
         UNCHANGED <<writes, primed, await, sync, phase, waiters, batch, where, region, due, fresh>>
  PROVE  IInv'
  <1>1. /\ where \in {"drain", "nested"} /\ ops' = ops + 1
        /\ TypeOK
    BY Zenon DEF Runs, IInv
  <1>2. /\ fired' \in [Tasks -> BOOLEAN] /\ ready' \in [Tasks -> BOOLEAN]
        /\ sigval' \in [Signals -> Values]
        /\ \A r \in Signals : sigval'[r] = IF r = s THEN v ELSE sigval[r]
        /\ \A q \in Tasks :
             /\ fired[q] => fired'[q]
             /\ fired'[q] => fired[q] \/ await[q] = s
    BY <1>1, PutEffect, Zenon
  <1>3. TypeOK'
    BY <1>1, <1>2, SMTT(60) DEF TypeOK
  <1>4. ListsAreTrue'
    <2>1. s \notin Hubs
      BY SignalsAssumption, Zenon DEF Hubs
    <2>2. QED BY <1>2, <2>1 DEF IInv, ListsAreTrue
  <1>5. NothingIsForgotten'
    BY <1>2, Zenon DEF IInv, NothingIsForgotten
  <1>6. CallbackFits'
    BY <1>1, Zenon DEF IInv, CallbackFits
  <1>7. LateFits'
    <2> SUFFICES ASSUME ~sync PROVE where # "nested" /\ (where = "apply" => fresh = {}) /\ batch = <<>> /\ Shows(writes)'
      BY Zenon DEF LateFits
    <2>1. where = "drain" /\ batch = <<>>
      BY <1>1, Zenon DEF IInv, LateFits, CallbackFits
    <2>2. PICK q, f, g, h, k : q = writes /\ f = sigval /\ g = lastSet /\ h = sigval' /\ k = lastSet'
      BY Zenon
    <2>3. DOMAIN q = 1..Len(q) /\ Settles(q, Signals, f, g)
      <3>1. DOMAIN q = 1..Len(q)
        BY <2>2 DEF IInv, TypeOK
      <3>2. Shows(writes)
        BY <2>1, Zenon DEF IInv, LateFits
      <3>3. QED BY <2>2, <3>1, <3>2, Zenon DEF Shows
    <2>4. Pending(s) <=> Names(q, s)
      <3>1. ~ \E i \in DOMAIN batch : batch[i][1] = s
        BY <2>1
      <3>2. QED BY <2>2, <2>3, <3>1, Zenon DEF Pending, Names
    <2>5. /\ \A r \in Signals : r # s => h[r] = f[r]
          /\ \A r \in Signals : k[r] = IF r = s /\ ~Names(q, s) THEN h[s] ELSE g[r]
      <3>1. ASSUME NEW r \in Signals, r # s PROVE h[r] = f[r]
        BY <1>2, <2>2, <3>1, Zenon DEF IInv, TypeOK
      <3>2. ASSUME NEW r \in Signals
            PROVE  k[r] = IF r = s /\ ~Names(q, s) THEN h[s] ELSE g[r]
        BY <1>1, <1>2, <2>2, <2>4, Zenon DEF IInv, TypeOK
      <3>3. QED BY <3>1, <3>2, Zenon
    <2>6. Settles(q, Signals, h, k)
      BY <2>3, <2>5, SettleOver
    <2>7. Shows(writes)'
      BY <2>2, <2>6, Zenon DEF Shows
    <2>8. QED BY <2>1, <2>7, Zenon
  <1>8. QED BY <1>3, <1>4, <1>5, <1>6, <1>7, Zenon DEF IInv

LEMMA SetOK ==
  ASSUME IInv, NEW p \in Tasks, NEW s \in Signals, NEW v \in Values, set(p, s, v)
  PROVE  IInv'
  <1>1. Runs(p) /\ UNCHANGED <<sync, phase, waiters, batch, where, region, due, fresh>>
    BY Zenon DEF set
  <1>2. CASE Panic(p)
    BY <1>1, <1>2, PanicOK, Zenon
  <1>3. CASE phase = "ReadWrite" /\ Put(s, v) /\ lastSet' = [lastSet EXCEPT ![s] = v]
             /\ UNCHANGED <<writes, primed, await>>
    <2>1. ASSUME ~sync PROVE ~Pending(s)
      <3>1. batch = <<>> /\ writes = <<>>
        BY <1>1, <1>3, <2>1, Zenon DEF IInv, CallbackFits, LateFits, Runs
      <3>2. QED BY <3>1 DEF Pending
    <2>2. QED BY <1>1, <1>3, <2>1, PutOK, Zenon
  <1>4. CASE phase = "Normal" /\ Buffer(s, v) /\ lastSet' = [lastSet EXCEPT ![s] = v]
             /\ UNCHANGED <<sigval, await, fired, ready>>
    <2>1. /\ where \in {"drain", "nested"} /\ ops' = ops + 1 /\ primed' = primed \cup {"rw"}
      BY <1>1, <1>4, Zenon DEF Runs, Buffer
    <2>0. PICK q, f, g, h, u : q = writes /\ f = sigval /\ g = lastSet /\ h = lastSet' /\ u = writes'
      BY Zenon
    <2>2. u = Replace(q, s, v) /\ u \in Seq(Signals \X Values) /\ q \in Seq(Signals \X Values)
      <3>1. u = Replace(q, s, v) /\ q \in Seq(Signals \X Values)
        BY <1>4, <2>0, Zenon DEF Buffer, Replace, IInv, TypeOK
      <3>2. QED BY <3>1, ReplaceIs, Zenon
    <2>3. TypeOK'
      <3>1. lastSet' \in [Signals -> Values]
        BY <1>4, Zenon DEF IInv, TypeOK
      <3>2. writes' \in Seq(Signals \X Values)
        BY <2>0, <2>2, Zenon
      <3>3. UNCHANGED <<waiters, await, fired, ready, sigval, batch>>
        BY <1>1, <1>4, Zenon
      <3>4. QED BY <3>1, <3>2, <3>3, Zenon DEF IInv, TypeOK
    <2>4. ListsAreTrue'
      <3>1. UNCHANGED <<waiters, await, fired>>
        BY <1>1, <1>4, Zenon
      <3>2. QED BY <3>1, Zenon DEF IInv, ListsAreTrue
    <2>5. NothingIsForgotten'
      BY <1>1, <1>4, <2>1, Zenon DEF IInv, NothingIsForgotten
    <2>6. CallbackFits'
      BY <1>1, <1>4, <2>1, Zenon DEF IInv, CallbackFits
    <2>7. LateFits'
      <3> SUFFICES ASSUME ~sync PROVE where # "nested" /\ where # "apply" /\ batch = <<>> /\ Shows(writes)'
        BY <1>1, Zenon DEF LateFits
      <3>1. where = "drain" /\ batch = <<>>
        BY <2>1, Zenon DEF IInv, LateFits, CallbackFits
      <3>2. /\ Settles(q, Signals, f, g)
            /\ \A r \in Signals : h[r] = IF r = s THEN v ELSE g[r]
        BY <1>4, <2>0, <3>1, Zenon DEF IInv, LateFits, TypeOK, Shows
      <3>3. Settles(u, Signals, f, h)
        BY <2>2, <3>2, SettleLater, Zenon
      <3>4. Shows(writes)'
        BY <1>4, <2>0, <3>3, Zenon DEF Shows
      <3>5. QED BY <3>1, <3>4, Zenon
    <2>8. QED BY <2>3, <2>4, <2>5, <2>6, <2>7, Zenon DEF IInv
  <1>5. QED BY <1>2, <1>3, <1>4, Zenon DEF set

LEMMA SetNowOK ==
  ASSUME IInv, NEW p \in Tasks, NEW s \in Signals, NEW v \in Values, set_now(p, s, v)
  PROVE  IInv'
  <1>1. Runs(p) /\ UNCHANGED <<sync, phase, waiters, batch, where, region, due, fresh>>
    BY Zenon DEF set_now
  <1>2. CASE phase = "ReadOnly"
    BY <1>1, <1>2, PanicOK, Zenon DEF set_now
  <1>3. CASE phase # "ReadOnly"
    BY <1>1, <1>3, PutOK, Zenon DEF set_now
  <1>4. QED BY <1>2, <1>3, Zenon

LEMMA WaitOK ==
  ASSUME IInv, NEW p \in Tasks, NEW k \in Kinds, wait(p, k)
  PROVE  IInv'
  <1>1. Runs(p) /\ UNCHANGED <<sync, phase, batch, where, region, due>>
    BY Zenon DEF wait
  <1>2. CASE phase = "ReadOnly" /\ k \in {"rw", "ro"}
    BY <1>1, <1>2, PanicOK, Zenon DEF wait
  <1>3. CASE ~(phase = "ReadOnly" /\ k \in {"rw", "ro"})
    <2>1. /\ await' = [await EXCEPT ![p] = k] /\ await[p] = "nothing"
          /\ fired' = [fired EXCEPT ![p] = FALSE] /\ ready' = [ready EXCEPT ![p] = FALSE]
          /\ fresh' = fresh \cup {p} /\ where \in {"drain", "nested"}
          /\ UNCHANGED <<writes, sigval, lastSet>>
      BY <1>1, <1>3, Zenon DEF wait, Runs
    <2>2. /\ k \in Hubs => waiters' = [waiters EXCEPT ![k] = @ \cup {p}] /\ primed' = primed \cup {k}
          /\ k \notin Hubs => UNCHANGED <<waiters, primed>>
      BY <1>3, Zenon DEF wait
    <2>3. TypeOK
      BY Zenon DEF IInv
    <2>4. /\ fired' \in [Tasks -> BOOLEAN] /\ ready' \in [Tasks -> BOOLEAN]
          /\ \A q \in Tasks : fired'[q] <=> fired[q] /\ q # p
      BY <2>1, <2>3, Zenon DEF TypeOK
    <2>5. /\ waiters' \in [Hubs -> SUBSET Tasks]
          /\ \A j \in Hubs, q \in Tasks : q \in waiters'[j] <=> q \in waiters[j] \/ (q = p /\ j = k)
          /\ \A j : j \in primed' <=> j \in primed \/ (j = k /\ k \in Hubs)
      BY <2>2, <2>3 DEF TypeOK
    <2>6. /\ await' \in [Tasks -> Kinds \cup {"nothing", "dead"}]
          /\ \A q \in Tasks : await'[q] = IF q = p THEN k ELSE await[q]
      BY <2>1, <2>3, Zenon DEF TypeOK
    <2>7. TypeOK'
      BY <1>1, <2>1, <2>3, <2>4, <2>5, <2>6, Zenon DEF TypeOK
    <2>8. ListsAreTrue'
      BY <2>1, <2>4, <2>5, <2>6 DEF IInv, ListsAreTrue, Hubs
    <2>9. NothingIsForgotten'
      <3>1. NothingIsForgotten /\ writes' = writes /\ where' = where
        BY <1>1, <2>1, Zenon DEF IInv
      <3>2. ASSUME NEW q \in Tasks, await'[q] \in Hubs, ~fired'[q]
            PROVE  /\ q \in waiters'[await'[q]]
                   /\ await'[q] \in primed' \/ (await'[q] = "rw" /\ where' \in {"apply", "nested"})
        <4>1. CASE q = p
          BY <2>5, <2>6, <3>2, <4>1, Zenon
        <4>2. CASE q # p
          <5>1. await'[q] = await[q] /\ ~fired[q]
            BY <2>4, <2>6, <3>2, <4>2, Zenon
          <5>2. QED BY <2>5, <3>1, <3>2, <5>1, Zenon DEF NothingIsForgotten
        <4>3. QED BY <4>1, <4>2, Zenon
      <3>3. writes' # <<>> => "rw" \in primed'
        BY <2>5, <3>1, Zenon DEF NothingIsForgotten
      <3>4. QED BY <3>2, <3>3, Zenon DEF NothingIsForgotten
    <2>10. CallbackFits'
      BY <1>1, <2>1, Zenon DEF IInv, CallbackFits
    <2>11. LateFits'
      BY <1>1, <2>1, Zenon DEF IInv, LateFits, Shows
    <2>12. QED BY <2>7, <2>8, <2>9, <2>10, <2>11, Zenon DEF IInv
  <1>4. QED BY <1>2, <1>3, Zenon

LEMMA ResumeOK ==
  ASSUME IInv, NEW p \in Tasks, resume(p)
  PROVE  IInv'
  <1>1. /\ where \in {"drain", "nested"} /\ fired[p]
        /\ await' = [await EXCEPT ![p] = "nothing"] /\ fired' = [fired EXCEPT ![p] = FALSE]
        /\ fresh' = fresh \ {p}
        /\ UNCHANGED <<sync, phase, writes, primed, waiters, batch, where, region, due, sigval, ready,
                       ops, lastSet>>
    BY Zenon DEF resume
  <1>2. /\ fired' \in [Tasks -> BOOLEAN]
        /\ \A q \in Tasks : fired'[q] <=> fired[q] /\ q # p
    BY <1>1, Zenon DEF IInv, TypeOK
  <1>3. /\ await' \in [Tasks -> Kinds \cup {"nothing", "dead"}]
        /\ \A q \in Tasks : await'[q] = IF q = p THEN "nothing" ELSE await[q]
    BY <1>1, Zenon DEF IInv, TypeOK
  <1>4. TypeOK'
    BY <1>1, <1>2, <1>3, Zenon DEF IInv, TypeOK
  <1>5. ListsAreTrue'
    BY <1>1, <1>2, <1>3 DEF IInv, ListsAreTrue
  <1>6. NothingIsForgotten'
    BY <1>1, <1>2, <1>3, Zenon DEF IInv, NothingIsForgotten, Hubs
  <1>7. CallbackFits'
    BY <1>1, Zenon DEF IInv, CallbackFits
  <1>8. LateFits'
    BY <1>1, Zenon DEF IInv, LateFits, Shows
  <1>9. QED BY <1>4, <1>5, <1>6, <1>7, <1>8, Zenon DEF IInv

LEMMA FinishOK ==
  ASSUME IInv, NEW p \in Tasks, finish(p)
  PROVE  IInv'
  <1>1. /\ where \in {"drain", "nested"}
        /\ await' = [await EXCEPT ![p] = "dead"] /\ ready' = [ready EXCEPT ![p] = FALSE]
        /\ waiters' = [k \in Hubs |-> waiters[k] \ {p}]
        /\ fresh' = fresh \ {p}
        /\ UNCHANGED <<sync, phase, writes, primed, batch, where, region, due, sigval, fired, ops, lastSet>>
    BY Zenon DEF finish
  <1>2. ready' \in [Tasks -> BOOLEAN]
    BY <1>1, Zenon DEF IInv, TypeOK
  <1>3. /\ await' \in [Tasks -> Kinds \cup {"nothing", "dead"}]
        /\ \A q \in Tasks : await'[q] = IF q = p THEN "dead" ELSE await[q]
    BY <1>1, Zenon DEF IInv, TypeOK
  <1>4. /\ waiters' \in [Hubs -> SUBSET Tasks]
        /\ \A k \in Hubs, q \in Tasks : q \in waiters'[k] <=> q \in waiters[k] /\ q # p
    BY <1>1, Zenon DEF IInv, TypeOK
  <1>5. TypeOK'
    <2>1. TypeOK /\ UNCHANGED <<fired, sigval, lastSet, writes, batch>>
      BY <1>1, Zenon DEF IInv
    <2>2. QED BY <1>2, <1>3, <1>4, <2>1, Zenon DEF TypeOK
  <1>6. ListsAreTrue'
    BY <1>1, <1>3, <1>4, Zenon DEF IInv, ListsAreTrue
  <1>7. NothingIsForgotten'
    <2>1. NothingIsForgotten /\ UNCHANGED <<writes, primed, where, fired>>
      BY <1>1, Zenon DEF IInv
    <2>2. ASSUME NEW q \in Tasks, await'[q] \in Hubs, ~fired'[q]
          PROVE  /\ q \in waiters'[await'[q]]
                 /\ await'[q] \in primed' \/ (await'[q] = "rw" /\ where' \in {"apply", "nested"})
      <3>1. q # p /\ await'[q] = await[q]
        BY <1>3, <2>2, Zenon DEF Hubs
      <3>2. QED BY <1>4, <2>1, <2>2, <3>1, Zenon DEF NothingIsForgotten
    <2>3. QED BY <2>1, <2>2, Zenon DEF NothingIsForgotten
  <1>8. CallbackFits'
    BY <1>1, Zenon DEF IInv, CallbackFits
  <1>9. LateFits'
    BY <1>1, Zenon DEF IInv, LateFits, Shows
  <1>10. QED BY <1>5, <1>6, <1>7, <1>8, <1>9, Zenon DEF IInv
-----------------------------------------------------------------------------
LEMMA PhaseStep == ASSUME IInv, Next PROVE IInv'
  <1>1. ASSUME NEW p \in Tasks, OtherCallback(p) PROVE IInv'
    BY <1>1, OtherCallbackOK, Zenon
  <1>2. CASE ReadWriteCallback
    BY <1>2, ReadWriteCallbackOK, Zenon
  <1>3. CASE EnterReadOnly \/ NextTime \/ EndNested \/ EndDrain
    BY <1>3, RegionOK, Zenon
  <1>4. CASE ReadOnlyCallback
    BY <1>4, ReadOnlyCallbackOK, Zenon
  <1>5. CASE NextTimeCallback
    BY <1>5, NextTimeCallbackOK, Zenon
  <1>6. CASE apply_write
    BY <1>6, ApplyOK, Zenon
  <1>7. CASE FireReadWrite
    BY <1>7, FireReadWriteOK, Zenon
  <1>8. ASSUME NEW p \in Tasks, NEW s \in Signals, NEW v \in Values, set(p, s, v) \/ set_now(p, s, v)
        PROVE  IInv'
    BY <1>8, SetOK, SetNowOK, Zenon
  <1>9. ASSUME NEW p \in Tasks, NEW k \in Kinds, wait(p, k) PROVE IInv'
    BY <1>9, WaitOK, Zenon
  <1>10. ASSUME NEW p \in Tasks, resume(p) \/ finish(p) PROVE IInv'
    BY <1>10, ResumeOK, FinishOK, Zenon
  <1>11. QED
    BY <1>1, <1>2, <1>3, <1>4, <1>5, <1>6, <1>7, <1>8, <1>9, <1>10, Zenon DEF Next, Simulator, Rust
LEMMA NextPreserves == ASSUME IInv, [Next]_vars PROVE IInv'
  <1>1. CASE Next
    BY <1>1, PhaseStep, Zenon
  <1>2. CASE UNCHANGED vars
    <2>1. UNCHANGED <<sync, phase, writes, primed, waiters, batch, where, region, due, sigval, await,
                      fired, ready, ops, lastSet, fresh>>
      BY <1>2, Zenon DEF vars
    <2>2. TypeOK' /\ ListsAreTrue'
      BY <2>1, Zenon DEF IInv, TypeOK, ListsAreTrue
    <2>3. NothingIsForgotten' /\ CallbackFits'
      BY <2>1, Zenon DEF IInv, NothingIsForgotten, CallbackFits, NoneReady
    <2>4. LateFits'
      BY <2>1, Zenon DEF IInv, LateFits, Shows
    <2>5. QED BY <2>2, <2>3, <2>4, Zenon DEF IInv
  <1>3. QED BY <1>1, <1>2, Zenon

(* The invariant holds in every state of the hub.                          *)
THEOREM Invariance == Spec => []IInv
  <1>1. Init => IInv
    BY InitIInv, Zenon
  <1>2. IInv /\ [Next]_vars => IInv'
    BY NextPreserves, Zenon
  <1>3. QED BY <1>1, <1>2, PTL DEF Spec

(* For any tasks, signals and orders of the calls: whatever is buffered or *)
(* waited for in schedule, prime_rw, prime_ro and prime_nt has a callback  *)
(* registered, or one being executed that has not fired its waiters.       *)
THEOREM WaitsAreServed == Spec => []NothingIsForgotten
  <1>1. IInv => NothingIsForgotten
    BY Zenon DEF IInv
  <1>2. QED BY <1>1, Invariance, PTL

(* For any signals, where value changes come late, a signal without a      *)
(* pending write has the value that the last set or set_now gave it: the   *)
(* buffer that schedule replaces in place loses and reorders nothing.      *)
THEOREM LateWritesKeepOrder == Spec => []LateEdgesKeepOrder
  <1>1. ASSUME IInv, ~sync, writes = <<>>, batch = <<>> PROVE sigval = lastSet
    <2>1. Shows(writes) /\ Len(writes) = 0
      BY <1>1, Zenon DEF IInv, LateFits
    <2>2. \A s \in Signals : sigval[s] = lastSet[s]
      BY <2>1 DEF Shows, Settles
    <2>3. QED BY <1>1, <2>2 DEF IInv, TypeOK
  <1>2. IInv => LateEdgesKeepOrder
    BY <1>1, Zenon DEF LateEdgesKeepOrder, LastWriteWins
  <1>3. QED BY <1>2, Invariance, PTL

(* In the ReadOnly region a poll that writes panics.                       *)
LEMMA NoWriteInReadOnly == ASSUME IInv, Next, region = "ro" PROVE sigval' = sigval
  <1>1. where \notin {"apply", "nested"} /\ (where = "drain" => phase = "ReadOnly")
    BY Zenon DEF IInv, CallbackFits
  <1>2. CASE Simulator
    <2>1. ASSUME NEW p \in Tasks, OtherCallback(p) PROVE sigval' = sigval
      BY <2>1, Zenon DEF OtherCallback
    <2>2. CASE ReadWriteCallback
      BY <2>2, Zenon DEF ReadWriteCallback
    <2>3. CASE EnterReadOnly \/ NextTime
      BY <2>3, Zenon DEF EnterReadOnly, NextTime
    <2>4. CASE ReadOnlyCallback
      BY <2>4, Zenon DEF ReadOnlyCallback
    <2>5. CASE NextTimeCallback
      BY <2>5, Zenon DEF NextTimeCallback
    <2>6. QED BY <1>2, <2>1, <2>2, <2>3, <2>4, <2>5, Zenon DEF Simulator
  <1>3. CASE apply_write \/ EndNested \/ FireReadWrite \/ EndDrain
    BY <1>1, <1>3, Zenon DEF apply_write, EndNested, FireReadWrite, EndDrain
  <1>4. ASSUME NEW p \in Tasks, NEW s \in Signals, NEW v \in Values, set(p, s, v) \/ set_now(p, s, v)
        PROVE  sigval' = sigval
    BY <1>1, <1>4, Zenon DEF set, set_now, Panic, Runs
  <1>5. ASSUME NEW p \in Tasks, NEW k \in Kinds, wait(p, k) PROVE sigval' = sigval
    BY <1>5, Zenon DEF wait, Panic
  <1>6. ASSUME NEW p \in Tasks, resume(p) \/ finish(p) PROVE sigval' = sigval
    BY <1>6, Zenon DEF resume, finish
  <1>7. QED BY <1>2, <1>3, <1>4, <1>5, <1>6, Zenon DEF Next, Rust

(* Only the end of the ReadWrite callback's batch fires a ReadWrite wait.  *)
LEMMA ReadWriteFires ==
  ASSUME IInv, Next, NEW p \in Tasks, await[p] = "rw", ~fired[p], fired'[p]
  PROVE  FireReadWrite
  <1>0. TypeOK /\ ListsAreTrue /\ "rw" \notin Signals /\ "rw" \in Hubs
    BY SignalsAssumption, Zenon DEF IInv, Hubs
  <1>1. ASSUME NEW W, Fire(W), p \notin W PROVE FALSE
    <2>1. fired'[p] <=> fired[p] \/ p \in W
      BY <1>0, <1>1, FireEffect, Zenon
    <2>2. QED BY <1>1, <2>1, Zenon
  <1>2. ASSUME NEW q \in Tasks, OtherCallback(q) PROVE FALSE
    BY <1>0, <1>1, <1>2, Zenon DEF OtherCallback, Drain
  <1>3. CASE ReadOnlyCallback
    <2>1. PICK W : W = waiters["ro"]
      BY Zenon
    <2>2. Fire(W) /\ p \notin W
      BY <1>0, <1>3, <2>1, Zenon DEF ReadOnlyCallback, Drain, ListsAreTrue, Hubs
    <2>3. QED BY <1>1, <2>2, Zenon
  <1>4. CASE NextTimeCallback
    <2>1. PICK W : W = waiters["nt"]
      BY Zenon
    <2>2. Fire(W) /\ p \notin W
      BY <1>0, <1>4, <2>1, Zenon DEF NextTimeCallback, Drain, ListsAreTrue, Hubs
    <2>3. QED BY <1>1, <2>2, Zenon
  <1>5. ASSUME NEW s \in Signals, NEW v \in Values, Put(s, v) PROVE FALSE
    <2>1. fired'[p] => fired[p] \/ await[p] = s
      BY <1>0, <1>5, PutEffect, Zenon
    <2>2. QED BY <1>0, <2>1, Zenon
  <1>6. CASE apply_write
    <2>1. PICK s, v : s = batch[1][1] /\ v = batch[1][2]
      BY Zenon
    <2>2. batch \in Seq(Signals \X Values) /\ batch # <<>> /\ Put(s, v)
      BY <1>0, <1>6, <2>1, Zenon DEF apply_write, TypeOK
    <2>3. batch[1] \in Signals \X Values
      BY <2>2
    <2>4. QED BY <1>5, <2>1, <2>2, <2>3, Zenon
  <1>7. CASE ReadWriteCallback \/ EnterReadOnly \/ NextTime \/ EndNested \/ EndDrain
    <2>1. CASE ReadWriteCallback
      BY <2>1, Zenon DEF ReadWriteCallback
    <2>2. CASE EnterReadOnly
      BY <2>2, Zenon DEF EnterReadOnly
    <2>3. CASE NextTime
      BY <2>3, Zenon DEF NextTime
    <2>4. CASE EndNested
      BY <2>4, Zenon DEF EndNested
    <2>5. CASE EndDrain
      BY <2>5, Zenon DEF EndDrain
    <2>6. QED BY <1>7, <2>1, <2>2, <2>3, <2>4, <2>5, Zenon
  <1>8. ASSUME NEW q \in Tasks, NEW s \in Signals, NEW v \in Values, set(q, s, v) PROVE FALSE
    BY <1>5, <1>8, Zenon DEF set, Panic
  <1>9. ASSUME NEW q \in Tasks, NEW s \in Signals, NEW v \in Values, set_now(q, s, v) PROVE FALSE
    BY <1>5, <1>9, Zenon DEF set_now, Panic
  <1>10. ASSUME NEW q \in Tasks, NEW k \in Kinds, wait(q, k) PROVE FALSE
    BY <1>0, <1>10, Zenon DEF wait, Panic, TypeOK
  <1>11. ASSUME NEW q \in Tasks, resume(q) \/ finish(q) PROVE FALSE
    BY <1>0, <1>11, Zenon DEF resume, finish, TypeOK
  <1>12. QED
    BY <1>2, <1>3, <1>4, <1>6, <1>7, <1>8, <1>9, <1>10, <1>11, Zenon DEF Next, Simulator, Rust

(* For any tasks nothing is written in the ReadOnly region, and a wait for *)
(* ReadWrite ends when the whole buffer is on the signals, where edges     *)
(* come late only if it began before the callback did.                     *)
THEOREM RegionsHold == Spec => RegionsAreKept
  <1>1. ASSUME IInv, [Next]_vars PROVE [region = "ro" => sigval' = sigval]_vars
    <2>1. Next \/ UNCHANGED vars
      BY <1>1, Zenon
    <2>2. QED BY <1>1, <2>1, NoWriteInReadOnly, Zenon
  <1>2. ASSUME IInv, [Next]_vars
        PROVE  [\A p \in Tasks : await[p] = "rw" /\ ~fired[p] /\ fired'[p] =>
                  batch' = <<>> /\ (~sync => p \notin fresh)]_vars
    <2>1. Next \/ UNCHANGED vars
      BY <1>2, Zenon
    <2>2. ASSUME FireReadWrite, NEW p PROVE batch' = <<>> /\ (~sync => p \notin fresh)
      BY <1>2, <2>2, Zenon DEF FireReadWrite, IInv, LateFits
    <2>3. QED BY <1>2, <2>1, <2>2, ReadWriteFires, Zenon
  <1>3. QED
    BY <1>1, <1>2, Invariance, PTL
    DEF Spec, RegionsAreKept, ReadOnlyIsStable, ReadWriteWaits
=============================================================================
