--------------------------- MODULE ExecutorProofs ---------------------------
(* Safety of the executor for any number of tasks, wakes and joiners, and  *)
(* that it implements the abstract scheduler: every step maps to a step of *)
(* TaskScheduler or to a stutter, whether or not destructors panic.        *)
EXTENDS MCExecutor, TLAPS

(* What the safety properties need besides one another: ids that were not  *)
(* handed out are nowhere, a task in the map is not over, one outside it   *)
(* awaits nothing, and poll_task visits the deferred cancellations only    *)
(* while there are any.                                                    *)
Bookkeeping ==
  /\ \A t \in TaskIds : t >= nextId => entry[t] = "none" /\ state[t] = "Unstarted"
  /\ \A t \in TaskIds : In(t, runQueue) \/ In(t, cancelPending) => t < nextId
  /\ \A t \in TaskIds : IF live(t) THEN ~done(t) ELSE awaits[t] = {}
  /\ ctl = "deferred" => cancelPending # <<>>

(* The inductive invariant.                                                *)
IInv ==
  /\ TypeOK
  /\ OnePollAtATime
  /\ QueueHoldsScheduled
  /\ NoLostWakeup
  /\ JoinersAreWoken
  /\ SelfCancelTakesEffect
  /\ Bookkeeping
-----------------------------------------------------------------------------
(* Membership in the queues the executor works with.                       *)

LEMMA InEmpty == ASSUME NEW t PROVE ~In(t, <<>>)
  BY DEF In

LEMMA InAppend ==
  ASSUME NEW S, NEW q \in Seq(S), NEW e \in S, NEW t
  PROVE  In(t, Append(q, e)) <=> In(t, q) \/ t = e
  <1>1. In(t, q) => In(t, Append(q, e))
    BY DEF In
  <1>2. t = e => In(t, Append(q, e))
    <2>1. Append(q, e)[Len(q) + 1] = e /\ Len(q) + 1 \in 1..Len(Append(q, e))
      OBVIOUS
    <2>2. QED BY <2>1, Zenon DEF In
  <1>3. In(t, Append(q, e)) => In(t, q) \/ t = e
    BY DEF In
  <1>4. QED BY <1>1, <1>2, <1>3, Zenon

LEMMA InTail ==
  ASSUME NEW S, NEW q \in Seq(S), q # <<>>, NEW t
  PROVE  In(t, q) <=> t = Head(q) \/ In(t, Tail(q))
  <1>1. In(t, Tail(q)) => In(t, q)
    <2>1. ASSUME NEW i \in 1..Len(Tail(q)), Tail(q)[i] = t
          PROVE  i + 1 \in 1..Len(q) /\ q[i + 1] = t
      BY <2>1
    <2>2. QED BY <2>1, Zenon DEF In
  <1>2. t = Head(q) => In(t, q)
    <2>1. 1 \in 1..Len(q) /\ q[1] = Head(q)
      OBVIOUS
    <2>2. QED BY <2>1, Zenon DEF In
  <1>3. ASSUME NEW i \in 1..Len(q), q[i] = t, i # 1
        PROVE  In(t, Tail(q))
    <2>1. i - 1 \in 1..Len(Tail(q)) /\ Tail(q)[i - 1] = t
      BY <1>3
    <2>2. QED BY <2>1, Zenon DEF In
  <1>4. In(t, q) => t = Head(q) \/ In(t, Tail(q))
    BY <1>3 DEF In
  <1>5. QED BY <1>1, <1>2, <1>4, Zenon

LEMMA InConcat ==
  ASSUME NEW S, NEW p \in Seq(S), NEW q \in Seq(S), NEW t
  PROVE  In(t, p \o q) <=> In(t, p) \/ In(t, q)
  <1>1. In(t, p) => In(t, p \o q)
    BY DEF In
  <1>2. ASSUME NEW i \in 1..Len(q), q[i] = t
        PROVE  In(t, p \o q)
    <2>1. Len(p) + i \in 1..Len(p \o q) /\ (p \o q)[Len(p) + i] = t
      BY <1>2
    <2>2. QED BY <2>1, Zenon DEF In
  <1>3. ASSUME NEW i \in 1..Len(p \o q), (p \o q)[i] = t
        PROVE  In(t, p) \/ In(t, q)
    <2>1. CASE i <= Len(p)
      BY <1>3, <2>1 DEF In
    <2>2. CASE i > Len(p)
      <3>1. i - Len(p) \in 1..Len(q) /\ q[i - Len(p)] = t
        BY <1>3, <2>2
      <3>2. QED BY <3>1, Zenon DEF In
    <2>3. QED BY <2>1, <2>2
  <1>4. In(t, q) => In(t, p \o q)
    BY <1>2, Zenon DEF In
  <1>5. In(t, p \o q) => In(t, p) \/ In(t, q)
    BY <1>3, Zenon DEF In
  <1>6. QED BY <1>1, <1>4, <1>5, Zenon

LEMMA AppendKeepsDistinct ==
  ASSUME NEW S, NEW q \in Seq(S), NEW e \in S, NoDuplicates(q), ~In(e, q)
  PROVE  NoDuplicates(Append(q, e))
  BY DEF NoDuplicates, In

LEMMA TailKeepsDistinct ==
  ASSUME NEW S, NEW q \in Seq(S), q # <<>>, NoDuplicates(q)
  PROVE  NoDuplicates(Tail(q)) /\ ~In(Head(q), Tail(q))
  <1>1. \A i \in 1..Len(Tail(q)) : i + 1 \in 1..Len(q) /\ Tail(q)[i] = q[i + 1]
    OBVIOUS
  <1>2. 1 \in 1..Len(q) /\ Head(q) = q[1]
    OBVIOUS
  <1>3. NoDuplicates(Tail(q))
    <2> SUFFICES ASSUME NEW i \in 1..Len(Tail(q)), NEW j \in 1..Len(Tail(q)),
                        Tail(q)[i] = Tail(q)[j]
                 PROVE  i = j
      BY Zenon DEF NoDuplicates
    <2>1. i + 1 = j + 1
      BY <1>1, Zenon DEF NoDuplicates
    <2>2. QED BY <2>1
  <1>4. ~In(Head(q), Tail(q))
    <2> SUFFICES ASSUME NEW i \in 1..Len(Tail(q)), Tail(q)[i] = Head(q)
                 PROVE  FALSE
      BY Zenon DEF In
    <2>1. i + 1 = 1
      BY <1>1, <1>2, Zenon DEF NoDuplicates
    <2>2. QED BY <2>1
  <1>5. QED BY <1>3, <1>4, Zenon
-----------------------------------------------------------------------------
(* What waking, completing and cancelling do, in terms of membership.      *)

LEMMA WakeEffect ==
  ASSUME TypeOK, NEW ws \in Seq(TaskIds), NEW e, Wake(ws, e)
  PROVE  /\ woken' \in Seq(TaskIds)
         /\ owed' \in [TaskIds -> BOOLEAN]
         /\ \A t \in TaskIds : In(t, woken') <=> In(t, woken) \/ In(t, ws)
         /\ \A t \in TaskIds : owed'[t] <=> t # e /\ (owed[t] \/ In(t, ws))
  <1>1. woken' = woken \o ws /\ woken \in Seq(TaskIds)
    BY Zenon DEF Wake, TypeOK
  <1>2. woken' \in Seq(TaskIds)
    BY <1>1
  <1>3. \A t \in TaskIds : In(t, woken') <=> In(t, woken) \/ In(t, ws)
    BY <1>1, InConcat, Zenon
  <1>4. owed' = [t \in TaskIds |-> t # e /\ (owed[t] \/ In(t, ws))]
    BY Zenon DEF Wake, In
  <1>5. owed' \in [TaskIds -> BOOLEAN]
    BY <1>4, Zenon DEF TypeOK
  <1>6. \A t \in TaskIds : owed'[t] <=> t # e /\ (owed[t] \/ In(t, ws))
    BY <1>4, Zenon
  <1>7. QED BY <1>2, <1>3, <1>5, <1>6, Zenon

LEMMA DropWakesType ==
  ASSUME TypeOK, NEW ws \in DropWakes
  PROVE  ws \in Seq(TaskIds)
  <1>1. \A t \in wakers : <<t>> \in Seq(TaskIds)
    BY DEF TypeOK
  <1>2. <<>> \in Seq(TaskIds)
    OBVIOUS
  <1>3. ws = <<>> \/ \E t \in wakers : ws = <<t>>
    BY Zenon DEF DropWakes
  <1>4. QED BY <1>1, <1>2, <1>3, Zenon

(* A task ends, however it ends: what is left of IInv to prove after that  *)
(* is the control state and the queue of deferred cancellations.           *)
EndType ==
  /\ entry \in [TaskIds -> EntryState]
  /\ state \in [TaskIds -> TaskState]
  /\ result \in [TaskIds -> ResultState]
  /\ joiners \in [TaskIds -> Seq(TaskIds)]
  /\ woken \in Seq(TaskIds)
  /\ owed \in [TaskIds -> BOOLEAN]
  /\ awaits \in [TaskIds -> SUBSET TaskIds]

MapBookkeeping ==
  /\ \A t \in TaskIds : t >= nextId => entry[t] = "none" /\ state[t] = "Unstarted"
  /\ \A t \in TaskIds : IF live(t) THEN ~done(t) ELSE awaits[t] = {}

LEMMA EndOfTask ==
  ASSUME IInv, NEW t \in TaskIds, live(t),
         NEW s \in {"Finished", "Cancelled", "Failed"},
         NEW r \in {"ok", "cancelled", "panicked"}, Complete(t, s, r),
         NEW ws \in Seq(TaskIds), Wake(ws, t),
         \A u \in TaskIds : In(u, joiners[t]) => In(u, ws),
         UNCHANGED <<nextId, runQueue>>
  PROVE  /\ EndType' /\ QueueHoldsScheduled' /\ NoLostWakeup'
         /\ JoinersAreWoken' /\ MapBookkeeping'
  <1>0. TypeOK
    BY Zenon DEF IInv
  <1>1. /\ woken' \in Seq(TaskIds)
        /\ owed' \in [TaskIds -> BOOLEAN]
        /\ \A u \in TaskIds : In(u, woken') <=> In(u, woken) \/ In(u, ws)
        /\ \A u \in TaskIds : owed'[u] <=> u # t /\ (owed[u] \/ In(u, ws))
    BY <1>0, WakeEffect, Zenon
  <1>2. EndType'
    BY <1>0, <1>1 DEF TypeOK, Complete, EndType, EntryState, TaskState, ResultState
  <1>3. \A u \in TaskIds : entry'[u] = IF u = t THEN "none" ELSE entry[u]
    BY <1>0, Zenon DEF TypeOK, Complete
  <1>4. \A u \in TaskIds : state'[u] = IF u = t THEN s ELSE state[u]
    BY <1>0, Zenon DEF TypeOK, Complete
  <1>5. QueueHoldsScheduled'
    BY <1>3, Zenon DEF QueueHoldsScheduled, IInv
  <1>6. NoLostWakeup'
    BY <1>1, <1>3, Zenon DEF NoLostWakeup, IInv, live
  <1>7. JoinersAreWoken'
    <2> SUFFICES ASSUME NEW p \in TaskIds, NEW u \in TaskIds, live(p)', u \in awaits'[p]
                 PROVE  IF done(u)' THEN owed'[p] ELSE In(p, joiners'[u])
      BY Zenon DEF JoinersAreWoken
    <2>1. p # t /\ live(p) /\ u \in awaits[p]
      BY <1>0, <1>3, Zenon DEF live, Complete, TypeOK
    <2>2. IF done(u) THEN owed[p] ELSE In(p, joiners[u])
      BY <2>1, Zenon DEF JoinersAreWoken, IInv
    <2>3. CASE u = t
      <3>1. ~done(t) /\ done(t)'
        BY <1>4, Zenon DEF IInv, Bookkeeping, done
      <3>2. In(p, ws)
        BY <2>2, <2>3, <3>1, Zenon
      <3>3. QED BY <1>1, <2>1, <2>3, <3>1, <3>2, Zenon
    <2>4. CASE u # t
      <3>1. done(u)' <=> done(u)
        BY <1>4, <2>4, Zenon DEF done
      <3>2. joiners'[u] = joiners[u]
        BY <1>0, <2>4, Zenon DEF Complete, TypeOK
      <3>3. QED BY <1>1, <2>1, <2>2, <3>1, <3>2, Zenon
    <2>5. QED BY <2>3, <2>4, Zenon
  <1>8. MapBookkeeping'
    BY <1>0, <1>3, <1>4, Zenon DEF MapBookkeeping, IInv, Bookkeeping, live, done, Complete, TypeOK
  <1>9. QED BY <1>2, <1>5, <1>6, <1>7, <1>8, Zenon

-----------------------------------------------------------------------------
(* IInv holds initially ...                                                *)
LEMMA InitIInv == ASSUME Init PROVE IInv
  <1>1. TypeOK
    <2>1. 1 \in 1..(MaxTasks + 1)
      BY ExecutorAssumption
    <2>2. <<>> \in Seq(TaskIds)
      OBVIOUS
    <2>3. joiners \in [TaskIds -> Seq(TaskIds)]
      BY <2>2, Zenon DEF Init
    <2>4. owed \in [TaskIds -> BOOLEAN] /\ awaits \in [TaskIds -> SUBSET TaskIds]
      BY Zenon DEF Init
    <2>5. QED
      BY <2>1, <2>2, <2>3, <2>4, Zenon DEF Init, TypeOK, EntryState, TaskState, ResultState
  <1>2. OnePollAtATime
    BY DEF Init, OnePollAtATime, TaskIds, NoTask
  <1>3. QueueHoldsScheduled
    BY InEmpty DEF Init, QueueHoldsScheduled, NoDuplicates
  <1>4. NoLostWakeup /\ JoinersAreWoken /\ SelfCancelTakesEffect
    BY InEmpty, Zenon DEF Init, NoLostWakeup, JoinersAreWoken, SelfCancelTakesEffect, live
  <1>5. Bookkeeping
    BY InEmpty, Zenon DEF Init, Bookkeeping, live
  <1>6. QED BY <1>1, <1>2, <1>3, <1>4, <1>5, Zenon DEF IInv

(* ... and every action preserves it.  First the run loop.                 *)
LEMMA SpawnEffect ==
  ASSUME IInv, spawn_named, UNCHANGED <<result, joiners, woken, cancelPending, owed, awaits>>
  PROVE  /\ entry' \in [TaskIds -> EntryState] /\ state' \in [TaskIds -> TaskState]
         /\ nextId' \in 1..(MaxTasks + 1) /\ runQueue' \in Seq(TaskIds)
         /\ \A t \in TaskIds : entry'[t] = IF t = nextId THEN "Scheduled" ELSE entry[t]
         /\ nextId \in TaskIds /\ ~live(nextId)
         /\ QueueHoldsScheduled' /\ NoLostWakeup' /\ JoinersAreWoken' /\ MapBookkeeping'
         /\ \A t \in TaskIds : In(t, runQueue') \/ In(t, cancelPending') => t < nextId'
  <1>0. TypeOK /\ Bookkeeping
    BY Zenon DEF IInv
  <1>1. nextId \in TaskIds /\ nextId \in Nat /\ nextId' = nextId + 1
    BY <1>0 DEF spawn_named, TypeOK
  <1>2. entry[nextId] = "none" /\ state[nextId] = "Unstarted" /\ ~In(nextId, runQueue)
    BY <1>0, <1>1 DEF Bookkeeping
  <1>3. /\ entry' \in [TaskIds -> EntryState] /\ state' \in [TaskIds -> TaskState]
        /\ runQueue' \in Seq(TaskIds)
    BY <1>0, <1>1 DEF spawn_named, TypeOK, EntryState, TaskState
  <1>4. nextId' \in 1..(MaxTasks + 1)
    BY <1>1, ExecutorAssumption DEF TaskIds
  <1>5. \A t \in TaskIds : /\ entry'[t] = IF t = nextId THEN "Scheduled" ELSE entry[t]
                           /\ state'[t] = IF t = nextId THEN "Scheduled" ELSE state[t]
    BY <1>0, Zenon DEF spawn_named, TypeOK
  <1>6. \A t \in TaskIds : In(t, runQueue') <=> In(t, runQueue) \/ t = nextId
    BY <1>0, <1>1, InAppend, Zenon DEF spawn_named, TypeOK
  <1>7. NoDuplicates(runQueue')
    BY <1>0, <1>1, <1>2, AppendKeepsDistinct, Zenon DEF spawn_named, TypeOK, IInv, QueueHoldsScheduled
  <1>8. QueueHoldsScheduled'
    BY <1>2, <1>5, <1>6, <1>7, Zenon DEF QueueHoldsScheduled, IInv
  <1>9. NoLostWakeup'
    BY <1>5, Zenon DEF NoLostWakeup, IInv, live
  <1>10. JoinersAreWoken'
    <2> SUFFICES ASSUME NEW p \in TaskIds, NEW u \in TaskIds, live(p)', u \in awaits[p]
                 PROVE  IF done(u)' THEN owed[p] ELSE In(p, joiners[u])
      BY Zenon DEF JoinersAreWoken
    <2>1. done(u)' <=> done(u)
      BY <1>2, <1>5, Zenon DEF done
    <2>2. live(p)
      BY <1>0, <1>2, <1>5, Zenon DEF Bookkeeping, live
    <2>3. QED BY <2>1, <2>2, Zenon DEF JoinersAreWoken, IInv
  <1>11. MapBookkeeping'
    BY <1>0, <1>1, <1>5 DEF MapBookkeeping, Bookkeeping, live, done, TaskIds
  <1>12. \A t \in TaskIds : In(t, runQueue') \/ In(t, cancelPending') => t < nextId'
    BY <1>0, <1>1, <1>6 DEF Bookkeeping, TaskIds
  <1>13. QED BY <1>1, <1>2, <1>3, <1>4, <1>5, <1>8, <1>9, <1>10, <1>11, <1>12, Zenon DEF live

LEMMA StartPreserves == ASSUME IInv, StartOfSimulation PROVE IInv'
  <1>0. TypeOK /\ Bookkeeping /\ OnePollAtATime /\ SelfCancelTakesEffect
    BY Zenon DEF IInv
  <1>1. /\ entry' \in [TaskIds -> EntryState] /\ state' \in [TaskIds -> TaskState]
        /\ nextId' \in 1..(MaxTasks + 1) /\ runQueue' \in Seq(TaskIds)
        /\ \A t \in TaskIds : entry'[t] = IF t = nextId THEN "Scheduled" ELSE entry[t]
        /\ nextId \in TaskIds /\ ~live(nextId)
        /\ QueueHoldsScheduled' /\ NoLostWakeup' /\ JoinersAreWoken' /\ MapBookkeeping'
        /\ \A t \in TaskIds : In(t, runQueue') \/ In(t, cancelPending') => t < nextId'
    BY SpawnEffect, Zenon DEF StartOfSimulation
  <1>2. (running' = running /\ ctl' = ctl) \/ (running' = TRUE /\ ctl' = "loop")
    BY Zenon DEF StartOfSimulation, run_until_idle
  <1>3. TypeOK'
    BY <1>0, <1>1, <1>2, Zenon DEF TypeOK, StartOfSimulation
  <1>4. OnePollAtATime'
    BY <1>0, <1>1, <1>2, Zenon DEF OnePollAtATime, StartOfSimulation, TypeOK, live
  <1>5. SelfCancelTakesEffect'
    BY <1>0, <1>1, <1>2, SMTT(60)
    DEF SelfCancelTakesEffect, StartOfSimulation, Bookkeeping, live, TypeOK, TaskIds
  <1>6. Bookkeeping'
    BY <1>0, <1>1, <1>2, Zenon DEF Bookkeeping, MapBookkeeping, StartOfSimulation
  <1>7. QED BY <1>1, <1>3, <1>4, <1>5, <1>6, Zenon DEF IInv

LEMMA SpawnPreserves == ASSUME IInv, Spawn PROVE IInv'
  <1>0. TypeOK /\ Bookkeeping /\ OnePollAtATime /\ SelfCancelTakesEffect
    BY Zenon DEF IInv
  <1>1. /\ entry' \in [TaskIds -> EntryState] /\ state' \in [TaskIds -> TaskState]
        /\ nextId' \in 1..(MaxTasks + 1) /\ runQueue' \in Seq(TaskIds)
        /\ \A t \in TaskIds : entry'[t] = IF t = nextId THEN "Scheduled" ELSE entry[t]
        /\ nextId \in TaskIds /\ ~live(nextId)
        /\ QueueHoldsScheduled' /\ NoLostWakeup' /\ JoinersAreWoken' /\ MapBookkeeping'
        /\ \A t \in TaskIds : In(t, runQueue') \/ In(t, cancelPending') => t < nextId'
    BY SpawnEffect, Zenon DEF Spawn
  <1>3. TypeOK'
    BY <1>0, <1>1, Zenon DEF TypeOK, Spawn
  <1>4. OnePollAtATime'
    BY <1>0, <1>1, Zenon DEF OnePollAtATime, Spawn, TypeOK, live
  <1>5. SelfCancelTakesEffect'
    BY <1>0, <1>1, SMTT(60) DEF SelfCancelTakesEffect, Spawn, Bookkeeping, live, TypeOK, TaskIds
  <1>6. Bookkeeping'
    BY <1>0, <1>1, Zenon DEF Bookkeeping, MapBookkeeping, Spawn
  <1>7. QED BY <1>1, <1>3, <1>4, <1>5, <1>6, Zenon DEF IInv

LEMMA FirePreserves == ASSUME IInv, NEW t \in TaskIds, Fire(t) PROVE IInv'
  <1>0. TypeOK /\ Bookkeeping /\ OnePollAtATime /\ SelfCancelTakesEffect
    BY Zenon DEF IInv
  <1>1. <<t>> \in Seq(TaskIds)
    OBVIOUS
  <1>2. /\ woken' \in Seq(TaskIds)
        /\ owed' \in [TaskIds -> BOOLEAN]
        /\ \A u \in TaskIds : In(u, woken') <=> In(u, woken) \/ In(u, <<t>>)
        /\ \A u \in TaskIds : owed'[u] <=> u # NoTask /\ (owed[u] \/ In(u, <<t>>))
    BY <1>0, <1>1, WakeEffect, Zenon DEF Fire
  <1>3. (running' = running /\ ctl' = ctl)
        \/ (~running /\ ctl = "sim" /\ running' = TRUE /\ ctl' = "loop")
    BY <1>0, Zenon DEF Fire, run_until_idle, OnePollAtATime
  <1>4. TypeOK'
    BY <1>0, <1>2, <1>3, Zenon DEF TypeOK, Fire
  <1>5. OnePollAtATime'
    BY <1>0, <1>3, Zenon DEF OnePollAtATime, Fire
  <1>6. QueueHoldsScheduled' /\ Bookkeeping' /\ SelfCancelTakesEffect'
    BY <1>0, <1>3, Zenon
    DEF IInv, QueueHoldsScheduled, Bookkeeping, SelfCancelTakesEffect, Fire, live, done
  <1>7. NoLostWakeup'
    BY <1>2, Zenon DEF IInv, NoLostWakeup, Fire, live
  <1>8. JoinersAreWoken'
    BY <1>2 DEF IInv, JoinersAreWoken, Fire, live, done, TaskIds, NoTask
  <1>9. QED BY <1>4, <1>5, <1>6, <1>7, <1>8, Zenon DEF IInv

LEMMA DrainWokenPreserves == ASSUME IInv, DrainWoken PROVE IInv'
  <1> DEFINE id == Head(woken)
  <1>0. TypeOK /\ Bookkeeping /\ OnePollAtATime /\ QueueHoldsScheduled
    BY Zenon DEF IInv
  <1>1. id \in TaskIds /\ woken' = Tail(woken) /\ woken' \in Seq(TaskIds)
    BY <1>0 DEF DrainWoken, TypeOK
  <1>2. \A u \in TaskIds : In(u, woken) <=> u = id \/ In(u, woken')
    BY <1>0, <1>1, InTail DEF DrainWoken, TypeOK
  <1>3. \A u \in TaskIds : entry[u] # "Running"
    BY <1>0 DEF OnePollAtATime, DrainWoken, NoTask, TaskIds
  <1>4. CASE entry[id] # "Pending"
    <2>1. UNCHANGED <<entry, state, runQueue>>
      BY <1>4, Zenon DEF DrainWoken
    <2>2. TypeOK' /\ OnePollAtATime' /\ QueueHoldsScheduled' /\ Bookkeeping'
          /\ SelfCancelTakesEffect' /\ JoinersAreWoken'
      BY <1>0, <1>1, <2>1, Zenon DEF TypeOK, OnePollAtATime, QueueHoldsScheduled, Bookkeeping, IInv,
         SelfCancelTakesEffect, JoinersAreWoken, live, done, DrainWoken
    <2>3. entry[id] \in {"Scheduled", "none"}
      BY <1>0, <1>1, <1>3, <1>4, Zenon DEF TypeOK, EntryState
    <2>4. NoLostWakeup'
      BY <1>1, <1>2, <2>1, <2>3, Zenon DEF NoLostWakeup, IInv, live, DrainWoken
    <2>5. QED BY <2>2, <2>4, Zenon DEF IInv
  <1>5. CASE entry[id] = "Pending"
    <2>1. \A u \in TaskIds : /\ entry'[u] = IF u = id THEN "Scheduled" ELSE entry[u]
                             /\ state'[u] = IF u = id THEN "Scheduled" ELSE state[u]
      BY <1>0, <1>5, Zenon DEF DrainWoken, TypeOK
    <2>2. runQueue' = Append(runQueue, id) /\ ~In(id, runQueue)
      BY <1>0, <1>1, <1>5, Zenon DEF DrainWoken, QueueHoldsScheduled
    <2>3. TypeOK'
      <3>1. /\ entry' = [entry EXCEPT ![id] = "Scheduled"]
            /\ state' = [state EXCEPT ![id] = "Scheduled"]
        BY <1>5, Zenon DEF DrainWoken
      <3>2. entry' \in [TaskIds -> EntryState] /\ state' \in [TaskIds -> TaskState]
        BY <1>0, <3>1, Zenon DEF TypeOK, EntryState, TaskState
      <3>3. runQueue' \in Seq(TaskIds)
        BY <1>0, <1>1, <2>2 DEF TypeOK
      <3>4. QED BY <1>0, <1>1, <3>2, <3>3, Zenon DEF DrainWoken, TypeOK
    <2>4. \A u \in TaskIds : In(u, runQueue') <=> In(u, runQueue) \/ u = id
      BY <1>0, <1>1, <2>2, InAppend, Zenon DEF TypeOK
    <2>5. NoDuplicates(runQueue')
      BY <1>0, <1>1, <2>2, AppendKeepsDistinct, Zenon DEF TypeOK, QueueHoldsScheduled
    <2>6. QueueHoldsScheduled'
      BY <1>0, <2>1, <2>4, <2>5, Zenon DEF QueueHoldsScheduled
    <2>7. OnePollAtATime'
      BY <1>0, <1>3, <2>1, Zenon DEF OnePollAtATime, DrainWoken
    <2>8. NoLostWakeup'
      BY <1>1, <1>2, <1>5, <2>1, Zenon DEF NoLostWakeup, IInv, live, DrainWoken
    <2>9. ~done(id)
      BY <1>0, <1>1, <1>5, Zenon DEF Bookkeeping, live
    <2>10. JoinersAreWoken'
      BY <1>1, <1>5, <2>1, <2>9, Zenon DEF JoinersAreWoken, IInv, live, done, DrainWoken
    <2>11. id < nextId
      BY <1>0, <1>1, <1>5 DEF Bookkeeping, TypeOK, TaskIds
    <2>12. Bookkeeping'
      BY <1>0, <1>1, <1>5, <2>1, <2>4, <2>11, SMTT(60)
      DEF Bookkeeping, live, done, DrainWoken, TypeOK, TaskIds
    <2>13. SelfCancelTakesEffect'
      BY <1>1, <1>5, <2>1, Zenon DEF SelfCancelTakesEffect, IInv, live, DrainWoken
    <2>14. QED BY <2>3, <2>6, <2>7, <2>8, <2>10, <2>12, <2>13, Zenon DEF IInv
  <1>6. QED BY <1>4, <1>5, Zenon

LEMMA PollTaskPreserves == ASSUME IInv, PollTask PROVE IInv'
  <1> DEFINE id == Head(runQueue)
  <1>0. TypeOK /\ Bookkeeping /\ OnePollAtATime /\ QueueHoldsScheduled
    BY Zenon DEF IInv
  <1>1. id \in TaskIds /\ runQueue' = Tail(runQueue) /\ runQueue' \in Seq(TaskIds)
    BY <1>0 DEF PollTask, TypeOK
  <1>2. \A u \in TaskIds : In(u, runQueue) <=> u = id \/ In(u, runQueue')
    BY <1>0, <1>1, InTail DEF PollTask, TypeOK
  <1>3. NoDuplicates(runQueue') /\ ~In(id, runQueue')
    BY <1>0, <1>1, TailKeepsDistinct, Zenon DEF PollTask, TypeOK, QueueHoldsScheduled
  <1>4. /\ \A u \in TaskIds : entry[u] # "Running"
        /\ \A u \in TaskIds : live(u) => ~In(u, cancelPending)
    BY <1>0 DEF OnePollAtATime, SelfCancelTakesEffect, IInv, PollTask, NoTask, TaskIds
  <1>5. CASE entry[id] # "Scheduled"
    <2>1. UNCHANGED <<entry, state, polling, ctl, wakers, owed, awaits>>
      BY <1>5, Zenon DEF PollTask
    <2>2. TypeOK' /\ OnePollAtATime' /\ SelfCancelTakesEffect' /\ JoinersAreWoken'
          /\ NoLostWakeup'
      BY <1>0, <1>1, <2>1, Zenon DEF TypeOK, OnePollAtATime, IInv, SelfCancelTakesEffect,
         JoinersAreWoken, NoLostWakeup, live, done, PollTask
    <2>3. QueueHoldsScheduled'
      BY <1>0, <1>2, <1>3, <1>5, <2>1, Zenon DEF QueueHoldsScheduled
    <2>4. Bookkeeping'
      BY <1>0, <1>2, <2>1, Zenon DEF Bookkeeping, live, done, PollTask
    <2>5. QED BY <2>2, <2>3, <2>4, Zenon DEF IInv
  <1>6. CASE entry[id] = "Scheduled"
    <2>1. /\ entry' = [entry EXCEPT ![id] = "Running"]
          /\ state' = [state EXCEPT ![id] = "Running"]
          /\ owed' = [owed EXCEPT ![id] = FALSE]
          /\ awaits' = [awaits EXCEPT ![id] = {}]
          /\ polling' = id /\ ctl' = "poll" /\ wakers' = wakers \cup {id}
      BY <1>6, Zenon DEF PollTask
    <2>2. /\ \A u \in TaskIds : entry'[u] = IF u = id THEN "Running" ELSE entry[u]
          /\ \A u \in TaskIds : state'[u] = IF u = id THEN "Running" ELSE state[u]
          /\ \A u \in TaskIds : owed'[u] = IF u = id THEN FALSE ELSE owed[u]
          /\ \A u \in TaskIds : awaits'[u] = IF u = id THEN {} ELSE awaits[u]
      BY <1>0, <2>1, Zenon DEF TypeOK
    <2>3. TypeOK'
      <3>1. entry' \in [TaskIds -> EntryState] /\ state' \in [TaskIds -> TaskState]
        BY <1>0, <2>1, Zenon DEF TypeOK, EntryState, TaskState
      <3>2. owed' \in [TaskIds -> BOOLEAN] /\ awaits' \in [TaskIds -> SUBSET TaskIds]
        BY <1>0, <2>1, Zenon DEF TypeOK
      <3>3. QED BY <1>0, <1>1, <2>1, <3>1, <3>2, ZenonT(60) DEF TypeOK, PollTask
    <2>4. OnePollAtATime'
      BY <1>0, <1>1, <1>4, <2>1, <2>2 DEF OnePollAtATime, PollTask, NoTask, TaskIds
    <2>5. QueueHoldsScheduled'
      BY <1>0, <1>2, <1>3, <2>2, Zenon DEF QueueHoldsScheduled
    <2>6. NoLostWakeup'
      BY <2>2, Zenon DEF NoLostWakeup, IInv, live, PollTask
    <2>7. ~done(id) /\ live(id)
      BY <1>0, <1>1, <1>6, Zenon DEF Bookkeeping, live
    <2>8. \A u \in TaskIds : done(u)' <=> done(u)
      BY <2>2, <2>7, Zenon DEF done
    <2>9. JoinersAreWoken'
      BY <1>6, <2>2, <2>8, Zenon DEF JoinersAreWoken, IInv, live, PollTask
    <2>10. Bookkeeping'
      BY <1>0, <1>1, <1>2, <1>6, <2>1, <2>2, <2>7, <2>8, ZenonT(60)
      DEF Bookkeeping, live, PollTask, TypeOK, TaskIds
    <2>11. SelfCancelTakesEffect'
      BY <1>4, <1>6, <2>1, <2>2, Zenon DEF SelfCancelTakesEffect, live, PollTask
    <2>12. QED BY <2>3, <2>4, <2>5, <2>6, <2>9, <2>10, <2>11, Zenon DEF IInv
  <1>7. QED BY <1>5, <1>6, Zenon

LEMMA IdlePreserves == ASSUME IInv, Idle PROVE IInv'
  BY Zenon DEF IInv, Idle, TypeOK, OnePollAtATime, QueueHoldsScheduled, NoLostWakeup,
     JoinersAreWoken, SelfCancelTakesEffect, Bookkeeping, live, done

(* What a future does while it is being polled.                            *)
LEMMA CancelSelfPreserves == ASSUME IInv, CancelSelf PROVE IInv'
  <1>0. TypeOK /\ Bookkeeping /\ OnePollAtATime
    BY Zenon DEF IInv
  <1>1. polling \in TaskIds /\ entry[polling] = "Running"
    BY <1>0, Zenon DEF OnePollAtATime, TypeOK, CancelSelf
  <1>2. polling < nextId
    BY <1>0, <1>1 DEF Bookkeeping, TypeOK, TaskIds
  <1>3. cancelPending' \in Seq(TaskIds)
        /\ \A u \in TaskIds : In(u, cancelPending') <=> In(u, cancelPending) \/ u = polling
    BY <1>0, <1>1, InAppend DEF CancelSelf, TypeOK
  <1>4. TypeOK' /\ OnePollAtATime'
    BY <1>0, <1>3, Zenon DEF TypeOK, OnePollAtATime, CancelSelf
  <1>5. QueueHoldsScheduled' /\ NoLostWakeup' /\ JoinersAreWoken'
    BY Zenon DEF IInv, QueueHoldsScheduled, NoLostWakeup, JoinersAreWoken, CancelSelf, live, done
  <1>6. SelfCancelTakesEffect' /\ Bookkeeping'
    BY <1>0, <1>2, <1>3, Zenon DEF IInv, SelfCancelTakesEffect, Bookkeeping, CancelSelf, live, done
  <1>7. QED BY <1>4, <1>5, <1>6, Zenon DEF IInv

LEMMA JoinPreserves == ASSUME IInv, NEW t \in TaskIds, Join(t) PROVE IInv'
  <1>0. TypeOK /\ Bookkeeping /\ OnePollAtATime
    BY Zenon DEF IInv
  <1>1. polling \in TaskIds /\ live(polling)
    BY <1>0, Zenon DEF OnePollAtATime, TypeOK, Join, live
  <1>2. CASE done(t)
    <2>1. result' = [result EXCEPT ![t] = "taken"] /\ UNCHANGED <<joiners, awaits>>
      BY <1>2, Zenon DEF Join
    <2>2. TypeOK'
      BY <1>0, <2>1, Zenon DEF TypeOK, Join, ResultState
    <2>3. QED
      BY <2>1, <2>2, Zenon DEF IInv, OnePollAtATime, QueueHoldsScheduled, NoLostWakeup,
         JoinersAreWoken, SelfCancelTakesEffect, Bookkeeping, Join, live, done
  <1>3. CASE ~done(t)
    <2>1. /\ joiners' = [joiners EXCEPT ![t] = Append(@, polling)]
          /\ awaits' = [awaits EXCEPT ![polling] = @ \cup {t}]
          /\ UNCHANGED result
      BY <1>3, Zenon DEF Join
    <2>2. TypeOK'
      <3>1. Append(joiners[t], polling) \in Seq(TaskIds)
        BY <1>0, <1>1 DEF TypeOK
      <3>2. joiners' \in [TaskIds -> Seq(TaskIds)]
        BY <1>0, <2>1, <3>1, Zenon DEF TypeOK
      <3>3. awaits' \in [TaskIds -> SUBSET TaskIds]
        BY <1>0, <2>1, Zenon DEF TypeOK
      <3>4. QED BY <1>0, <2>1, <3>2, <3>3, Zenon DEF TypeOK, Join
    <2>3. \A p, u \in TaskIds : In(p, joiners'[u]) <=> In(p, joiners[u]) \/ (u = t /\ p = polling)
      BY <1>0, <1>1, <2>1, InAppend DEF TypeOK
    <2>4. \A p \in TaskIds : awaits'[p] = IF p = polling THEN awaits[p] \cup {t} ELSE awaits[p]
      BY <1>0, <2>1, Zenon DEF TypeOK
    <2>5. JoinersAreWoken'
      BY <1>3, <2>3, <2>4, ZenonT(60) DEF JoinersAreWoken, IInv, Join, live, done
    <2>6. Bookkeeping'
      BY <1>0, <1>1, <2>4, Zenon DEF Bookkeeping, Join, live, done
    <2>7. QED
      BY <2>2, <2>5, <2>6, Zenon DEF IInv, OnePollAtATime, QueueHoldsScheduled, NoLostWakeup,
         SelfCancelTakesEffect, Join, live
  <1>4. QED BY <1>2, <1>3, Zenon

LEMMA CancelAfterPreserves == ASSUME IInv, NEW t \in TaskIds, CancelAfter(t) PROVE IInv'
  BY Zenon DEF IInv, CancelAfter, TypeOK, OnePollAtATime, QueueHoldsScheduled, NoLostWakeup,
     JoinersAreWoken, SelfCancelTakesEffect, Bookkeeping, live, done

(* Cancelling a task that is not being polled, wherever it is done.        *)
LEMMA CancelEntryEffect ==
  ASSUME IInv, NEW t \in TaskIds, CancelEntry(t), UNCHANGED <<nextId, runQueue>>
  PROVE  /\ EndType' /\ QueueHoldsScheduled' /\ NoLostWakeup'
         /\ JoinersAreWoken' /\ MapBookkeeping'
         /\ \A u \in TaskIds : entry'[u] = IF u = t THEN "none" ELSE entry[u]
  <1>0. TypeOK
    BY Zenon DEF IInv
  <1>1. CASE live(t)
    <2>1. PICK ws \in DropWakes : Wake(joiners[t] \o ws, t)
      BY <1>1, Zenon DEF CancelEntry
    <2>2. ws \in Seq(TaskIds) /\ joiners[t] \in Seq(TaskIds)
      BY <1>0, DropWakesType, Zenon DEF TypeOK
    <2>3. joiners[t] \o ws \in Seq(TaskIds)
      BY <2>2
    <2>4. \A u \in TaskIds : In(u, joiners[t]) => In(u, joiners[t] \o ws)
      BY <2>2, InConcat, Zenon
    <2>5. Complete(t, "Cancelled", "cancelled")
      BY <1>1, Zenon DEF CancelEntry
    <2>6. \A u \in TaskIds : entry'[u] = IF u = t THEN "none" ELSE entry[u]
      BY <1>0, <2>5, Zenon DEF TypeOK, Complete
    <2>7. QED BY <1>1, <2>1, <2>3, <2>4, <2>5, <2>6, EndOfTask, Zenon
  <1>2. CASE ~live(t)
    <2>1. UNCHANGED <<entry, state, result, joiners, woken, owed, awaits>>
      BY <1>2, Zenon DEF CancelEntry
    <2>2. EndType' /\ MapBookkeeping'
      BY <1>0, <2>1, Zenon DEF TypeOK, EndType, IInv, Bookkeeping, MapBookkeeping, live, done
    <2>3. QueueHoldsScheduled' /\ NoLostWakeup' /\ JoinersAreWoken'
      BY <2>1, Zenon DEF IInv, QueueHoldsScheduled, NoLostWakeup, JoinersAreWoken, live, done
    <2>4. QED BY <1>2, <2>1, <2>2, <2>3, Zenon DEF live
  <1>3. QED BY <1>1, <1>2, Zenon

LEMMA CancelPreserves == ASSUME IInv, NEW t \in TaskIds, Cancel(t) PROVE IInv'
  <1>0. TypeOK /\ Bookkeeping /\ OnePollAtATime /\ SelfCancelTakesEffect
    BY Zenon DEF IInv
  <1>1. /\ EndType' /\ QueueHoldsScheduled' /\ NoLostWakeup'
        /\ JoinersAreWoken' /\ MapBookkeeping'
        /\ \A u \in TaskIds : entry'[u] = IF u = t THEN "none" ELSE entry[u]
    BY CancelEntryEffect, Zenon DEF Cancel
  <1>2. TypeOK'
    BY <1>0, <1>1, Zenon DEF TypeOK, EndType, Cancel
  <1>3. OnePollAtATime' /\ SelfCancelTakesEffect'
    BY <1>0, <1>1, Zenon DEF OnePollAtATime, SelfCancelTakesEffect, Cancel, live
  <1>4. Bookkeeping'
    BY <1>0, <1>1, Zenon DEF Bookkeeping, MapBookkeeping, Cancel
  <1>5. QED BY <1>1, <1>2, <1>3, <1>4, Zenon DEF IInv

LEMMA SweepOnePreserves == ASSUME IInv, NEW t \in TaskIds, SweepOne(t) PROVE IInv'
  <1>0. TypeOK /\ Bookkeeping /\ OnePollAtATime /\ SelfCancelTakesEffect
    BY Zenon DEF IInv
  <1>1. /\ sweep' \in SUBSET TaskIds /\ ctl = "sweep" /\ ctl' \in {"poll", "sweep"}
        /\ UNCHANGED <<nextId, runQueue, running, polling, wakers>>
    BY <1>0, Zenon DEF SweepOne, TypeOK
  <1>2. CASE t = polling
    <2>1. /\ UNCHANGED <<entry, state, result, joiners, woken, owed, awaits>>
          /\ cancelPending' = Append(cancelPending, t)
      BY <1>2, Zenon DEF SweepOne
    <2>2. /\ cancelPending' \in Seq(TaskIds)
          /\ \A u \in TaskIds : In(u, cancelPending') <=> In(u, cancelPending) \/ u = t
      BY <1>0, <2>1, InAppend, SMTT(60) DEF TypeOK
    <2>3. TypeOK'
      BY <1>0, <1>1, <2>1, <2>2, Zenon DEF TypeOK
    <2>4. entry[t] = "Running" /\ t < nextId
      BY <1>0, <1>2, SMTT(60) DEF OnePollAtATime, Bookkeeping, TypeOK, TaskIds
    <2>5. OnePollAtATime' /\ QueueHoldsScheduled' /\ NoLostWakeup' /\ JoinersAreWoken'
      BY <1>0, <1>1, <2>1, ZenonT(60)
      DEF IInv, OnePollAtATime, QueueHoldsScheduled, NoLostWakeup, JoinersAreWoken, live, done
    <2>6. SelfCancelTakesEffect' /\ Bookkeeping'
      BY <1>0, <1>1, <1>2, <2>1, <2>2, <2>4, Zenon DEF SelfCancelTakesEffect, Bookkeeping, live, done
    <2>7. QED BY <2>3, <2>5, <2>6, Zenon DEF IInv
  <1>3. CASE t # polling
    <2>0. cancelPending' = cancelPending
      BY <1>3, Zenon DEF SweepOne
    <2>1. CancelEntry(t)
      BY <1>3, Zenon DEF SweepOne
    <2>2. /\ EndType' /\ QueueHoldsScheduled' /\ NoLostWakeup'
          /\ JoinersAreWoken' /\ MapBookkeeping'
          /\ \A u \in TaskIds : entry'[u] = IF u = t THEN "none" ELSE entry[u]
      BY <1>1, <2>1, CancelEntryEffect, Zenon
    <2>3. TypeOK'
      BY <1>0, <1>1, <2>0, <2>2, Zenon DEF TypeOK, EndType
    <2>4. OnePollAtATime' /\ SelfCancelTakesEffect'
      <3>1. \A u \in TaskIds : entry'[u] = IF u = t THEN "none" ELSE entry[u]
        BY <2>2, Zenon
      <3>2. OnePollAtATime'
        BY <1>0, <1>1, <1>3, <3>1, Zenon DEF OnePollAtATime
      <3>3. SelfCancelTakesEffect'
        BY <1>0, <1>1, <1>3, <2>0, <3>1, Zenon DEF SelfCancelTakesEffect, live
      <3>4. QED BY <3>2, <3>3, Zenon
    <2>5. Bookkeeping'
      BY <1>0, <1>1, <2>0, <2>2, Zenon DEF Bookkeeping, MapBookkeeping
    <2>6. QED BY <2>2, <2>3, <2>4, <2>5, Zenon DEF IInv
  <1>4. QED BY <1>2, <1>3, Zenon

(* How a poll returns, and the deferred cancellations after it.            *)
LEMMA PolledIsRunning ==
  ASSUME IInv, ctl = "poll"
  PROVE  polling \in TaskIds /\ entry[polling] = "Running" /\ live(polling)
  BY Zenon DEF IInv, OnePollAtATime, TypeOK, live

LEMMA PollReadyPreserves == ASSUME IInv, PollReady PROVE IInv'
  <1>0. TypeOK /\ Bookkeeping /\ OnePollAtATime /\ SelfCancelTakesEffect
    BY Zenon DEF IInv
  <1>1. polling \in TaskIds /\ live(polling)
    BY PolledIsRunning, Zenon DEF PollReady
  <1>2. joiners[polling] \in Seq(TaskIds)
    BY <1>0, <1>1, Zenon DEF TypeOK
  <1>3. /\ EndType' /\ QueueHoldsScheduled' /\ NoLostWakeup'
        /\ JoinersAreWoken' /\ MapBookkeeping'
    BY <1>1, <1>2, EndOfTask, Zenon DEF PollReady
  <1>4. \A u \in TaskIds : entry'[u] = IF u = polling THEN "none" ELSE entry[u]
    BY <1>0, Zenon DEF PollReady, Complete, TypeOK
  <1>5. TypeOK'
    BY <1>0, <1>3, Zenon DEF TypeOK, EndType, PollReady
  <1>6. OnePollAtATime' /\ SelfCancelTakesEffect'
    BY <1>0, <1>4
    DEF OnePollAtATime, SelfCancelTakesEffect, PollReady, live, NoTask, TaskIds
  <1>7. Bookkeeping'
    BY <1>0, <1>3, Zenon DEF Bookkeeping, MapBookkeeping, PollReady
  <1>8. QED BY <1>3, <1>5, <1>6, <1>7, Zenon DEF IInv

LEMMA PollPanicPreserves == ASSUME IInv, PollPanic PROVE IInv'
  <1>0. TypeOK /\ Bookkeeping /\ OnePollAtATime /\ SelfCancelTakesEffect
    BY Zenon DEF IInv
  <1>1. polling \in TaskIds /\ live(polling)
    BY PolledIsRunning, Zenon DEF PollPanic
  <1>2. PICK ws \in DropWakes : Wake(ws \o joiners[polling], polling)
    BY Zenon DEF PollPanic
  <1>3. joiners[polling] \in Seq(TaskIds) /\ ws \in Seq(TaskIds)
    BY <1>0, <1>1, DropWakesType, Zenon DEF TypeOK
  <1>4. ws \o joiners[polling] \in Seq(TaskIds)
    BY <1>3
  <1>5. \A u \in TaskIds : In(u, joiners[polling]) => In(u, ws \o joiners[polling])
    BY <1>3, InConcat, Zenon
  <1>6. /\ EndType' /\ QueueHoldsScheduled' /\ NoLostWakeup'
        /\ JoinersAreWoken' /\ MapBookkeeping'
    BY <1>1, <1>2, <1>4, <1>5, EndOfTask, Zenon DEF PollPanic
  <1>7. \A u \in TaskIds : entry'[u] = IF u = polling THEN "none" ELSE entry[u]
    BY <1>0, Zenon DEF PollPanic, Complete, TypeOK
  <1>8. TypeOK'
    BY <1>0, <1>6, Zenon DEF TypeOK, EndType, PollPanic
  <1>9. OnePollAtATime' /\ SelfCancelTakesEffect'
    BY <1>0, <1>7
    DEF OnePollAtATime, SelfCancelTakesEffect, PollPanic, live, NoTask, TaskIds
  <1>10. Bookkeeping'
    BY <1>0, <1>6, Zenon DEF Bookkeeping, MapBookkeeping, PollPanic
  <1>11. QED BY <1>6, <1>8, <1>9, <1>10, Zenon DEF IInv

LEMMA PollPendingPreserves == ASSUME IInv, PollPending PROVE IInv'
  <1>0. TypeOK /\ Bookkeeping /\ OnePollAtATime /\ SelfCancelTakesEffect
    BY Zenon DEF IInv
  <1>1. polling \in TaskIds /\ entry[polling] = "Running" /\ live(polling)
    BY PolledIsRunning, Zenon DEF PollPending
  <1>2. \A u \in TaskIds : /\ entry'[u] = IF u = polling THEN "Pending" ELSE entry[u]
                           /\ state'[u] = IF u = polling THEN "Pending" ELSE state[u]
    BY <1>0, Zenon DEF PollPending, TypeOK
  <1>3. \A u \in TaskIds : /\ live(u)' <=> live(u)
                           /\ done(u)' <=> done(u)
    BY <1>0, <1>1, <1>2, Zenon DEF Bookkeeping, live, done
  <1>4. TypeOK'
    BY <1>0, <1>1, Zenon DEF TypeOK, PollPending, EntryState, TaskState
  <1>5. OnePollAtATime'
    BY <1>0, <1>1, <1>2 DEF OnePollAtATime, PollPending, NoTask, TaskIds
  <1>6. QueueHoldsScheduled'
    BY <1>1, <1>2, SMTT(60) DEF QueueHoldsScheduled, IInv, PollPending
  <1>7. NoLostWakeup' /\ JoinersAreWoken'
    BY <1>1, <1>2, <1>3, Zenon DEF NoLostWakeup, JoinersAreWoken, IInv, PollPending
  <1>8. SelfCancelTakesEffect'
    BY <1>0, <1>3, InEmpty, Zenon DEF SelfCancelTakesEffect, PollPending
  <1>9. Bookkeeping'
    BY <1>0, <1>1, <1>2, <1>3, Zenon DEF Bookkeeping, PollPending
  <1>10. QED BY <1>4, <1>5, <1>6, <1>7, <1>8, <1>9, Zenon DEF IInv

LEMMA CancelDeferredPreserves == ASSUME IInv, CancelDeferred PROVE IInv'
  <1> DEFINE id == Head(cancelPending)
  <1>0. TypeOK /\ Bookkeeping /\ OnePollAtATime
    BY Zenon DEF IInv
  <1>1. cancelPending # <<>> /\ id \in TaskIds /\ cancelPending' \in Seq(TaskIds)
    BY <1>0 DEF CancelDeferred, Bookkeeping, TypeOK
  <1>2. \A u \in TaskIds : In(u, cancelPending) <=> u = id \/ In(u, cancelPending')
    BY <1>0, <1>1, InTail, Zenon DEF CancelDeferred, TypeOK
  <1>3. /\ EndType' /\ QueueHoldsScheduled' /\ NoLostWakeup'
        /\ JoinersAreWoken' /\ MapBookkeeping'
        /\ \A u \in TaskIds : entry'[u] = IF u = id THEN "none" ELSE entry[u]
    BY <1>1, CancelEntryEffect, Zenon DEF CancelDeferred
  <1>4. TypeOK'
    BY <1>0, <1>1, <1>3, Zenon DEF TypeOK, EndType, CancelDeferred
  <1>5. OnePollAtATime'
    BY <1>0, <1>1, <1>3, SMTT(60) DEF OnePollAtATime, CancelDeferred, NoTask, TaskIds
  <1>6. SelfCancelTakesEffect'
    BY InEmpty, Zenon DEF SelfCancelTakesEffect, CancelDeferred
  <1>7. Bookkeeping'
    BY <1>0, <1>2, <1>3, Zenon DEF Bookkeeping, MapBookkeeping, CancelDeferred
  <1>8. QED BY <1>3, <1>4, <1>5, <1>6, <1>7, Zenon DEF IInv

LEMMA DropPanicInDeferredPreserves == ASSUME IInv, DropPanicInDeferred PROVE IInv'
  <1> DEFINE id == Head(cancelPending)
  <1>0. TypeOK /\ Bookkeeping /\ OnePollAtATime
    BY Zenon DEF IInv
  <1>1. id \in TaskIds
    BY <1>0 DEF DropPanicInDeferred, Bookkeeping, TypeOK
  <1>2. /\ EndType' /\ QueueHoldsScheduled' /\ NoLostWakeup'
        /\ JoinersAreWoken' /\ MapBookkeeping'
        /\ \A u \in TaskIds : entry'[u] = IF u = id THEN "none" ELSE entry[u]
    BY <1>1, CancelEntryEffect, Zenon DEF DropPanicInDeferred
  <1>3. TypeOK'
    BY <1>0, <1>2, SMTT(60) DEF TypeOK, EndType, DropPanicInDeferred
  <1>4. OnePollAtATime'
    BY <1>0, <1>1, <1>2 DEF OnePollAtATime, DropPanicInDeferred, NoTask, TaskIds
  <1>5. SelfCancelTakesEffect'
    BY InEmpty, Zenon DEF SelfCancelTakesEffect, DropPanicInDeferred
  <1>6. Bookkeeping'
    BY <1>0, <1>2, InEmpty, Zenon DEF Bookkeeping, MapBookkeeping, DropPanicInDeferred
  <1>7. QED BY <1>2, <1>3, <1>4, <1>5, <1>6, Zenon DEF IInv

LEMMA DropPanicInPollPreserves == ASSUME IInv, DropPanicInPoll PROVE IInv'
  <1>0. TypeOK /\ Bookkeeping /\ OnePollAtATime /\ SelfCancelTakesEffect
    BY Zenon DEF IInv
  <1>1. polling \in TaskIds /\ entry[polling] = "Running" /\ live(polling)
    BY PolledIsRunning, Zenon DEF DropPanicInPoll
  <1>2. /\ \A u \in TaskIds : entry'[u] = IF u = polling THEN "none" ELSE entry[u]
        /\ \A u \in TaskIds : awaits'[u] = IF u = polling THEN {} ELSE awaits[u]
        /\ \A u \in TaskIds : owed'[u] = IF u = polling THEN FALSE ELSE owed[u]
    BY <1>0, Zenon DEF DropPanicInPoll, TypeOK
  <1>3. TypeOK'
    <2>1. entry' \in [TaskIds -> EntryState] /\ awaits' \in [TaskIds -> SUBSET TaskIds]
      BY <1>0, Zenon DEF TypeOK, DropPanicInPoll, EntryState
    <2>2. owed' \in [TaskIds -> BOOLEAN]
      BY <1>0, Zenon DEF TypeOK, DropPanicInPoll
    <2>3. QED BY <1>0, <2>1, <2>2, Zenon DEF TypeOK, DropPanicInPoll
  <1>4. OnePollAtATime' /\ SelfCancelTakesEffect'
    BY <1>0, <1>1, <1>2, SMTT(60)
    DEF OnePollAtATime, SelfCancelTakesEffect, DropPanicInPoll, NoTask, TaskIds, live
  <1>5. QueueHoldsScheduled' /\ NoLostWakeup'
    BY <1>1, <1>2, SMTT(60) DEF QueueHoldsScheduled, NoLostWakeup, IInv, DropPanicInPoll, live
  <1>6. JoinersAreWoken' /\ Bookkeeping'
    BY <1>0, <1>1, <1>2 DEF JoinersAreWoken, Bookkeeping, IInv, DropPanicInPoll, live, done
  <1>7. QED BY <1>3, <1>4, <1>5, <1>6, Zenon DEF IInv

-----------------------------------------------------------------------------
LEMMA NextPreserves == ASSUME IInv, [Next]_vars PROVE IInv'
  <1>1. CASE UNCHANGED vars
    BY <1>1, Zenon DEF vars, IInv, TypeOK, OnePollAtATime, QueueHoldsScheduled, NoLostWakeup,
       JoinersAreWoken, SelfCancelTakesEffect, Bookkeeping, live, done
  <1>2. CASE StartOfSimulation
    BY <1>2, StartPreserves, Zenon
  <1>3. CASE Loop
    BY <1>3, DrainWokenPreserves, PollTaskPreserves, IdlePreserves,
       CancelDeferredPreserves, DropPanicInDeferredPreserves, Zenon DEF Loop
  <1>4. CASE UserCode
    BY <1>4, SpawnPreserves, CancelSelfPreserves, FirePreserves, CancelPreserves,
       JoinPreserves, CancelAfterPreserves, SweepOnePreserves, Zenon DEF UserCode
  <1>5. CASE PollReturn
    BY <1>5, PollReadyPreserves, PollPendingPreserves, PollPanicPreserves,
       DropPanicInPollPreserves, Zenon DEF PollReturn
  <1>6. QED BY <1>1, <1>2, <1>3, <1>4, <1>5, Zenon DEF Next

(* IInv is an invariant of the executor, whatever the bounds and whether   *)
(* or not destructors panic.                                               *)
THEOREM Invariance == Spec => []IInv
  BY InitIInv, NextPreserves, PTL DEF Spec

(* The executor's variables keep their types.                              *)
THEOREM TypeCorrect == Spec => []TypeOK
  <1>1. IInv => TypeOK
    BY Zenon DEF IInv
  <1>2. QED BY <1>1, Invariance, PTL

(* poll_task never polls two tasks at once and is only ever reached from   *)
(* one run_until_idle; no live task is queued twice.                       *)
THEOREM PollsAreExclusive == Spec => [](OnePollAtATime /\ QueueHoldsScheduled)
  <1>1. IInv => OnePollAtATime /\ QueueHoldsScheduled
    BY Zenon DEF IInv
  <1>2. QED BY <1>1, Invariance, PTL

(* No wake and no joiner is forgotten, however wakes, polls, cancellations *)
(* and panics interleave.                                                  *)
THEOREM NoWakeIsForgotten == Spec => []WakesAreKept
  <1>1. IInv => WakesAreKept
    BY Zenon DEF IInv, WakesAreKept
  <1>2. QED BY <1>1, Invariance, PTL

(* A task that cancelled itself does not survive the poll it did so in.    *)
THEOREM SelfCancellation == Spec => []SelfCancelTakesEffect
  <1>1. IInv => SelfCancelTakesEffect
    BY Zenon DEF IInv
  <1>2. QED BY <1>1, Invariance, PTL

(* The way a task ended is never rewritten and the task never runs again.  *)
THEOREM EndsAreFinal == Spec => EndIsFinal
  <1> DEFINE Final == \A t \in TaskIds : done(t) => state'[t] = state[t] /\ ~live(t)'
  <1>1. ASSUME IInv, [Next]_vars PROVE [Final]_vars
    <2> SUFFICES ASSUME NEW t \in TaskIds, done(t), Next
                 PROVE  state'[t] = state[t] /\ ~live(t)'
      BY <1>1, Zenon
    <2>0. TypeOK /\ Bookkeeping /\ OnePollAtATime
      BY <1>1, Zenon DEF IInv
    <2>1. ~live(t) /\ entry[t] = "none" /\ t < nextId
      BY <2>0 DEF Bookkeeping, live, done, TypeOK, TaskIds
    <2>2. CASE StartOfSimulation \/ Spawn
      BY <2>0, <2>1, <2>2 DEF StartOfSimulation, Spawn, spawn_named, TypeOK, live
    <2>3. CASE DrainWoken
      <3>1. \/ UNCHANGED <<entry, state>>
            \/ /\ entry[Head(woken)] = "Pending"
               /\ entry' = [entry EXCEPT ![Head(woken)] = "Scheduled"]
               /\ state' = [state EXCEPT ![Head(woken)] = "Scheduled"]
        BY <2>3, Zenon DEF DrainWoken
      <3>2. QED BY <2>0, <2>1, <3>1, Zenon DEF TypeOK, live
    <2>4. CASE PollTask
      <3>1. \/ UNCHANGED <<entry, state>>
            \/ /\ entry[Head(runQueue)] = "Scheduled"
               /\ entry' = [entry EXCEPT ![Head(runQueue)] = "Running"]
               /\ state' = [state EXCEPT ![Head(runQueue)] = "Running"]
        BY <2>4, Zenon DEF PollTask
      <3>2. QED BY <2>0, <2>1, <3>1, Zenon DEF TypeOK, live
    <2>5. ASSUME NEW u, CancelEntry(u)
          PROVE  state'[t] = state[t] /\ ~live(t)'
      BY <2>0, <2>1, <2>5, SMT, Z3 DEF CancelEntry, Complete, TypeOK, live
    <2>6. CASE CancelDeferred \/ DropPanicInDeferred \/ \E u \in TaskIds : Cancel(u)
      BY <2>5, <2>6, Zenon DEF CancelDeferred, DropPanicInDeferred, Cancel
    <2>7. CASE \E u \in TaskIds : SweepOne(u)
      BY <2>1, <2>5, <2>7, Zenon DEF SweepOne, live
    <2>8. CASE PollReturn
      <3>1. ctl = "poll"
        BY <2>8, Zenon DEF PollReturn, PollReady, PollPending, PollPanic, DropPanicInPoll
      <3>2. polling # t
        BY <1>1, <2>1, <3>1, PolledIsRunning, Zenon
      <3>3. QED
        BY <2>0, <2>1, <2>8, <3>2, Zenon DEF PollReturn, PollReady, PollPending, PollPanic,
           DropPanicInPoll, Complete, TypeOK, live
    <2>9. CASE Idle \/ CancelSelf \/ \E u \in TaskIds : Fire(u) \/ Join(u) \/ CancelAfter(u)
      BY <2>1, <2>9, Zenon DEF Idle, CancelSelf, Fire, Join, CancelAfter, live
    <2>10. QED
      BY <2>2, <2>3, <2>4, <2>6, <2>7, <2>8, <2>9, Zenon DEF Next, Loop, UserCode
  <1>2. QED BY <1>1, Invariance, PTL DEF Spec, EndIsFinal

(* run_until_idle gives control back to the simulator only when nothing is *)
(* runnable and no wake is outstanding, unless a panic wedged it; and only *)
(* the panic of a destructor can do that.                                  *)
THEOREM Exhaustion == Spec => [](RunsToExhaustion /\ (wedged => DropsMayPanic))
  <1> DEFINE Rest == RunsToExhaustion /\ (wedged => DropsMayPanic)
  <1>1. Init => Rest
    BY Zenon DEF Init, RunsToExhaustion, wedged
  <1>2. ASSUME IInv, Rest, [Next]_vars PROVE Rest'
    <2>1. CASE Idle
      <3>1. \A t \in TaskIds : entry[t] \notin {"Scheduled", "Running"}
        BY <1>2, <2>1, InEmpty
        DEF IInv, Idle, OnePollAtATime, QueueHoldsScheduled, NoTask, TaskIds
      <3>2. QED BY <1>2, <2>1, <3>1, Zenon DEF Idle, RunsToExhaustion, wedged, IInv, TypeOK, EntryState
    <2>2. CASE UNCHANGED vars
      BY <1>2, <2>2, Zenon DEF vars, RunsToExhaustion, wedged
    <2>3. CASE StartOfSimulation \/ \E t \in TaskIds : Fire(t)
      <3>1. \/ ctl' # "sim"
            \/ running /\ UNCHANGED <<running, ctl>>
        BY <1>2, <2>3, Zenon DEF StartOfSimulation, Fire, run_until_idle
      <3>2. QED BY <1>2, <3>1 DEF RunsToExhaustion, wedged
    <2>4. CASE DrainWoken \/ PollTask \/ CancelDeferred \/ Spawn \/ CancelSelf
               \/ PollReady \/ PollPending \/ PollPanic
               \/ \E t \in TaskIds : Cancel(t) \/ Join(t) \/ CancelAfter(t) \/ SweepOne(t)
      <3>1. ASSUME ctl' # "sim" PROVE Rest'
        BY <3>1, Zenon DEF RunsToExhaustion, wedged
      <3>2. CASE DrainWoken \/ PollTask \/ CancelDeferred \/ Spawn \/ CancelSelf
        BY <3>1, <3>2, Zenon DEF DrainWoken, PollTask, CancelDeferred, Spawn, CancelSelf
      <3>3. CASE PollReady \/ PollPending \/ PollPanic
        BY <3>1, <3>3, Zenon DEF PollReady, PollPending, PollPanic
      <3>4. CASE \E t \in TaskIds : Cancel(t) \/ Join(t) \/ CancelAfter(t) \/ SweepOne(t)
        BY <3>1, <3>4, Zenon DEF Cancel, Join, CancelAfter, SweepOne
      <3>5. QED BY <2>4, <3>2, <3>3, <3>4, Zenon
    <2>5. CASE DropPanicInPoll \/ DropPanicInDeferred
      <3>1. DropsMayPanic /\ ctl # "sim" /\ running' = running
        BY <2>5, Zenon DEF DropPanicInPoll, DropPanicInDeferred
      <3>2. running'
        BY <1>2, <3>1, Zenon DEF IInv, OnePollAtATime
      <3>3. QED BY <3>1, <3>2, Zenon DEF RunsToExhaustion, wedged
    <2>6. QED
      BY <1>2, <2>1, <2>2, <2>3, <2>4, <2>5, Zenon DEF Next, Loop, UserCode, PollReturn
  <1>3. QED BY <1>1, <1>2, Invariance, PTL DEF Spec
-----------------------------------------------------------------------------
(* Before the first spawn nothing has run and nothing holds a waker.       *)
Started == running \/ wakers # {} => nextId > 1

MInv == IInv /\ Started

LEMMA InitStarted == ASSUME Init PROVE Started
  BY Zenon DEF Init, Started

LEMMA StartedPreserved ==
  ASSUME IInv, Started, [Next]_vars
  PROVE  Started'
  <1> USE DEF Started
  <1>1. CASE UNCHANGED vars
    BY <1>1, Zenon DEF vars
  <1>2. CASE StartOfSimulation
    BY <1>2 DEF StartOfSimulation, spawn_named
  <1>3. CASE PollTask
    <2>1. Head(runQueue) \in TaskIds /\ Head(runQueue) < nextId
      BY <1>3, InTail, SMTT(60) DEF PollTask, IInv, TypeOK, Bookkeeping
    <2>2. nextId > 1
      BY <2>1 DEF TaskIds, IInv, TypeOK
    <2>3. QED BY <1>3, <2>2, Zenon DEF PollTask
  <1>4. CASE Spawn
    BY <1>4 DEF Spawn, spawn_named, TaskIds
  <1>5. CASE \E t \in TaskIds : Fire(t)
    BY <1>5, Zenon DEF Fire, run_until_idle
  <1>6. CASE \/ DrainWoken \/ Idle \/ CancelDeferred \/ DropPanicInDeferred \/ CancelSelf
             \/ PollReady \/ PollPending \/ PollPanic \/ DropPanicInPoll
             \/ \E t \in TaskIds : Cancel(t) \/ Join(t) \/ CancelAfter(t) \/ SweepOne(t)
    <2>1. nextId' = nextId /\ wakers' = wakers /\ (running' => running)
      BY <1>6 DEF DrainWoken, Idle, CancelDeferred, DropPanicInDeferred, CancelSelf,
         PollReady, PollPending, PollPanic, DropPanicInPoll, Cancel, Join, CancelAfter,
         SweepOne
    <2>2. QED BY <2>1, Zenon
  <1>7. QED
    BY <1>1, <1>2, <1>3, <1>4, <1>5, <1>6, Zenon DEF Next, Loop, UserCode, PollReturn
-----------------------------------------------------------------------------
(* The mapping.                                                            *)

status == [t \in TaskIds |-> statusOf(t)]
again == polling # NoTask /\ In(polling, woken)

(* What each abstract status says of the executor.                         *)
LEMMA StatusMeans ==
  ASSUME IInv, NEW t \in TaskIds
  PROVE  /\ entry[t] # "none" => t < nextId
         /\ status[t] = statusOf(t)
         /\ status[t] = "unborn" <=> t >= nextId
         /\ status[t] = "over" <=> t < nextId /\ entry[t] = "none"
         /\ status[t] = "running" <=> entry[t] = "Running"
         /\ status[t] = "running" <=> t = polling
         /\ status[t] = "parked" <=> entry[t] = "Pending" /\ ~In(t, woken)
         /\ status[t] = "runnable" <=> \/ entry[t] = "Scheduled"
                                       \/ entry[t] = "Pending" /\ In(t, woken)
  <1>1. entry[t] # "none" => t < nextId
    BY DEF IInv, Bookkeeping, TypeOK, TaskIds
  <1>2. entry[t] \in EntryState /\ (t >= nextId <=> ~(t < nextId))
    BY DEF IInv, TypeOK, TaskIds
  <1>3. entry[t] = "Running" <=> t = polling
    BY Zenon DEF IInv, OnePollAtATime
  <1>4. QED BY <1>1, <1>2, <1>3, Zenon DEF status, statusOf, EntryState

(* A task whose entry, and whose place in the woken queue if it is parked, *)
(* do not change keeps its status.                                         *)
LEMMA StatusKept ==
  ASSUME IInv, NEW t \in TaskIds, entry'[t] = entry[t],
         t >= nextId <=> t >= nextId',
         entry[t] = "Pending" => (In(t, woken') <=> In(t, woken))
  PROVE  statusOf(t)' = statusOf(t)
  <1>1. entry[t] \in EntryState
    BY Zenon DEF IInv, TypeOK
  <1>2. QED BY <1>1, Zenon DEF statusOf, EntryState

(* A step that touches neither an entry nor a wake is a stutter.           *)
LEMMA Stutter ==
  ASSUME IInv, UNCHANGED <<entry, nextId, woken, polling>>,
         ctl # "sim", ctl' # "sim"
  PROVE  UNCHANGED Sched!svars
  <1>1. \A t \in TaskIds : statusOf(t)' = statusOf(t)
    BY Zenon DEF statusOf, In
  <1>2. QED BY <1>1, Zenon DEF Sched!svars, wedged, In

(* The end of a task, with the wakes ws, while the executor has control.   *)
LEMMA EndOfTaskMaps ==
  ASSUME IInv, NEW t \in TaskIds, live(t),
         NEW ws \in Seq(TaskIds), \A u \in TaskIds : In(u, woken') <=> In(u, woken) \/ In(u, ws),
         entry' = [entry EXCEPT ![t] = "none"], nextId' = nextId,
         polling' = IF t = polling THEN NoTask ELSE polling,
         ctl # "sim", running' = running
  PROVE  /\ ctl' # "sim" => Sched!SchedNext
         /\ ctl' = "sim" /\ (polling = t \/ polling = NoTask) => Sched!SchedNext
  <1> DEFINE W == {u \in TaskIds : In(u, ws)}
  <1>1. t < nextId /\ ~(t >= nextId) /\ status[t] \in {"runnable", "running", "parked"}
    BY StatusMeans, ZenonT(60) DEF live, IInv, TypeOK, EntryState, TaskIds
  <1>2. statusOf(t)' = "over"
    BY <1>1, Zenon DEF statusOf, IInv, TypeOK
  <1>3. ASSUME NEW u \in TaskIds, u # t
        PROVE  statusOf(u)' = IF u \in W /\ status[u] = "parked" THEN "runnable" ELSE status[u]
    <2>1. entry'[u] = entry[u] /\ entry[u] \in EntryState
      BY <1>3, Zenon DEF IInv, TypeOK
    <2>2. CASE u \in W /\ status[u] = "parked"
      BY <2>1, <2>2, StatusMeans, Zenon DEF statusOf, EntryState, IInv, TypeOK, TaskIds
    <2>3. CASE ~(u \in W /\ status[u] = "parked")
      <3>1. entry[u] = "Pending" => (In(u, woken') <=> In(u, woken))
        BY <2>3, StatusMeans, Zenon
      <3>2. QED BY <2>1, <2>3, <3>1, StatusKept, StatusMeans, Zenon
    <2>4. QED BY <2>2, <2>3, Zenon
  <1>4. status' = Sched!After(W, {t}, {})
    BY <1>2, <1>3, Zenon DEF status, Sched!After
  <1>5. (polling = NoTask \/ polling \in TaskIds) /\ NoTask \notin TaskIds
    BY DEF IInv, TypeOK, NoTask, TaskIds
  <1>6. ASSUME ctl' # "sim" PROVE Sched!EndTask(t, W)
    <2>1. again' = (~(status[t] = "running") /\ (again \/ \E u \in W : status[u] = "running"))
      BY <1>5, StatusMeans, Zenon DEF again
    <2>2. QED
      BY <1>1, <1>4, <1>6, <2>1, Zenon
      DEF Sched!EndTask, Sched!Alive, Sched!IsRunning, wedged, status, again
  <1>7. ASSUME ctl' = "sim", polling = t \/ polling = NoTask PROVE Sched!Escape(t, W)
    <2>1. again' = FALSE /\ wedged'
      BY <1>7, Zenon DEF again, wedged, IInv, OnePollAtATime, NoTask
    <2>2. QED
      BY <1>1, <1>4, <1>7, <2>1, Zenon DEF Sched!Escape, Sched!Alive, status, again
  <1>8. W \in SUBSET TaskIds
    BY Zenon
  <1>9. QED BY <1>6, <1>7, <1>8, Zenon DEF Sched!SchedNext
-----------------------------------------------------------------------------
(* The steps.                                                              *)

StepMaps == Sched!SchedNext \/ UNCHANGED Sched!svars

(* A new task.                                                             *)
LEMMA SpawnMaps ==
  ASSUME MInv, StartOfSimulation \/ Spawn
  PROVE  StepMaps
  <1>1. PICK n \in TaskIds : n = nextId
    BY Zenon DEF StartOfSimulation, Spawn, spawn_named
  <1>2. /\ nextId' = n + 1 /\ UNCHANGED <<woken, polling>>
        /\ \A u \in TaskIds : entry'[u] = IF u = n THEN "Scheduled" ELSE entry[u]
    BY <1>1, Zenon DEF StartOfSimulation, Spawn, spawn_named, MInv, IInv, TypeOK
  <1>3. ctl' # "sim" /\ ~wedged /\ wedged' = wedged
    BY DEF MInv, Started, StartOfSimulation, Spawn, run_until_idle, wedged
  <1>4. statusOf(n)' = "runnable" /\ status[n] = "unborn"
    BY <1>1, <1>2, StatusMeans DEF statusOf, MInv, TaskIds
  <1>5. ASSUME NEW u \in TaskIds, u # n PROVE statusOf(u)' = status[u]
    <2>1. u >= nextId <=> u >= nextId'
      BY <1>1, <1>2, <1>5 DEF TaskIds
    <2>2. QED BY <1>2, <1>5, <2>1, StatusKept, StatusMeans, Zenon DEF MInv
  <1>6. status' = Sched!After({}, {}, {n})
    BY <1>4, <1>5, Zenon DEF status, Sched!After
  <1>7. again' = again
    BY <1>2, Zenon DEF again
  <1>8. Sched!SpawnTask(n)
    BY <1>3, <1>4, <1>6, <1>7, Zenon DEF Sched!SpawnTask, status, again
  <1>9. QED BY <1>8, Zenon DEF StepMaps, Sched!SchedNext

(* A wake, from the simulator or from inside a poll.                       *)
LEMMA FireMaps ==
  ASSUME MInv, NEW t \in TaskIds, Fire(t)
  PROVE  StepMaps
  <1>1. UNCHANGED <<entry, nextId, polling>>
    BY Zenon DEF Fire
  <1>2. \A u \in TaskIds : In(u, woken') <=> In(u, woken) \/ u = t
    <2>1. <<t>> \in Seq(TaskIds) /\ \A u : In(u, <<t>>) <=> u = t
      BY DEF In
    <2>2. QED BY <2>1, WakeEffect, Zenon DEF Fire, MInv, IInv
  <1>3. ASSUME NEW u \in TaskIds
        PROVE  statusOf(u)' = IF u = t /\ status[u] = "parked" THEN "runnable" ELSE status[u]
    <2>1. entry[u] \in EntryState
      BY Zenon DEF MInv, IInv, TypeOK
    <2>2. QED BY <1>1, <1>2, <2>1, StatusMeans, Zenon DEF statusOf, MInv, EntryState
  <1>4. status' = Sched!After({t}, {}, {})
    BY <1>3, Zenon DEF status, Sched!After
  <1>5. again' = (again \/ \E u \in {t} : status[u] = "running")
    <2>1. (polling = NoTask \/ polling \in TaskIds) /\ NoTask \notin TaskIds
      BY DEF MInv, IInv, TypeOK, NoTask, TaskIds
    <2>2. QED BY <1>1, <1>2, <2>1, StatusMeans, Zenon DEF again, MInv
  <1>6. wedged' = wedged /\ (ctl' = "sim") = wedged
    BY Zenon DEF MInv, IInv, OnePollAtATime, TypeOK, Fire, run_until_idle, wedged
  <1>7. Sched!WakeTasks({t})
    BY <1>4, <1>5, <1>6, Zenon DEF Sched!WakeTasks, Sched!IsRunning, status, again
  <1>8. QED BY <1>7, Zenon DEF StepMaps, Sched!SchedNext

(* drain_woken moves a wake the scheduler has already counted.             *)
LEMMA DrainWokenMaps ==
  ASSUME MInv, DrainWoken
  PROVE  StepMaps
  <1>1. /\ ctl = "loop" /\ UNCHANGED <<ctl, running, polling, nextId>> /\ polling = NoTask
        /\ woken \in Seq(TaskIds) /\ woken # <<>> /\ woken' = Tail(woken)
    BY Zenon DEF DrainWoken, MInv, IInv, OnePollAtATime, TypeOK
  <1>2. Head(woken) \in TaskIds /\ \A u : In(u, woken) <=> u = Head(woken) \/ In(u, woken')
    BY <1>1, InTail
  <1>3. ASSUME NEW u \in TaskIds PROVE statusOf(u)' = statusOf(u)
    <2>1. entry[u] \in EntryState /\ entry \in [TaskIds -> EntryState]
      BY Zenon DEF MInv, IInv, TypeOK
    <2>2. entry'[u] = IF u = Head(woken) /\ entry[u] = "Pending" THEN "Scheduled" ELSE entry[u]
      BY <1>2, <2>1, Zenon DEF DrainWoken
    <2>3. QED BY <1>1, <1>2, <2>1, <2>2, Zenon DEF statusOf, EntryState
  <1>4. QED BY <1>1, <1>3, Zenon DEF StepMaps, Sched!svars, wedged

(* poll_task begins the poll of a runnable task, or drops a stale id.      *)
LEMMA PollTaskMaps ==
  ASSUME MInv, PollTask
  PROVE  StepMaps
  <1>1. /\ ctl = "loop" /\ UNCHANGED <<running, nextId, woken>> /\ polling = NoTask
        /\ woken = <<>> /\ Head(runQueue) \in TaskIds
    BY DEF PollTask, MInv, IInv, OnePollAtATime, TypeOK
  <1>2. CASE entry[Head(runQueue)] # "Scheduled"
    BY <1>1, <1>2, Stutter, Zenon DEF PollTask, StepMaps, MInv
  <1>3. CASE entry[Head(runQueue)] = "Scheduled"
    <2>0. PICK t \in TaskIds : t = Head(runQueue)
      BY <1>1, Zenon
    <2>1. entry' = [entry EXCEPT ![t] = "Running"] /\ polling' = t /\ ctl' = "poll"
      BY <1>3, <2>0, Zenon DEF PollTask
    <2>2. status[t] = "runnable" /\ ~(t >= nextId)
      BY <1>3, <2>0, StatusMeans, Zenon DEF MInv, IInv, TypeOK, TaskIds
    <2>3. \A u \in TaskIds : entry'[u] = IF u = t THEN "Running" ELSE entry[u]
      BY <2>1, Zenon DEF MInv, IInv, TypeOK
    <2>4. /\ statusOf(t)' = "running"
          /\ \A u \in TaskIds : u # t => statusOf(u)' = statusOf(u)
      BY <1>1, <2>2, <2>3, Zenon DEF statusOf
    <2>5. status' = [status EXCEPT ![t] = "running"]
      BY <2>4, Zenon DEF status
    <2>6. \A u \in TaskIds : status[u] # "running"
      BY <1>1, StatusMeans DEF MInv, NoTask, TaskIds
    <2>7. ~In(t, woken')
      BY <1>1, InEmpty, Zenon
    <2>8. Sched!BeginPoll(t)
      BY <1>1, <2>1, <2>2, <2>5, <2>6, <2>7, Zenon
      DEF Sched!BeginPoll, Sched!Runnable, Sched!IsRunning, wedged, status
    <2>9. QED BY <2>8, Zenon DEF StepMaps, Sched!SchedNext
  <1>4. QED BY <1>2, <1>3, Zenon

(* run_until_idle returns when no task is runnable.                        *)
LEMMA IdleMaps ==
  ASSUME MInv, Idle
  PROVE  StepMaps
  <1>1. /\ ctl = "loop" /\ woken = <<>> /\ runQueue = <<>> /\ polling = NoTask
        /\ ctl' = "sim" /\ ~running' /\ UNCHANGED <<entry, nextId, woken, polling>>
    BY Zenon DEF Idle, MInv, IInv, OnePollAtATime
  <1>2. \A t \in TaskIds : status[t] # "runnable" /\ status[t] # "running"
    BY <1>1, InEmpty, StatusMeans DEF MInv, IInv, QueueHoldsScheduled, NoTask, TaskIds
  <1>3. \A t \in TaskIds : statusOf(t)' = statusOf(t)
    BY <1>1, Zenon DEF statusOf
  <1>4. wedged' = wedged
    BY <1>1, Zenon DEF wedged
  <1>5. Sched!ReturnToSim
    BY <1>1, <1>2, <1>3, <1>4, Zenon
    DEF Sched!ReturnToSim, Sched!Runnable, Sched!IsRunning, status
  <1>6. QED BY <1>5, Zenon DEF StepMaps, Sched!SchedNext

(* A cancellation ends a task that is in the map, wherever it comes from.  *)
LEMMA CancelEntryMaps ==
  ASSUME MInv, NEW t \in TaskIds, CancelEntry(t), t # polling,
         UNCHANGED <<nextId, polling, running>>, ctl # "sim",
         ctl' # "sim" \/ (live(t) /\ polling = NoTask)
  PROVE  StepMaps
  <1>1. CASE ~live(t)
    BY <1>1, Stutter, Zenon DEF CancelEntry, StepMaps, MInv
  <1>2. CASE live(t)
    <2>1. PICK ws \in DropWakes : Wake(joiners[t] \o ws, t)
      BY <1>2, Zenon DEF CancelEntry
    <2>2. joiners[t] \o ws \in Seq(TaskIds)
      BY <2>1, DropWakesType DEF MInv, IInv, TypeOK
    <2>3. entry' = [entry EXCEPT ![t] = "none"]
      BY <1>2, Zenon DEF CancelEntry, Complete
    <2>4. \A u \in TaskIds : In(u, woken') <=> In(u, woken) \/ In(u, joiners[t] \o ws)
      BY <2>1, <2>2, WakeEffect, Zenon DEF MInv, IInv
    <2>5. PICK q \in Seq(TaskIds) : q = joiners[t] \o ws
      BY <2>2, Zenon
    <2>6. QED BY <1>2, <2>3, <2>4, <2>5, EndOfTaskMaps, Zenon DEF StepMaps, MInv
  <1>3. QED BY <1>1, <1>2, Zenon

LEMMA CancelMaps ==
  ASSUME MInv,
         CancelDeferred \/ DropPanicInDeferred \/ \E t \in TaskIds : Cancel(t) \/ SweepOne(t)
  PROVE  StepMaps
  <1>1. CASE CancelDeferred \/ DropPanicInDeferred
    <2>1. cancelPending \in Seq(TaskIds) /\ cancelPending # <<>> /\ ctl = "deferred"
      BY <1>1, Zenon DEF CancelDeferred, DropPanicInDeferred, MInv, IInv, TypeOK, Bookkeeping
    <2>2. PICK t \in TaskIds : t = Head(cancelPending)
      BY <2>1
    <2>3. polling = NoTask /\ t # polling
      BY <2>1 DEF MInv, IInv, OnePollAtATime, NoTask, TaskIds
    <2>4. CancelEntry(t) /\ UNCHANGED <<nextId, polling, running>>
          /\ (ctl' # "sim" \/ live(t))
      BY <1>1, <2>2, Zenon DEF CancelDeferred, DropPanicInDeferred
    <2>5. QED BY <2>1, <2>3, <2>4, CancelEntryMaps, Zenon
  <1>2. ASSUME NEW t \in TaskIds, Cancel(t) PROVE StepMaps
    BY <1>2, CancelEntryMaps, Zenon DEF Cancel
  <1>3. ASSUME NEW t \in TaskIds, SweepOne(t) PROVE StepMaps
    <2>1. ctl = "sweep" /\ ctl' # "sim" /\ UNCHANGED <<nextId, polling, running>>
      BY <1>3, Zenon DEF SweepOne
    <2>2. CASE t = polling
      BY <1>3, <2>1, <2>2, Stutter, Zenon DEF SweepOne, StepMaps, MInv
    <2>3. CASE t # polling
      BY <1>3, <2>1, <2>3, CancelEntryMaps, Zenon DEF SweepOne
    <2>4. QED BY <2>2, <2>3, Zenon
  <1>4. QED BY <1>1, <1>2, <1>3, Zenon

(* The ways a poll returns.                                                *)
LEMMA PollReturnMaps ==
  ASSUME MInv, PollReturn
  PROVE  StepMaps
  <1>1. PICK t \in TaskIds : t = polling
    BY Zenon DEF PollReturn, PollReady, PollPending, PollPanic, DropPanicInPoll,
       MInv, IInv, OnePollAtATime, TypeOK
  <1>2. /\ ctl = "poll" /\ entry[t] = "Running" /\ live(t) /\ running' = running
        /\ polling' = NoTask /\ nextId' = nextId
    BY <1>1, Zenon DEF PollReturn, PollReady, PollPending, PollPanic, DropPanicInPoll,
       MInv, IInv, OnePollAtATime, live
  <1>3. CASE PollReady \/ PollPanic
    <2>1. entry' = [entry EXCEPT ![t] = "none"] /\ ctl' # "sim"
      BY <1>1, <1>3, Zenon DEF PollReady, PollPanic, Complete
    <2>2. \A ws \in DropWakes : ws \o joiners[t] \in Seq(TaskIds)
      BY DropWakesType DEF MInv, IInv, TypeOK
    <2>3. PICK q \in Seq(TaskIds) : Wake(q, t)
      BY <1>1, <1>3, <2>2, Zenon DEF PollReady, PollPanic, MInv, IInv, TypeOK
    <2>4. \A u \in TaskIds : In(u, woken') <=> In(u, woken) \/ In(u, q)
      BY <2>3, WakeEffect, Zenon DEF MInv, IInv
    <2>5. QED BY <1>1, <1>2, <2>1, <2>4, EndOfTaskMaps, Zenon DEF StepMaps, MInv
  <1>4. CASE DropPanicInPoll
    <2>1. entry' = [entry EXCEPT ![t] = "none"] /\ woken' = woken /\ ctl' = "sim"
      BY <1>1, <1>4, Zenon DEF DropPanicInPoll
    <2>2. <<>> \in Seq(TaskIds)
         /\ \A u \in TaskIds : In(u, woken') <=> In(u, woken) \/ In(u, <<>>)
      BY <2>1, InEmpty
    <2>3. QED BY <1>1, <1>2, <2>1, <2>2, EndOfTaskMaps, Zenon DEF StepMaps, MInv
  <1>5. CASE PollPending
    <2>1. woken' = woken /\ ctl' # "sim"
          /\ \A u \in TaskIds : entry'[u] = IF u = t THEN "Pending" ELSE entry[u]
      BY <1>1, <1>5, Zenon DEF PollPending, MInv, IInv, TypeOK
    <2>2. ~(t >= nextId) /\ status[t] = "running"
      BY <1>2, StatusMeans, Zenon DEF MInv, IInv, TypeOK, TaskIds
    <2>3. /\ statusOf(t)' = IF In(t, woken) THEN "runnable" ELSE "parked"
          /\ \A u \in TaskIds : u # t => statusOf(u)' = statusOf(u)
      BY <1>2, <2>1, <2>2, Zenon DEF statusOf
    <2>4. again <=> In(t, woken)
      BY <1>1 DEF again, NoTask, TaskIds
    <2>5. status' = [status EXCEPT ![t] = IF again THEN "runnable" ELSE "parked"]
      BY <2>3, <2>4, Zenon DEF status
    <2>6. again' = FALSE /\ wedged' = wedged
      BY <1>2, <2>1, Zenon DEF again, wedged
    <2>7. Sched!Park(t)
      BY <1>2, <2>1, <2>2, <2>5, <2>6, Zenon DEF Sched!Park, Sched!IsRunning, status, again
    <2>8. QED BY <2>7, Zenon DEF StepMaps, Sched!SchedNext
  <1>6. QED BY <1>3, <1>4, <1>5, Zenon DEF PollReturn

(* The other calls of a future being polled change nothing the scheduler   *)
(* speaks of.                                                              *)
LEMMA OtherCallsMap ==
  ASSUME MInv, CancelSelf \/ \E t \in TaskIds : Join(t) \/ CancelAfter(t)
  PROVE  StepMaps
  <1>1. ctl # "sim" /\ ctl' # "sim" /\ UNCHANGED <<entry, nextId, woken, polling>>
    BY Zenon DEF CancelSelf, Join, CancelAfter
  <1>2. QED BY <1>1, Stutter, Zenon DEF StepMaps, MInv

LEMMA NextMaps ==
  ASSUME MInv, [Next]_vars
  PROVE  StepMaps
  <1>1. CASE UNCHANGED vars
    <2>1. \A t \in TaskIds : statusOf(t)' = statusOf(t)
      BY <1>1, Zenon DEF statusOf, vars
    <2>2. QED BY <1>1, <2>1, Zenon DEF StepMaps, Sched!svars, vars, wedged
  <1>2. QED
    BY <1>1, SpawnMaps, FireMaps, DrainWokenMaps, PollTaskMaps, IdleMaps, CancelMaps,
       PollReturnMaps, OtherCallsMap, Zenon DEF Next, Loop, UserCode

LEMMA InitMaps == ASSUME Init PROVE Sched!SchedInit
  <1>1. \A t \in TaskIds : statusOf(t) = "unborn"
    BY SMTT(60) DEF Init, statusOf, TaskIds
  <1>2. QED BY <1>1, Zenon DEF Init, Sched!SchedInit, wedged, NoTask

(* The executor implements the queue-free scheduler: polls, wakes, ends    *)
(* and returns to the simulator happen exactly when that allows them.      *)
THEOREM Refinement == Spec => RefinesScheduler
  <1>1. Init /\ IInv => MInv
    BY InitStarted, Zenon DEF MInv
  <1>2. MInv /\ IInv' /\ [Next]_vars => MInv'
    BY StartedPreserved, Zenon DEF MInv
  <1>3. Spec => []MInv
    BY <1>1, <1>2, Invariance, PTL DEF Spec
  <1>4. MInv /\ [Next]_vars => [Sched!SchedNext]_(Sched!svars)
    BY NextMaps, Zenon DEF StepMaps
  <1>5. Init => Sched!SchedInit
    BY InitMaps, Zenon
  <1>6. QED BY <1>3, <1>4, <1>5, PTL DEF Spec, RefinesScheduler, Sched!SchedSpec
=============================================================================
