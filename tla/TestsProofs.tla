----------------------------- MODULE TestsProofs -----------------------------
(***************************************************************************)
(* How a test runs and ends.  The objection registry is safe for any       *)
(* guards and clients, and so is the run phase that is built on it, for    *)
(* any tree of components and any tasks beside it; the walk of run_all     *)
(* over the tree and the verdicts of a regression are right for any tree,  *)
(* any number of tests, registrations and tasks.                           *)
(***************************************************************************)
EXTENDS MCTests, FiniteSetTheorems, TLAPS

(* Whoever holds a guard has objected.                                     *)
HoldersHaveRaised == guards # {} => raised_ever

(* The inductive invariant: the counter must be exact for the drop that    *)
(* empties the registry to be the one that sets the event.                 *)
RegInv ==
  /\ RegTypeOK
  /\ CountIsExact
  /\ HoldersHaveRaised
  /\ Consensus
  /\ NoConsensusIsMissed

(* Taking a description off the report leaves a report.                    *)
LEMMA UnlistType ==
  ASSUME active \in Seq(Descs), NEW d
  PROVE  Unlist(d) \in Seq(Descs)
<1> DEFINE places == {k \in 1..Len(active) : active[k] = d}
           pos == CHOOSE k \in places : \A j \in places : k <= j
           shorter == [k \in 1..(Len(active) - 1) |-> IF k < pos THEN active[k] ELSE active[k + 1]]
<1>1. CASE places = {}
  BY <1>1, Zenon DEF Unlist
<1>2. CASE places # {}
  <2>1. Len(active) - 1 \in Nat
    BY <1>2
  <2>2. \A k \in 1..(Len(active) - 1) : active[k] \in Descs /\ active[k + 1] \in Descs
    OBVIOUS
  <2> HIDE DEF pos
  <2>3. shorter \in [1..(Len(active) - 1) -> Descs]
    BY <2>2, Zenon
  <2>4. shorter \in Seq(Descs)
    BY <2>1, <2>3
  <2>5. Unlist(d) = shorter
    BY <1>2, Zenon DEF Unlist, pos
  <2>6. QED BY <2>4, <2>5, Zenon
<1>3. QED BY <1>1, <1>2, Zenon

(* The places at which a description is listed.                            *)
Places(q, d) == {k \in 1..Len(q) : q[k] = d}

LEMMA PlacesFinite ==
  ASSUME NEW q \in Seq(Descs), NEW d
  PROVE  IsFiniteSet(Places(q, d)) /\ Cardinality(Places(q, d)) \in Nat
<1>1. IsFiniteSet(1..Len(q))
  BY FS_Interval
<1>2. QED BY <1>1, FS_Subset, FS_CardinalityType, Zenon DEF Places

(* A set of natural numbers has a smallest one.                            *)
LEMMA SmallestIsThere ==
  ASSUME NEW S \in SUBSET Nat, S # {} PROVE \E m \in S : \A j \in S : m <= j
<1>1. PICK m \in S : \A j \in S : <<j, m>> \notin OpToRel(<, Nat)
  BY NatLessThanWellFounded, WFMin, Zenon
<1>2. \A j \in S : j < m => <<j, m>> \in OpToRel(<, Nat)
  BY Zenon DEF OpToRel
<1>3. \A j \in S : ~(j < m)
  BY <1>1, <1>2, Zenon
<1>4. QED BY <1>3

(* Taking a listed description off the report removes one place of that    *)
(* description, and none of any other.                                     *)
LEMMA UnlistOne ==
  ASSUME active \in Seq(Descs), NEW d, Places(active, d) # {}, NEW e
  PROVE  Cardinality(Places(Unlist(d), e)) =
           IF e = d THEN Cardinality(Places(active, e)) - 1 ELSE Cardinality(Places(active, e))
<1> DEFINE pos == CHOOSE k \in Places(active, d) : \A j \in Places(active, d) : k <= j
           shorter == [k \in 1..(Len(active) - 1) |-> IF k < pos THEN active[k] ELSE active[k + 1]]
<1>1. pos \in Places(active, d)
  <2>1. PICK m \in Places(active, d) : \A j \in Places(active, d) : m <= j
    <3>1. Places(active, d) \subseteq Nat
      BY DEF Places
    <3>2. QED BY <3>1, SmallestIsThere, Zenon
  <2>2. QED BY <2>1, Zenon
<1>2. Unlist(d) = shorter
  BY Zenon DEF Unlist, Places
<1> HIDE DEF pos
<1> DEFINE rest == Places(active, e) \ {pos}
           back == [k \in Places(shorter, e) |-> IF k < pos THEN k ELSE k + 1]
<1>3. pos \in 1..Len(active) /\ active[pos] = d
  BY <1>1, Zenon DEF Places
<1>4. Len(active) - 1 \in Nat /\ Len(shorter) = Len(active) - 1
  BY <1>3
<1>5. Places(shorter, e) \subseteq 1..(Len(active) - 1)
  BY <1>4, Zenon DEF Places
<1>6. back \in [Places(shorter, e) -> rest]
  BY <1>3, <1>4 DEF Places
<1>7. \A k, j \in Places(shorter, e) : back[k] = back[j] => k = j
  BY <1>3, <1>5, SMTT(60)
<1>8. \A m \in rest : \E k \in Places(shorter, e) : back[k] = m
  <2> SUFFICES ASSUME NEW m \in rest PROVE \E k \in Places(shorter, e) : back[k] = m
    BY Zenon
  <2>1. m \in 1..Len(active) /\ active[m] = e /\ m # pos
    BY Zenon DEF Places
  <2>2. CASE m < pos
    <3>1. m \in Places(shorter, e)
      BY <1>3, <1>4, <2>1, <2>2 DEF Places
    <3>2. QED BY <2>2, <3>1, Zenon
  <2>3. CASE m > pos
    <3>1. m - 1 \in Places(shorter, e) /\ ~(m - 1 < pos) /\ (m - 1) + 1 = m
      BY <1>3, <1>4, <2>1, <2>3 DEF Places
    <3>2. QED BY <3>1, Zenon
  <2>4. m < pos \/ m > pos
    BY <1>3, <2>1
  <2>5. QED BY <2>2, <2>3, <2>4, Zenon
<1>9. ExistsBijection(Places(shorter, e), rest)
  <2> HIDE DEF back, rest
  <2>1. back \in Injection(Places(shorter, e), rest)
    BY <1>6, <1>7, Zenon DEF Injection, IsInjective
  <2>2. back \in Surjection(Places(shorter, e), rest)
    BY <1>6, <1>8, Zenon DEF Surjection
  <2>3. QED BY <2>1, <2>2, Zenon DEF ExistsBijection, Bijection
<1>10. shorter \in Seq(Descs)
  BY <1>2, UnlistType, Zenon
<1>11. Cardinality(Places(shorter, e)) = Cardinality(rest)
  BY <1>9, <1>10, PlacesFinite, FS_Bijection, ZenonT(60)
<1>12. Cardinality(rest) =
         IF pos \in Places(active, e) THEN Cardinality(Places(active, e)) - 1
         ELSE Cardinality(Places(active, e))
  BY PlacesFinite, FS_RemoveElement, Zenon
<1>13. pos \in Places(active, e) <=> e = d
  BY <1>3, Zenon DEF Places
<1>14. QED BY <1>2, <1>11, <1>12, <1>13, Zenon

LEMMA InitRegInv == RegInit => RegInv
<1> SUFFICES ASSUME RegInit PROVE RegInv
  BY Zenon
<1>1. RegTypeOK
  <2>1. active \in Seq(Descs) /\ count \in Nat
    BY DEF RegInit
  <2>2. ready \in [Clients -> BOOLEAN] /\ raised_ever \in BOOLEAN /\ drained \in BOOLEAN
    BY Zenon DEF RegInit
  <2>3. fut \in [Clients -> {"idle", "drained", "all_dropped", "done"}]
    BY Zenon DEF RegInit
  <2>4. waiters \subseteq Clients /\ guards \subseteq Guards
    BY Zenon DEF RegInit
  <2>5. QED BY <2>1, <2>2, <2>3, <2>4, Zenon DEF RegTypeOK
<1>2. CountIsExact
  BY FS_EmptySet, Zenon DEF RegInit, CountIsExact
<1>3. HoldersHaveRaised /\ Consensus /\ NoConsensusIsMissed
  BY Zenon DEF RegInit, HoldersHaveRaised, Consensus, NoConsensusIsMissed
<1>4. QED BY <1>1, <1>2, <1>3, Zenon DEF RegInv

(* Live guards are finitely many.                                          *)
LEMMA GuardsFinite == RegTypeOK => IsFiniteSet(guards) /\ Cardinality(guards) \in Nat
  BY ObjectionsAssumption, FS_Subset, FS_CardinalityType, Zenon DEF RegTypeOK

LEMMA RaiseRegInv ==
  ASSUME RegInv, NEW g \in Guards, raise(g)
  PROVE  RegInv'
<1> USE DEF RegInv
<1>1. RegTypeOK'
  <2>1. active' \in Seq(Descs)
    BY ObjectionsAssumption DEF RegTypeOK, raise
  <2>2. guards' \subseteq Guards /\ count' \in Nat
    BY DEF RegTypeOK, raise
  <2>3. QED BY <2>1, <2>2, Zenon DEF RegTypeOK, raise
<1>2. CountIsExact'
  BY GuardsFinite, FS_AddElement, Zenon DEF CountIsExact, raise
<1>3. HoldersHaveRaised' /\ Consensus'
  BY Zenon DEF HoldersHaveRaised, Consensus, raise
<1>4. NoConsensusIsMissed'
  BY Zenon DEF NoConsensusIsMissed, raise
<1>5. QED BY <1>1, <1>2, <1>3, <1>4, Zenon

LEMMA DropRegInv ==
  ASSUME RegInv, NEW g \in Guards, drop(g)
  PROVE  RegInv'
<1> USE DEF RegInv
<1>1. IsFiniteSet(guards) /\ Cardinality(guards) \in Nat
  BY GuardsFinite, Zenon
<1>2. IsFiniteSet(guards') /\ Cardinality(guards') = Cardinality(guards) - 1
  BY <1>1, FS_RemoveElement, Zenon DEF drop
<1>3. Cardinality(guards) # 0
  BY <1>1, FS_EmptySet, Zenon DEF drop
<1>4. CountIsExact' /\ count' \in Nat
  BY <1>1, <1>2, <1>3 DEF CountIsExact, drop
<1>5. count' = 0 <=> guards' = {}
  BY <1>2, <1>4, FS_EmptySet, Zenon DEF CountIsExact
<1>6. active' \in Seq(Descs)
  BY UnlistType, Zenon DEF RegTypeOK, drop
<1>7. RegTypeOK'
  BY <1>4, <1>6, Zenon DEF RegTypeOK, drop, SetDrained
<1>8. raised_ever
  BY Zenon DEF HoldersHaveRaised, drop
<1>9. HoldersHaveRaised' /\ Consensus'
  <2>1. ~drained
    BY Zenon DEF Consensus, drop
  <2>2. CASE count' = 0
    BY <1>5, <1>8, <2>2, Zenon DEF HoldersHaveRaised, Consensus, drop, SetDrained
  <2>3. CASE count' # 0
    BY <1>5, <1>8, <2>1, <2>3, Zenon DEF HoldersHaveRaised, Consensus, drop
  <2>4. QED BY <2>2, <2>3, Zenon
<1>10. NoConsensusIsMissed'
  <2>1. CASE count' = 0
    BY <2>1, Zenon DEF NoConsensusIsMissed, RegTypeOK, drop, SetDrained
  <2>2. CASE count' # 0
    BY <2>2, Zenon DEF NoConsensusIsMissed, drop
  <2>3. QED BY <2>1, <2>2, Zenon
<1>11. QED BY <1>4, <1>7, <1>9, <1>10, Zenon

(* A client's steps leave the registry alone.                              *)
LEMMA ClientRegInv ==
  ASSUME RegInv, NEW p \in Clients,
         wait_drained_event(p) \/ wait_all_dropped(p) \/ Poll(p) \/ Cancel(p)
  PROVE  RegInv'
<1> USE DEF RegInv
<1>1. UNCHANGED registry
  BY Zenon DEF wait_drained_event, wait_all_dropped, Poll, Cancel
<1>2. CountIsExact' /\ HoldersHaveRaised' /\ Consensus'
  BY <1>1, Zenon DEF registry, CountIsExact, HoldersHaveRaised, Consensus
<1>3. RegTypeOK'
  BY <1>1, Zenon DEF registry, RegTypeOK, wait_drained_event, wait_all_dropped, Poll, Cancel
<1>4. NoConsensusIsMissed'
  BY <1>1, Zenon DEF registry, RegTypeOK, NoConsensusIsMissed, wait_drained_event, wait_all_dropped,
    Poll, Cancel
<1>5. QED BY <1>2, <1>3, <1>4, Zenon

LEMMA StepRegInv == RegInv /\ [RegNext]_regVars => RegInv'
<1> SUFFICES ASSUME RegInv, [RegNext]_regVars PROVE RegInv'
  BY Zenon
<1>1. CASE \E g \in Guards : raise(g) \/ drop(g)
  BY <1>1, RaiseRegInv, DropRegInv, Zenon
<1>2. CASE \E p \in Clients : wait_drained_event(p) \/ wait_all_dropped(p) \/ Poll(p) \/ Cancel(p)
  BY <1>2, ClientRegInv, Zenon
<1>3. CASE UNCHANGED regVars
  BY <1>3, Zenon DEF regVars, RegInv, RegTypeOK, CountIsExact, HoldersHaveRaised, Consensus, NoConsensusIsMissed
<1>4. QED BY <1>1, <1>2, <1>3, Zenon DEF RegNext

LEMMA RegistryInvariance == RegSpec => []RegInv
  BY InitRegInv, StepRegInv, PTL DEF RegSpec

(* The registry's state is always well typed.                              *)
THEOREM RegistryTypes == RegSpec => []RegTypeOK
<1>1. RegInv => RegTypeOK
  BY Zenon DEF RegInv
<1>2. QED BY <1>1, RegistryInvariance, PTL

(* The drained event is set exactly when somebody has objected and nobody  *)
(* does any more, however raises and drops interleave, and the counter     *)
(* that decides it never drifts from the live guards; and no client that   *)
(* waits for the consensus sleeps while it is there.                       *)
THEOREM ConsensusIsExact == RegSpec => [](ConsensusIsSound /\ CountIsExact)
<1>1. RegInv => ConsensusIsSound /\ CountIsExact
  BY Zenon DEF RegInv, ConsensusIsSound
<1>2. QED BY <1>1, RegistryInvariance, PTL

(* A wait ends only where nobody objects.                                  *)
THEOREM WaitsEndInConsensus == RegSpec => EndsInConsensus
<1>1. ASSUME RegInv, [RegNext]_regVars PROVE [EndStep]_regVars
  <2>1. CASE \E g \in Guards : raise(g) \/ drop(g)
    BY <2>1, Zenon DEF EndStep, raise, drop
  <2>2. ASSUME NEW p \in Clients,
               wait_drained_event(p) \/ wait_all_dropped(p) \/ Poll(p) \/ Cancel(p)
        PROVE  EndStep
    <3>1. count = 0 \/ ~raised_ever \/ drained => guards = {}
      BY <1>1, GuardsFinite, FS_EmptySet, Zenon DEF RegInv, CountIsExact, HoldersHaveRaised, Consensus
    <3>2. drained => raised_ever
      BY <1>1, Zenon DEF RegInv, Consensus
    <3>3. fut \in [Clients -> {"idle", "drained", "all_dropped", "done"}]
      BY <1>1, Zenon DEF RegInv, RegTypeOK
    <3>4. QED
      BY <2>2, <3>1, <3>2, <3>3, Zenon DEF EndStep, wait_drained_event, wait_all_dropped, Poll, Cancel
  <2>3. CASE UNCHANGED regVars
    BY <2>3, Zenon
  <2>4. QED BY <1>1, <2>1, <2>2, <2>3, Zenon DEF RegNext
<1>2. QED BY <1>1, RegistryInvariance, PTL DEF RegSpec, EndsInConsensus

(* The guards with a description.                                          *)
Holding(d) == {g \in guards : Desc[g] = d}

LEMMA ReportStep ==
  ASSUME RegInv, ReportIsExact, [RegNext]_regVars PROVE ReportIsExact'
<1>1. /\ IsFiniteSet(guards)
      /\ \A d : IsFiniteSet(Holding(d)) /\ Cardinality(Holding(d)) \in Nat
  BY GuardsFinite, FS_Subset, FS_CardinalityType, Zenon DEF Holding, RegInv
<1>2. active \in Seq(Descs) /\ guards \subseteq Guards
  BY Zenon DEF RegInv, RegTypeOK
<1>3. \A d \in Descs : Cardinality(Places(active, d)) = Cardinality(Holding(d))
  BY Zenon DEF ReportIsExact, Places, Holding
<1> SUFFICES ASSUME NEW d \in Descs
             PROVE  Cardinality(Places(active', d)) = Cardinality(Holding(d)')
  BY Zenon DEF ReportIsExact, Places, Holding
<1>4. ASSUME NEW g \in Guards, raise(g)
      PROVE  Cardinality(Places(active', d)) = Cardinality(Holding(d)')
  <2>1. active' = Append(active, Desc[g]) /\ guards' = guards \cup {g} /\ g \notin guards
    BY <1>4, Zenon DEF raise
  <2>2. Len(active') = Len(active) + 1 /\ Len(active) + 1 \notin Places(active, d)
    BY <1>2, <2>1, ObjectionsAssumption DEF Places
  <2>3. CASE Desc[g] = d
    <3>1. Places(active', d) = Places(active, d) \cup {Len(active) + 1}
      BY <1>2, <2>1, <2>2, <2>3 DEF Places
    <3>2. Holding(d)' = Holding(d) \cup {g} /\ g \notin Holding(d)
      BY <2>1, <2>3, Zenon DEF Holding
    <3>3. Cardinality(Places(active', d)) = Cardinality(Places(active, d)) + 1
      BY <1>2, <2>2, <3>1, PlacesFinite, FS_AddElement, ZenonT(60)
    <3>4. Cardinality(Holding(d)') = Cardinality(Holding(d)) + 1
      BY <1>1, <3>2, FS_AddElement, Zenon
    <3>5. QED BY <1>3, <3>3, <3>4, Zenon
  <2>4. CASE Desc[g] # d
    <3>1. Places(active', d) = Places(active, d)
      BY <1>2, <2>1, <2>2, <2>4 DEF Places
    <3>2. Holding(d)' = Holding(d)
      BY <2>1, <2>4, Zenon DEF Holding
    <3>3. QED BY <1>3, <3>1, <3>2, Zenon
  <2>5. QED BY <2>3, <2>4, Zenon
<1>5. ASSUME NEW g \in Guards, drop(g)
      PROVE  Cardinality(Places(active', d)) = Cardinality(Holding(d)')
  <2>1. active' = Unlist(Desc[g]) /\ guards' = guards \ {g} /\ g \in guards
    BY <1>5, Zenon DEF drop
  <2>2. Desc[g] \in Descs
    BY ObjectionsAssumption, Zenon
  <2>3. Places(active, Desc[g]) # {}
    <3>1. Holding(Desc[g]) # {}
      BY <2>1, Zenon DEF Holding
    <3>2. Cardinality(Holding(Desc[g])) # 0
      BY <1>1, <3>1, FS_EmptySet, Zenon
    <3>3. QED BY <1>3, <2>2, <3>2, FS_EmptySet
  <2>4. Cardinality(Places(active', d)) =
          IF d = Desc[g] THEN Cardinality(Places(active, d)) - 1 ELSE Cardinality(Places(active, d))
    BY <1>2, <2>1, <2>3, UnlistOne, Zenon
  <2>5. Holding(d)' = Holding(d) \ {g} /\ (g \in Holding(d) <=> d = Desc[g])
    BY <2>1, Zenon DEF Holding
  <2>6. Cardinality(Holding(d) \ {g}) =
          IF g \in Holding(d) THEN Cardinality(Holding(d)) - 1 ELSE Cardinality(Holding(d))
    BY <1>1, FS_RemoveElement, Zenon
  <2>7. QED BY <1>3, <2>4, <2>5, <2>6, Zenon
<1>6. ASSUME UNCHANGED <<active, guards>>
      PROVE  Cardinality(Places(active', d)) = Cardinality(Holding(d)')
  BY <1>3, <1>6, Zenon DEF Holding
<1>7. CASE \E p \in Clients : wait_drained_event(p) \/ wait_all_dropped(p) \/ Poll(p) \/ Cancel(p)
  BY <1>6, <1>7, Zenon DEF wait_drained_event, wait_all_dropped, Poll, Cancel, registry
<1>8. CASE UNCHANGED regVars
  BY <1>6, <1>8, Zenon DEF regVars
<1>9. QED BY <1>4, <1>5, <1>7, <1>8, Zenon DEF RegNext

(* The objection report lists every live guard's description, as often as  *)
(* there are guards with it, though a drop takes the first entry of its    *)
(* description off the list, whoever made it.                              *)
THEOREM ReportsAreExact == RegSpec => []ReportIsExact
<1>1. RegInit => ReportIsExact
  <2>1. ASSUME RegInit, NEW d \in Descs
        PROVE  Places(active, d) = {} /\ Holding(d) = {}
    BY <2>1 DEF RegInit, Places, Holding
  <2>2. QED BY <2>1, Zenon DEF ReportIsExact, Places, Holding
<1>2. QED BY <1>1, ReportStep, RegistryInvariance, PTL DEF RegSpec
-----------------------------------------------------------------------------
(* The run phase uses the registry as its specification says.              *)

OwnType == own \in [Components -> {"none", "running", "ok", "err", "stopped"}]

(* The steps in which the registry and the runs of the components do not   *)
(* take part.                                                              *)
Aside ==
  /\ UNCHANGED <<regVars, own>>
  /\ phase' = "end" => phase = "end"

LEMMA AsideSteps ==
  ASSUME \/ Elaborate \/ StartPoll \/ PostRun \/ Wake
         \/ \E c \in Components :
              \/ \E kind \in {"enter", "join", "own"} : Skip(kind, c)
              \/ Enter(c) \/ OwnIsOver(c) \/ BodyPanics(c)
  PROVE  Aside
  <1>1. CASE Elaborate \/ StartPoll \/ PostRun \/ Wake
    BY <1>1, Zenon DEF Aside, Elaborate, StartPoll, PostRun, Wake, tree
  <1>2. ASSUME NEW c \in Components, NEW kind \in {"enter", "join", "own"}, Skip(kind, c)
        PROVE  Aside
    BY <1>2, Zenon DEF Aside, Skip, tree
  <1>3. ASSUME NEW c \in Components, Enter(c) \/ OwnIsOver(c) \/ BodyPanics(c)
        PROVE  Aside
    BY <1>3, Zenon DEF Aside, Enter, OwnIsOver, BodyPanics, tree
  <1>4. QED BY <1>1, <1>2, <1>3, Zenon

(* What a step does to the registry, to the runs and to the phase.         *)
Allowed == [RegNext]_regVars /\ OwnType' /\ HeardStep

LEMMA AsideAllowed == ASSUME OwnType, Aside PROVE Allowed
  BY Zenon DEF Allowed, Aside, OwnType, HeardStep

(* A step that raises or drops an objection.                               *)
LEMMA GuardAllowed ==
  ASSUME OwnType, NEW g \in Components \cup Tasks, raise(g) \/ drop(g),
         own' = own, phase' = phase
  PROVE  Allowed
  <1>1. g \in Guards
    BY RunPhaseAssumption, Zenon
  <1>2. RegNext
    BY <1>1, Zenon DEF RegNext
  <1>3. QED BY <1>2, Zenon DEF Allowed, OwnType, HeardStep

LEMMA ClientSteps ==
  ASSUME NEW p \in Components \cup {Watcher},
         wait_drained_event(p) \/ wait_all_dropped(p) \/ Poll(p) \/ Cancel(p)
  PROVE  RegNext
  <1>1. p \in Clients
    BY RunPhaseAssumption, Zenon
  <1>2. QED BY <1>1, Zenon DEF RegNext

LEMMA JoinKeptAllowed ==
  ASSUME OwnType, NEW c \in Components, JoinKept(c) PROVE Allowed
  <1>1. phase' = phase
    BY Zenon DEF JoinKept
  <1>2. CASE Kept(c) \cap failed # {}
    <2>1. UNCHANGED <<own, regVars>>
      BY <1>2, Zenon DEF JoinKept
    <2>2. QED BY <1>1, <2>1, AsideAllowed, Zenon DEF Aside
  <1>3. CASE Kept(c) \cap failed = {}
    <2>1. own' = [own EXCEPT ![c] = "running"] /\ wait_drained_event(c)
      BY <1>3, Zenon DEF JoinKept
    <2>2. RegNext
      BY <2>1, ClientSteps, Zenon
    <2>3. QED BY <1>1, <2>1, <2>2, Zenon DEF Allowed, OwnType, HeardStep
  <1>4. QED BY <1>2, <1>3, Zenon

(* A body that is pending is stopped where the event is set.               *)
LEMMA BodyPendsAllowed ==
  ASSUME RegInv, OwnType, NEW c \in Components, BodyPends(c) PROVE Allowed
  <1>1. /\ phase' = phase /\ Poll(c)
        /\ own' = IF drained THEN [own EXCEPT ![c] = "stopped"] ELSE own
    BY Zenon DEF BodyPends
  <1>2. RegNext
    BY <1>1, ClientSteps, Zenon
  <1>3. drained => raised_ever /\ guards = {}
    BY Zenon DEF RegInv, Consensus
  <1>4. HeardStep
    BY <1>1, <1>3, Zenon DEF OwnType, HeardStep
  <1>5. OwnType'
    BY <1>1, Zenon DEF OwnType
  <1>6. QED BY <1>2, <1>4, <1>5, Zenon DEF Allowed

LEMMA BodyReturnsAllowed ==
  ASSUME OwnType, NEW c \in Components, BodyReturns(c) PROVE Allowed
  <1>1. PICK r \in {"ok", "err"} : own' = [own EXCEPT ![c] = r]
    BY Zenon DEF BodyReturns
  <1>2. phase' = phase /\ Cancel(c)
    BY Zenon DEF BodyReturns
  <1>3. RegNext
    BY <1>2, ClientSteps, Zenon
  <1>4. QED BY <1>1, <1>2, <1>3, Zenon DEF Allowed, OwnType, HeardStep

(* The runner's wait ends where the counter, or the event, says so.        *)
LEMMA WatcherAllowed ==
  ASSUME RegInv, OwnType, AwaitObjections \/ PollWatcher PROVE Allowed
  <1>1. own' = own
    BY Zenon DEF AwaitObjections, PollWatcher, tree
  <1>2. [RegNext]_regVars
    BY ClientSteps, Zenon DEF AwaitObjections, PollWatcher
  <1>3. phase' = "end" /\ phase # "end" => guards = {}
    <2>1. drained \/ ~raised_ever \/ count = 0 => guards = {}
      <3>1. drained \/ ~raised_ever => guards = {}
        BY Zenon DEF RegInv, Consensus, HoldersHaveRaised
      <3>2. count = 0 => guards = {}
        BY GuardsFinite, FS_EmptySet, ZenonT(60) DEF RegInv, CountIsExact
      <3>3. QED BY <3>1, <3>2, Zenon
    <2>2. phase' = "end" /\ phase # "end" => drained \/ ~raised_ever \/ count = 0
      BY Zenon DEF AwaitObjections, PollWatcher
    <2>3. QED BY <2>1, <2>2, Zenon
  <1>4. QED BY <1>1, <1>2, <1>3, Zenon DEF Allowed, OwnType, HeardStep

LEMMA StepAllowed == ASSUME RegInv, OwnType, Next PROVE Allowed
  <1>1. CASE \/ Elaborate \/ StartPoll \/ PostRun \/ Wake
             \/ \E c \in Components :
                  \/ \E kind \in {"enter", "join", "own"} : Skip(kind, c)
                  \/ Enter(c) \/ OwnIsOver(c) \/ BodyPanics(c)
    BY <1>1, AsideSteps, AsideAllowed, Zenon
  <1>2. ASSUME NEW c \in Components, BodyRaises(c) \/ BodyDrops(c) \/ WalkRaises(c) \/ TreeDrops(c) PROVE Allowed
    <2>1. (raise(c) \/ drop(c)) /\ own' = own /\ phase' = phase
      BY <1>2, Zenon DEF BodyRaises, BodyDrops, WalkRaises, TreeDrops, tree
    <2>2. QED BY <2>1, GuardAllowed, Zenon
  <1>3. ASSUME NEW t \in Tasks, TaskRaises(t) \/ TaskDrops(t) PROVE Allowed
    <2>1. (raise(t) \/ drop(t)) /\ own' = own /\ phase' = phase
      BY <1>3, Zenon DEF TaskRaises, TaskDrops, tree
    <2>2. QED BY <2>1, GuardAllowed, Zenon
  <1>4. CASE AwaitObjections \/ PollWatcher
    BY <1>4, WatcherAllowed, Zenon
  <1>5. ASSUME NEW c \in Components, JoinKept(c) \/ BodyPends(c) \/ BodyReturns(c) PROVE Allowed
    BY <1>5, JoinKeptAllowed, BodyPendsAllowed, BodyReturnsAllowed, Zenon
  <1>6. QED BY <1>1, <1>2, <1>3, <1>4, <1>5, Zenon DEF Next, TestTask

LEMMA RunInvariance == Spec => [](RegInv /\ OwnType)
  <1>1. Init => RegInv /\ OwnType
    <2>1. Init => OwnType
      BY Zenon DEF Init, OwnType
    <2>2. QED BY <2>1, InitRegInv, Zenon DEF Init
  <1>2. RegInv /\ OwnType /\ [Next]_vars => (RegInv /\ OwnType)'
    <2> SUFFICES ASSUME RegInv, OwnType, [Next]_vars PROVE RegInv' /\ OwnType'
      BY Zenon
    <2>1. [RegNext]_regVars /\ OwnType'
      <3>1. CASE Next
        BY <3>1, StepAllowed, Zenon DEF Allowed
      <3>2. CASE UNCHANGED vars
        BY <3>2, Zenon DEF vars, tree, OwnType
      <3>3. QED BY <3>1, <3>2, Zenon
    <2>2. QED BY <2>1, StepRegInv, Zenon
  <1>3. QED BY <1>1, <1>2, PTL DEF Spec

(* The run phase uses the registry as the registry's own specification     *)
(* says, so everything proved of the registry holds in a test.             *)
THEOREM RegistryIsKept == Spec => RegSpec
  <1>1. Init => RegInit
    BY Zenon DEF Init
  <1>2. RegInv /\ OwnType /\ [Next]_vars => [RegNext]_regVars
    <2>1. RegInv /\ OwnType /\ Next => [RegNext]_regVars
      BY StepAllowed, Zenon DEF Allowed
    <2>2. UNCHANGED vars => UNCHANGED regVars
      BY Zenon DEF vars
    <2>3. QED BY <2>1, <2>2, Zenon
  <1>3. QED BY <1>1, <1>2, RunInvariance, PTL DEF Spec, RegSpec

(* In a test over any tree of components no run body is stopped, and the   *)
(* test does not end, while anybody objects.                               *)
THEOREM NobodyIsOverruled == Spec => ObjectionsAreHeard
  <1>1. RegInv /\ OwnType /\ [Next]_vars => [HeardStep]_vars
    BY StepAllowed, Zenon DEF Allowed
  <1>2. QED BY <1>1, RunInvariance, PTL DEF Spec, ObjectionsAreHeard

(* In a test the drained event is set exactly in a consensus, and nobody   *)
(* who waits for it sleeps through it.                                     *)
THEOREM ConsensusInTests == Spec => []ConsensusIsSound
  <1>1. RegInv => ConsensusIsSound
    BY Zenon DEF RegInv, ConsensusIsSound
  <1>2. QED BY <1>1, RunInvariance, PTL

-----------------------------------------------------------------------------
-----------------------------------------------------------------------------
(* The run phase over the tree.                                            *)

TreeTypeOK ==
  /\ step \in [Components -> {"none", "in_place", "joined", "returned"}]
  /\ OwnType
  /\ failed \subseteq Components

(* A child is polled only by a parent that has come to it, and a parent    *)
(* returns only after the children it has started.                         *)
StepsFit ==
  \A c \in Components :
    /\ step[c] = "none" => \A d \in Children(c) : step[d] = "none"
    /\ step[c] = "in_place" => \A d \in Taken(c) : step[d] = "none"
    /\ step[c] = "joined" =>
         own[c] # "none" /\ \A d \in Kept(c) : step[d] = "returned" /\ d \notin failed
    /\ step[c] = "returned" => \A d \in Children(c) : step[d] \in {"none", "returned"}

(* A run_all that returns Ok has seen its own run and all its children end *)
(* well.                                                                   *)
GoodReturns ==
  /\ \A c \in failed : step[c] = "returned"
  /\ \A c \in Components :
       step[c] = "returned" /\ c \notin failed =>
         /\ own[c] \in {"ok", "stopped"}
         /\ \A d \in Children(c) : step[d] = "returned" /\ d \notin failed

(* What is out of the tree was taken by a parent whose run_all goes on.    *)
OutFits ==
  \A d \in out : \E c \in Components : step[c] \in {"in_place", "joined"} /\ d \in Taken(c)

(* Before the run phase nothing is out; after it nothing is, and a good    *)
(* outcome is that of the root.                                            *)
EndFits ==
  /\ phase \in {"elab", "consensus", "end"} => out = {}
  /\ phase \in {"consensus", "end"} /\ outcome = "ok" =>
       step[Root] = "returned" /\ Root \notin failed

TreeInv == TreeTypeOK /\ StepsFit /\ GoodReturns /\ OutFits /\ EndFits

LEMMA KidsAre ==
  ASSUME NEW c \in Components
  PROVE  /\ Children(c) \subseteq Components
         /\ Taken(c) \subseteq Children(c) /\ Kept(c) \subseteq Children(c)
         /\ \A d \in Children(c) : d \in Taken(c) <=> d \notin Kept(c)
<1>1. Kids[c] \in Seq(Components)
  BY RunPhaseAssumption, Zenon
<1>2. Children(c) \subseteq Components
  BY <1>1 DEF Children, Range
<1>3. QED BY <1>2, Zenon DEF Taken, Kept

LEMMA ParentIs ==
  ASSUME NEW p \in Components, NEW c \in Children(p) PROVE Parent(c) = p
<1>1. \A q \in Components : c \in Children(q) => q = p
  BY TreeAssumption, Zenon
<1>2. QED BY <1>1, Zenon DEF Parent

(* Whoever is being run is run by a parent that has come to it.            *)
LEMMA ParentWaits ==
  ASSUME TreeTypeOK, StepsFit, NEW p \in Components, NEW c \in Children(p),
         step[c] \in {"in_place", "joined"}
  PROVE  \/ step[p] = "in_place" /\ c \in Kept(p)
         \/ step[p] = "joined" /\ c \notin Kept(p)
  BY KidsAre, Zenon DEF TreeTypeOK, StepsFit

(* The part of the invariant that a step within the run phase can disturb. *)
Fits == TreeTypeOK /\ StepsFit /\ GoodReturns /\ OutFits

LEMMA EnterFits ==
  ASSUME Fits, NEW c \in Components, Polled(c), step[c] = "none",
         step' = [step EXCEPT ![c] = "in_place"], out' = out \cup Taken(c),
         UNCHANGED <<failed, own>>
  PROVE  Fits'
<1> USE DEF Fits
<1>1. TreeTypeOK'
  BY Zenon DEF TreeTypeOK, OwnType
<1>2. ASSUME NEW p \in Components, c \in Children(p)
      PROVE  \/ step[p] = "in_place" /\ c \in Kept(p)
             \/ step[p] = "joined" /\ c \in Taken(p)
  <2>1. Parent(c) = p
    BY <1>2, ParentIs, Zenon
  <2>2. c # Root
    BY <1>2, TreeAssumption, Zenon
  <2>3. QED BY <1>2, <2>1, <2>2, Zenon DEF Polled, Kept, Taken
<1>3. c \notin Children(c)
  BY <1>2, Zenon
<1>4. StepsFit'
  <2> SUFFICES ASSUME NEW p \in Components
               PROVE  /\ step'[p] = "none" => \A d \in Children(p) : step'[d] = "none"
                      /\ step'[p] = "in_place" => \A d \in Taken(p) : step'[d] = "none"
                      /\ step'[p] = "joined" =>
                           own'[p] # "none" /\ \A d \in Kept(p) : step'[d] = "returned" /\ d \notin failed'
                      /\ step'[p] = "returned" => \A d \in Children(p) : step'[d] \in {"none", "returned"}
    BY Zenon DEF StepsFit
  <2>1. CASE p = c
    BY <1>3, <2>1, KidsAre DEF TreeTypeOK, StepsFit
  <2>2. CASE p # c
    BY <1>2, <2>2, KidsAre DEF TreeTypeOK, StepsFit
  <2>3. QED BY <2>1, <2>2, Zenon
<1>5. GoodReturns'
  BY <1>2, KidsAre, Zenon DEF TreeTypeOK, GoodReturns
<1>6. OutFits'
  BY Zenon DEF TreeTypeOK, OutFits
<1>7. QED BY <1>1, <1>4, <1>5, <1>6, Zenon

(* The run of c goes on with its own run and its taken children.           *)
LEMMA StartFits ==
  ASSUME Fits, NEW c \in Components, step[c] = "in_place",
         \A d \in Kept(c) : step[d] = "returned" /\ d \notin failed,
         step' = [step EXCEPT ![c] = "joined"], own' = [own EXCEPT ![c] = "running"],
         UNCHANGED <<failed, out>>
  PROVE  Fits'
<1> USE DEF Fits
<1>1. TreeTypeOK'
  BY Zenon DEF TreeTypeOK, OwnType
<1>2. ASSUME NEW p \in Components, c \in Children(p)
      PROVE  \/ step[p] = "in_place" /\ c \in Kept(p)
             \/ step[p] = "joined" /\ c \notin Kept(p)
  BY <1>2, ParentWaits, Zenon
<1>3. c \notin Kept(c)
  BY Zenon
<1>4. StepsFit'
  <2> SUFFICES ASSUME NEW p \in Components
               PROVE  /\ step'[p] = "none" => \A d \in Children(p) : step'[d] = "none"
                      /\ step'[p] = "in_place" => \A d \in Taken(p) : step'[d] = "none"
                      /\ step'[p] = "joined" =>
                           own'[p] # "none" /\ \A d \in Kept(p) : step'[d] = "returned" /\ d \notin failed'
                      /\ step'[p] = "returned" => \A d \in Children(p) : step'[d] \in {"none", "returned"}
    BY Zenon DEF StepsFit
  <2>1. CASE p = c
    BY <1>3, <2>1, KidsAre, Zenon DEF TreeTypeOK, OwnType
  <2>2. CASE p # c
    BY <1>2, <2>2, KidsAre DEF TreeTypeOK, OwnType, StepsFit
  <2>3. QED BY <2>1, <2>2, Zenon
<1>5. GoodReturns'
  BY <1>2, KidsAre DEF TreeTypeOK, OwnType, GoodReturns
<1>6. OutFits'
  BY Zenon DEF TreeTypeOK, OutFits
<1>7. QED BY <1>1, <1>4, <1>5, <1>6, Zenon

(* The run of c itself goes on or ends.                                    *)
LEMMA OwnFits ==
  ASSUME Fits, NEW c \in Components, step[c] = "joined", NEW r \in {"running", "ok", "err", "stopped"},
         own' = [own EXCEPT ![c] = r], UNCHANGED <<step, failed, out>>
  PROVE  Fits'
<1> USE DEF Fits
<1>1. TreeTypeOK'
  BY Zenon DEF TreeTypeOK, OwnType
<1>2. StepsFit'
  BY Zenon DEF TreeTypeOK, OwnType, StepsFit
<1>3. GoodReturns' /\ OutFits'
  BY Zenon DEF TreeTypeOK, OwnType, GoodReturns, OutFits
<1>4. QED BY <1>1, <1>2, <1>3, Zenon

(* run_all of c returns, with an error or without one.                     *)
LEMMA ReturnFits ==
  ASSUME Fits, NEW c \in Components, step[c] \in {"in_place", "joined"},
         NEW r \in {"none", "running", "ok", "err", "stopped"}, own' = [own EXCEPT ![c] = r],
         step' = [step EXCEPT ![c] = "returned"], out' = out \ Taken(c),
         \A d \in Children(c) : step[d] \in {"none", "returned"},
         \/ failed' = failed \cup {c}
         \/ /\ failed' = failed /\ r \in {"ok", "stopped"}
            /\ \A d \in Children(c) : step[d] = "returned" /\ d \notin failed
  PROVE  Fits'
<1> USE DEF Fits
<1>1. TreeTypeOK'
  BY Zenon DEF TreeTypeOK, OwnType
<1>2. ASSUME NEW p \in Components, c \in Children(p)
      PROVE  \/ step[p] = "in_place" /\ c \in Kept(p)
             \/ step[p] = "joined" /\ c \notin Kept(p)
  BY <1>2, ParentWaits, Zenon
<1>3. c \notin Children(c)
  BY Zenon
<1>4. StepsFit'
  <2> SUFFICES ASSUME NEW p \in Components
               PROVE  /\ step'[p] = "none" => \A d \in Children(p) : step'[d] = "none"
                      /\ step'[p] = "in_place" => \A d \in Taken(p) : step'[d] = "none"
                      /\ step'[p] = "joined" =>
                           own'[p] # "none" /\ \A d \in Kept(p) : step'[d] = "returned" /\ d \notin failed'
                      /\ step'[p] = "returned" => \A d \in Children(p) : step'[d] \in {"none", "returned"}
    BY Zenon DEF StepsFit
  <2>1. CASE p = c
    BY <1>3, <2>1, KidsAre, ZenonT(60) DEF TreeTypeOK, OwnType
  <2>2. CASE p # c
    BY <1>2, <2>2, KidsAre, SMTT(60) DEF TreeTypeOK, OwnType, StepsFit
  <2>3. QED BY <2>1, <2>2, Zenon
<1>5. GoodReturns'
  <2>1. \A d \in failed' : step'[d] = "returned"
    BY DEF TreeTypeOK, GoodReturns
  <2>2. ASSUME NEW p \in Components, step'[p] = "returned", p \notin failed'
        PROVE  /\ own'[p] \in {"ok", "stopped"}
               /\ \A d \in Children(p) : step'[d] = "returned" /\ d \notin failed'
    <3>1. CASE p = c
      BY <1>3, <2>2, <3>1, KidsAre, ZenonT(60) DEF TreeTypeOK, OwnType
    <3>2. CASE p # c
      BY <1>2, <2>2, <3>2, KidsAre DEF TreeTypeOK, OwnType, GoodReturns
    <3>3. QED BY <3>1, <3>2, Zenon
  <2>3. QED BY <2>1, <2>2, Zenon DEF GoodReturns
<1>6. OutFits'
  BY Zenon DEF TreeTypeOK, OutFits
<1>7. QED BY <1>1, <1>4, <1>5, <1>6, Zenon

LEMMA JoinKeptFits ==
  ASSUME Fits, NEW c \in Components, JoinKept(c) PROVE Fits'
<1>1. step[c] = "in_place" /\ \A d \in Kept(c) : step[d] = "returned"
  BY Zenon DEF JoinKept
<1>2. CASE Kept(c) \cap failed # {}
  <2>1. own[c] \in {"none", "running", "ok", "err", "stopped"} /\ own = [own EXCEPT ![c] = own[c]]
    BY Zenon DEF Fits, TreeTypeOK, OwnType
  <2>2. /\ step' = [step EXCEPT ![c] = "returned"] /\ failed' = failed \cup {c}
        /\ out' = out \ Taken(c) /\ own' = own
    BY <1>2, Zenon DEF JoinKept
  <2>3. \A d \in Children(c) : step[d] \in {"none", "returned"}
    BY <1>1, KidsAre, Zenon DEF Fits, StepsFit
  <2>4. QED BY <1>1, <2>1, <2>2, <2>3, ReturnFits, Zenon
<1>3. CASE Kept(c) \cap failed = {}
  <2>1. /\ step' = [step EXCEPT ![c] = "joined"] /\ own' = [own EXCEPT ![c] = "running"]
        /\ UNCHANGED <<failed, out>>
    BY <1>3, Zenon DEF JoinKept
  <2>2. QED BY <1>1, <1>3, <2>1, StartFits, Zenon
<1>4. QED BY <1>2, <1>3, Zenon

LEMMA JoinTakenFits ==
  ASSUME Fits, NEW c \in Components, step[c] = "joined",
         NEW r \in {"running", "ok", "err", "stopped"}, own' = [own EXCEPT ![c] = r], JoinTaken(c, r)
  PROVE  Fits'
<1>1. CASE r # "running" /\ \A d \in Taken(c) : step[d] = "returned"
  <2>1. /\ step' = [step EXCEPT ![c] = "returned"] /\ out' = out \ Taken(c)
        /\ failed' = IF r = "err" \/ Taken(c) \cap failed # {} THEN failed \cup {c} ELSE failed
    BY <1>1, Zenon DEF JoinTaken
  <2>2. \A d \in Children(c) : step[d] = "returned" /\ (d \in Kept(c) => d \notin failed)
    BY <1>1, KidsAre, Zenon DEF Fits, StepsFit
  <2>3. failed' = failed => r # "err" \/ failed' = failed \cup {c}
    BY <2>1, Zenon
  <2>4. \/ failed' = failed \cup {c}
        \/ /\ failed' = failed /\ r \in {"ok", "stopped"}
           /\ \A d \in Children(c) : step[d] = "returned" /\ d \notin failed
    BY <1>1, <2>1, <2>2, KidsAre, Zenon
  <2>5. QED BY <2>1, <2>2, <2>4, ReturnFits, Zenon
<1>2. CASE ~(r # "running" /\ \A d \in Taken(c) : step[d] = "returned")
  <2>1. UNCHANGED <<step, failed, out>>
    BY <1>2, Zenon DEF JoinTaken
  <2>2. QED BY <2>1, OwnFits, Zenon
<1>3. QED BY <1>1, <1>2, Zenon

(* Once the root has returned, every component has returned or was never   *)
(* started, so that nothing is out of the tree.                            *)
LEMMA AllAreBack ==
  ASSUME Fits, step[Root] = "returned" PROVE out = {}
<1> DEFINE S == {c \in Components : step[c] \in {"none", "returned"}}
<1>1. Root \in S /\ \A c \in S : Children(c) \subseteq S
  BY RunPhaseAssumption, KidsAre, Zenon DEF Fits, StepsFit
<1>2. S = Components
  <2>1. S \in SUBSET Components
    BY Zenon
  <2> HIDE DEF S
  <2>2. QED BY <1>1, <2>1, TreeAssumption, Zenon
<1>3. QED BY <1>2, Zenon DEF Fits, OutFits

(* If the root has returned Ok, so has everybody.                          *)
LEMMA AllAreGood ==
  ASSUME Fits, step[Root] = "returned", Root \notin failed
  PROVE  \A c \in Components : own[c] \in {"ok", "stopped"}
<1> DEFINE S == {c \in Components : step[c] = "returned" /\ c \notin failed}
<1>1. Root \in S /\ \A c \in S : Children(c) \subseteq S
  BY RunPhaseAssumption, KidsAre, Zenon DEF Fits, GoodReturns
<1>2. S = Components
  <2>1. S \in SUBSET Components
    BY Zenon
  <2> HIDE DEF S
  <2>2. QED BY <1>1, <2>1, TreeAssumption, Zenon
<1>3. QED BY <1>2, Zenon DEF Fits, GoodReturns

LEMMA FitsStep ==
  ASSUME Fits, Next PROVE Fits' /\ (phase # "run" => UNCHANGED tree)
<1>1. CASE UNCHANGED tree
  BY <1>1, Zenon DEF tree, Fits, TreeTypeOK, OwnType, StepsFit, GoodReturns, OutFits
<1>2. ASSUME NEW c \in Components, Enter(c) PROVE Fits' /\ phase = "run"
  BY <1>2, EnterFits, Zenon DEF Enter, Visiting
<1>3. ASSUME NEW c \in Components, JoinKept(c) PROVE Fits' /\ phase = "run"
  BY <1>3, JoinKeptFits, Zenon DEF JoinKept, Visiting
<1>4. ASSUME NEW c \in Components, OwnIsOver(c) PROVE Fits' /\ phase = "run"
  <2>1. step[c] = "joined" /\ own' = own /\ JoinTaken(c, own[c]) /\ phase = "run"
    BY <1>4, Zenon DEF OwnIsOver, Visiting
  <2>2. own[c] \in {"running", "ok", "err", "stopped"} /\ own = [own EXCEPT ![c] = own[c]]
    BY <2>1, Zenon DEF Fits, TreeTypeOK, OwnType, StepsFit
  <2>3. QED BY <2>1, <2>2, JoinTakenFits, Zenon
<1>5. ASSUME NEW c \in Components, BodyPends(c) PROVE Fits' /\ phase = "run"
  <2>1. /\ step[c] = "joined" /\ own[c] = "running" /\ phase = "run" /\ JoinTaken(c, own'[c])
        /\ own' = IF drained THEN [own EXCEPT ![c] = "stopped"] ELSE own
    BY <1>5, Zenon DEF BodyPends, InBody, Visiting
  <2>2. /\ own'[c] \in {"running", "ok", "err", "stopped"}
        /\ own' = [own EXCEPT ![c] = own'[c]]
    BY <2>1, Zenon DEF Fits, TreeTypeOK, OwnType
  <2>3. QED BY <2>1, <2>2, JoinTakenFits, Zenon
<1>6. ASSUME NEW c \in Components, BodyReturns(c) PROVE Fits' /\ phase = "run"
  <2>1. PICK r \in {"ok", "err"} : own' = [own EXCEPT ![c] = r] /\ JoinTaken(c, r)
    BY <1>6, Zenon DEF BodyReturns
  <2>2. step[c] = "joined" /\ phase = "run"
    BY <1>6, Zenon DEF BodyReturns, InBody, Visiting
  <2>3. QED BY <2>1, <2>2, JoinTakenFits, Zenon
<1>7. CASE \/ Elaborate \/ StartPoll \/ PostRun \/ AwaitObjections \/ PollWatcher \/ Wake
           \/ \E t \in Tasks : TaskRaises(t) \/ TaskDrops(t)
  BY <1>1, <1>7, Zenon DEF Elaborate, StartPoll, PostRun, AwaitObjections, PollWatcher, Wake,
    TaskRaises, TaskDrops
<1>8. ASSUME NEW c \in Components,
             \/ \E kind \in {"enter", "join", "own"} : Skip(kind, c)
             \/ BodyRaises(c) \/ BodyDrops(c) \/ BodyPanics(c) \/ WalkRaises(c) \/ TreeDrops(c)
      PROVE  Fits' /\ UNCHANGED tree
  BY <1>1, <1>8, Zenon DEF Skip, BodyRaises, BodyDrops, BodyPanics, WalkRaises, TreeDrops
<1>9. QED BY <1>1, <1>2, <1>3, <1>4, <1>5, <1>6, <1>7, <1>8, ZenonT(60) DEF Next, TestTask

(* The run phase is left by PostRun, or by a panic.                        *)
LEMMA EndStepFits ==
  ASSUME TreeInv, Next PROVE EndFits'
<1>1. Fits /\ EndFits
  BY Zenon DEF TreeInv, Fits
<1>2. CASE Elaborate
  BY <1>1, <1>2, Zenon DEF Elaborate, EndFits, tree
<1>3. CASE PostRun
  BY <1>1, <1>3, AllAreBack, ZenonT(60) DEF PostRun, EndFits, tree
<1>4. CASE phase' \in {"run", "dead"}
  BY <1>4, Zenon DEF EndFits
<1>5. CASE AwaitObjections \/ PollWatcher \/ \E t \in Tasks : TaskRaises(t) \/ TaskDrops(t)
  BY <1>1, <1>5, Zenon DEF AwaitObjections, PollWatcher, TaskRaises, TaskDrops, EndFits, tree
<1>6. CASE StartPoll \/ Wake
  BY <1>4, <1>6, Zenon DEF StartPoll, Wake
<1>7. ASSUME NEW c \in Components,
             \/ \E kind \in {"enter", "join", "own"} : Skip(kind, c)
             \/ Enter(c) \/ JoinKept(c) \/ OwnIsOver(c)
             \/ BodyRaises(c) \/ BodyDrops(c) \/ BodyPends(c) \/ BodyReturns(c)
             \/ BodyPanics(c)
      PROVE  phase' \in {"run", "dead"}
  BY <1>7, Zenon DEF Skip, Enter, JoinKept, OwnIsOver, BodyRaises, BodyDrops, BodyPends, BodyReturns,
    BodyPanics, InBody, Visiting
<1>8. ASSUME NEW c \in Components, WalkRaises(c) \/ TreeDrops(c) PROVE EndFits'
  BY <1>1, <1>8, Zenon DEF WalkRaises, TreeDrops, EndFits, tree
<1>9. QED BY <1>2, <1>3, <1>4, <1>5, <1>6, <1>7, <1>8, ZenonT(60) DEF Next, TestTask

LEMMA TreeInvariance == Spec => []TreeInv
<1>1. Init => TreeInv
  BY RunPhaseAssumption, KidsAre, Zenon DEF Init, TreeInv, TreeTypeOK, OwnType, StepsFit, GoodReturns, OutFits, EndFits
<1>2. TreeInv /\ [Next]_vars => TreeInv'
  <2> SUFFICES ASSUME TreeInv, [Next]_vars PROVE TreeInv'
    BY Zenon
  <2>1. CASE Next
    <3>1. Fits' /\ EndFits'
      BY <2>1, FitsStep, EndStepFits, Zenon DEF TreeInv, Fits
    <3>2. QED BY <3>1, Zenon DEF TreeInv, Fits
  <2>2. CASE UNCHANGED vars
    BY <2>2, ZenonT(60) DEF vars, tree, TreeInv, TreeTypeOK, OwnType, StepsFit, GoodReturns, OutFits, EndFits
  <2>3. QED BY <2>1, <2>2, Zenon
<1>3. QED BY <1>1, <1>2, PTL DEF Spec

(* Over any tree of components, and whichever way the runs end, the run    *)
(* phase puts every component back, and a test that reports no error has   *)
(* none to report.                                                         *)
THEOREM RunsEndWell == Spec => []RunsAreAccountedFor
<1>1. TreeInv => RunsAreAccountedFor
  <2> SUFFICES ASSUME TreeInv, phase \in {"consensus", "end"}
               PROVE  out = {} /\ (outcome = "ok" => \A c \in Components : own[c] \in {"ok", "stopped"})
    BY Zenon DEF RunsAreAccountedFor
  <2>1. QED BY AllAreGood, Zenon DEF TreeInv, Fits, EndFits
<1>2. QED BY <1>1, TreeInvariance, PTL
-----------------------------------------------------------------------------
(* The regression.                                                         *)

(* A failure of the test that runs is pending exactly if one of its tasks  *)
(* has panicked; the tests to come have had none.                          *)
FailuresFit ==
  /\ reg \in [1..N -> Registrations] /\ i \in Nat \ {0}
  /\ results \in [1..N -> {"none", "pass", "fail", "skip"}]
  /\ pc \in {"loop", "clean", "await", "done", "dead"}
  /\ pc \in {"clean", "await"} => i \in 1..N
  /\ pc \in {"clean", "await"} => (CURRENT_FAILURE = 0 <=> i \notin panics)
  /\ panics \subseteq 1..i
  /\ pc \in {"loop", "done"} \/ (pc = "clean" /\ ~dut) => i \notin panics

RegressionInv == FailuresFit /\ G!StartsClean

LEMMA RegressionStep ==
  ASSUME RegressionInv, [G!Next]_gVars PROVE RegressionInv'
<1> USE RegistrationsAssumption DEF RegressionInv
<1>1. CASE G!regression
  BY <1>1 DEF G!regression, G!ambient, FailuresFit, G!StartsClean
<1>2. CASE G!StartTest
  BY <1>2, Zenon DEF G!StartTest, FailuresFit, G!StartsClean
<1>3. CASE G!NoDut
  BY <1>3 DEF G!NoDut, FailuresFit, G!StartsClean
<1>4. CASE G!FinishTest
  <2>1. G!Verdict(reg[i]) \in {"pass", "fail"}
    BY Zenon DEF G!Verdict
  <2>2. results' \in [1..N -> {"none", "pass", "fail", "skip"}]
    BY <1>4, <2>1, Zenon DEF G!FinishTest, FailuresFit
  <2>3. QED BY <1>4, <2>2 DEF G!FinishTest, G!ambient, FailuresFit, G!StartsClean
<1>5. CASE G!DropPanics
  BY <1>5 DEF G!DropPanics, G!Report, G!ambient, FailuresFit, G!StartsClean
<1>6. CASE G!Spawn \/ G!Configure \/ G!TimerFires
  BY <1>6, Zenon DEF G!Spawn, G!Configure, G!TimerFires, G!ambient, FailuresFit, G!StartsClean
<1>7. CASE G!TaskEnds \/ G!BodyEnds
  <2>1. pc = "await" /\ UNCHANGED <<reg, i, pc, results, config>>
    BY <1>7, Zenon DEF G!TaskEnds, G!BodyEnds, G!ambient
  <2>2. CASE G!Report
    BY <2>1, <2>2 DEF G!Report, FailuresFit, G!StartsClean
  <2>3. CASE UNCHANGED <<CURRENT_FAILURE, panics>>
    BY <2>1, <2>3, Zenon DEF FailuresFit, G!StartsClean
  <2>4. QED BY <1>7, <2>2, <2>3, Zenon DEF G!TaskEnds, G!BodyEnds
<1>8. CASE G!CallbackPanics
  BY <1>8 DEF G!CallbackPanics, G!Report, G!ambient, FailuresFit, G!StartsClean
<1>9. CASE UNCHANGED gVars
  BY <1>9, Zenon DEF gVars, FailuresFit, G!StartsClean
<1>10. QED BY <1>1, <1>2, <1>3, <1>4, <1>5, <1>6, <1>7, <1>8, <1>9, ZenonT(60) DEF G!Next, G!Regression

LEMMA RegressionInit == G!Init => RegressionInv
  BY RegistrationsAssumption DEF G!Init, G!Tests, RegressionInv, FailuresFit, G!StartsClean

(* The verdict of one test.                                                *)
LEMMA VerdictIsEarned ==
  ASSUME RegressionInv, pc = "await", G!Verdict(reg[i]) = "pass"
  PROVE  IF reg[i].expect_error # "none" THEN body = reg[i].expect_error
         ELSE reg[i].expect_fail <=> body # "ok" \/ i \in panics
<1>1. reg[i].expect_error # "none" => reg[i].expect_error \in Kinds
  BY RegistrationsAssumption DEF RegressionInv, FailuresFit
<1>2. CURRENT_FAILURE = 0 <=> i \notin panics
  BY Zenon DEF RegressionInv, FailuresFit
<1>3. (G!Raw = "pass" <=> body = "ok" /\ i \notin panics) /\ (G!Raw \in Kinds => body = G!Raw)
  <2>1. CASE body = "running"
    <3>1. G!Raw = "fail"
      BY <2>1, RegistrationsAssumption, Zenon DEF G!Raw
    <3>2. QED BY <2>1, <3>1, RegistrationsAssumption, Zenon
  <2>2. CASE body = "ok"
    <3>1. G!Raw = IF CURRENT_FAILURE # 0 THEN "fail" ELSE "pass"
      BY <2>2, RegistrationsAssumption, Zenon DEF G!Raw
    <3>2. QED BY <1>2, <2>2, <3>1, RegistrationsAssumption, Zenon
  <2>3. CASE body \in Kinds
    <3>1. G!Raw = body
      BY <2>3, RegistrationsAssumption, Zenon DEF G!Raw
    <3>2. QED BY <2>3, <3>1, RegistrationsAssumption, Zenon
  <2>4. CASE body \notin {"running", "ok"} \cup Kinds
    <3>1. G!Raw = "fail"
      BY <2>4, Zenon DEF G!Raw
    <3>2. QED BY <2>4, <3>1, RegistrationsAssumption, Zenon
  <2>5. QED BY <2>1, <2>2, <2>3, <2>4, ZenonT(60)
<1>4. CASE reg[i].expect_error # "none"
  BY <1>1, <1>3, <1>4, Zenon DEF G!Verdict
<1>5. CASE reg[i].expect_error = "none" /\ reg[i].expect_fail
  BY <1>3, <1>5, Zenon DEF G!Verdict
<1>6. CASE reg[i].expect_error = "none" /\ ~reg[i].expect_fail
  BY <1>3, <1>6, Zenon DEF G!Verdict
<1>7. QED BY <1>4, <1>5, <1>6, Zenon

(* What a test meets and how it is judged, for any number of tests, any    *)
(* registrations and any tasks.                                            *)
LEMMA RegressionIsSound == G!Spec => []G!StartsClean /\ G!PassIsEarned
<1> DEFINE Earned == \A t \in G!Tests : results[t] # "pass" /\ results'[t] = "pass" =>
                       IF reg[t].expect_error # "none" THEN body = reg[t].expect_error
                       ELSE reg[t].expect_fail <=> body # "ok" \/ t \in panics
<1>1. RegressionInv => G!StartsClean
  BY Zenon DEF RegressionInv
<1>2. ASSUME RegressionInv, [G!Next]_gVars PROVE [Earned]_gVars
  <2>1. CASE UNCHANGED results
    BY <2>1, Zenon
  <2>2. results \in [1..N -> {"none", "pass", "fail", "skip"}]
    BY <1>2, Zenon DEF RegressionInv, FailuresFit
  <2>3. CASE G!regression
    BY <2>2, <2>3, Zenon DEF G!regression, G!Tests
  <2>4. CASE G!NoDut
    BY <2>2, <2>4, Zenon DEF G!NoDut, G!Tests
  <2>5. CASE G!FinishTest
    <3>1. pc = "await" /\ results' = [results EXCEPT ![i] = G!Verdict(reg[i])]
      BY <2>5, Zenon DEF G!FinishTest
    <3>2. SUFFICES ASSUME NEW t \in G!Tests, results[t] # "pass", results'[t] = "pass"
                   PROVE  IF reg[t].expect_error # "none" THEN body = reg[t].expect_error
                          ELSE reg[t].expect_fail <=> body # "ok" \/ t \in panics
      BY Zenon
    <3>3. t = i /\ G!Verdict(reg[i]) = "pass"
      BY <2>2, <3>1, <3>2, Zenon DEF G!Tests
    <3>4. QED BY <1>2, <3>1, <3>3, VerdictIsEarned, Zenon
  <2>6. CASE \/ G!StartTest \/ G!DropPanics \/ G!Spawn \/ G!Configure \/ G!TaskEnds \/ G!BodyEnds
             \/ G!CallbackPanics \/ G!TimerFires \/ UNCHANGED gVars
    BY <2>1, <2>6, Zenon DEF G!StartTest, G!DropPanics, G!Spawn, G!Configure, G!TaskEnds, G!BodyEnds,
      G!CallbackPanics, G!TimerFires, gVars
  <2>7. QED BY <1>2, <2>3, <2>4, <2>5, <2>6, Zenon DEF G!Next, G!Regression
<1>3. gVars = G!vars
  BY Zenon DEF gVars, G!vars
<1>4. QED BY <1>1, <1>2, <1>3, RegressionInit, RegressionStep, PTL DEF G!Spec, G!PassIsEarned, G!vars, gVars
-----------------------------------------------------------------------------
(* The two parts together.                                                 *)

LEMMA PartsAreKept == MCSpec => Spec /\ G!Spec
<1>1. MCInit => Init /\ G!Init
  BY Zenon DEF MCInit
<1>2. [MCNext]_MCVars => [Next]_vars /\ [G!Next]_gVars
  BY Zenon DEF MCNext, MCVars
<1>3. QED BY <1>1, <1>2, PTL DEF MCSpec, Spec, G!Spec, G!vars, gVars

(* The run phase of a test leaves no component outside the tree and no     *)
(* failed run unreported, and a test meets none of the tasks, failures and *)
(* configuration of the tests before it.                                   *)
THEOREM NothingIsLeft == MCSpec => []NothingIsLeftBehind
  BY PartsAreKept, RunsEndWell, RegressionIsSound, PTL DEF NothingIsLeftBehind

(* A test passes only for the reason that its registration gives.          *)
THEOREM PassesAreEarned == MCSpec => PassIsEarned
  BY PartsAreKept, RegressionIsSound, PTL DEF PassIsEarned
==============================================================================
