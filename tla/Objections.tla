----------------------------- MODULE Objections -----------------------------
(***************************************************************************)
(* The objection registry of a test (objection.rs).  Whoever wants the run *)
(* phase to go on raises an objection and holds its guard; dropping the    *)
(* guard drops the objection, and the last drop sets the drained event.    *)
(* Clients wait for the consensus, with wait_drained_event or with         *)
(* wait_all_dropped.  The event is that of module Event: level-triggered,  *)
(* with a set of stored wakers; ready says that a client will be polled.   *)
(***************************************************************************)
EXTENDS Naturals, Sequences, FiniteSets

CONSTANTS
  Guards,    \* ObjectionGuard objects (one that was dropped may be made again)
  Descs,     \* descriptions
  Desc,      \* the description of each guard
  Clients    \* tasks that wait

ASSUME ObjectionsAssumption == IsFiniteSet(Guards) /\ Desc \in [Guards -> Descs]

VARIABLES
  count, raised_ever, active,  \* ObjInner
  drained,    \* ObjInner.drained is set
  waiters,    \* the clients whose wakers the event stores
  guards,     \* the guards that are alive
  fut,        \* each client's wait: "idle", "drained", "all_dropped", "done"
  ready       \* the client will be polled

registry == <<count, raised_ever, active, drained, guards>>
regVars == <<count, raised_ever, active, drained, waiters, guards, fut, ready>>

RegInit ==
  /\ count = 0 /\ raised_ever = FALSE /\ active = <<>>
  /\ drained = FALSE /\ waiters = {}
  /\ guards = {}
  /\ fut = [p \in Clients |-> "idle"]
  /\ ready = [p \in Clients |-> FALSE]

raise(g) ==
  /\ g \notin guards
  /\ guards' = guards \cup {g}
  /\ count' = count + 1
  /\ raised_ever' = TRUE
  /\ drained' = FALSE
  /\ active' = Append(active, Desc[g])
  /\ UNCHANGED <<waiters, fut, ready>>

(* Mutant: every entry with the description goes.                          *)
Unlist_All(d) == SelectSeq(active, LAMBDA e : e # d)

(* The list of active objections without the first of description d.       *)
Unlist(d) ==
  LET places == {i \in 1..Len(active) : active[i] = d}
      pos == CHOOSE i \in places : \A j \in places : i <= j
  IN  IF places = {} THEN active
      ELSE [i \in 1..(Len(active) - 1) |-> IF i < pos THEN active[i] ELSE active[i + 1]]

(* Mutant: nobody is woken.                                                *)
SetDrained_Silent == drained' = TRUE /\ UNCHANGED <<waiters, ready>>

(* Event::set.                                                             *)
SetDrained ==
  /\ drained' = TRUE
  /\ waiters' = {}
  /\ ready' = [p \in Clients |-> ready[p] \/ p \in waiters]

(* The guard's drop; saturating_sub is the IF.                             *)
drop(g) ==
  /\ g \in guards
  /\ guards' = guards \ {g}
  /\ active' = Unlist(Desc[g])
  /\ count' = IF count = 0 THEN 0 ELSE count - 1
  /\ IF count' = 0 THEN SetDrained ELSE UNCHANGED <<drained, waiters, ready>>
  /\ UNCHANGED <<raised_ever, fut>>

wait_drained_event(p) ==
  /\ fut[p] \in {"idle", "done"}
  /\ fut' = [fut EXCEPT ![p] = "drained"]
  /\ ready' = [ready EXCEPT ![p] = TRUE]
  /\ UNCHANGED <<registry, waiters>>

(* wait_all_dropped: the two early returns, or the wait.                   *)
wait_all_dropped(p) ==
  /\ fut[p] \in {"idle", "done"}
  /\ IF ~raised_ever \/ count = 0
       THEN fut' = [fut EXCEPT ![p] = "done"] /\ UNCHANGED ready
       ELSE /\ fut' = [fut EXCEPT ![p] = "all_dropped"]
            /\ ready' = [ready EXCEPT ![p] = TRUE]
  /\ UNCHANGED <<registry, waiters>>

(* Mutant: whoever was woken goes on without looking again.                *)
Poll_Trusting(p) ==
  /\ fut[p] \in {"drained", "all_dropped"}
  /\ ready' = [ready EXCEPT ![p] = FALSE]
  /\ IF drained \/ (p \notin waiters /\ raised_ever)
       THEN fut' = [fut EXCEPT ![p] = "done"] /\ UNCHANGED waiters
       ELSE waiters' = waiters \cup {p} /\ UNCHANGED fut
  /\ UNCHANGED registry

(* A poll of the wait on the event, wanted or spurious.                    *)
Poll(p) ==
  /\ fut[p] \in {"drained", "all_dropped"}
  /\ ready' = [ready EXCEPT ![p] = FALSE]
  /\ IF drained
       THEN fut' = [fut EXCEPT ![p] = "done"] /\ UNCHANGED waiters
       ELSE waiters' = waiters \cup {p} /\ UNCHANGED fut
  /\ UNCHANGED registry

(* The wait is dropped: the other side of a first2 has won.                *)
Cancel(p) ==
  /\ fut[p] \in {"drained", "all_dropped"}
  /\ fut' = [fut EXCEPT ![p] = "idle"]
  /\ UNCHANGED <<registry, waiters, ready>>

RegNext ==
  \/ \E g \in Guards : raise(g) \/ drop(g)
  \/ \E p \in Clients : wait_drained_event(p) \/ wait_all_dropped(p) \/ Poll(p) \/ Cancel(p)

RegSpec == RegInit /\ [][RegNext]_regVars
-----------------------------------------------------------------------------
RegTypeOK ==
  /\ count \in Nat /\ raised_ever \in BOOLEAN /\ drained \in BOOLEAN
  /\ active \in Seq(Descs)
  /\ waiters \subseteq Clients /\ guards \subseteq Guards
  /\ fut \in [Clients -> {"idle", "drained", "all_dropped", "done"}]
  /\ ready \in [Clients -> BOOLEAN]

(* The drained event is set exactly when somebody has objected and nobody  *)
(* does any more.                                                          *)
Consensus == drained <=> raised_ever /\ guards = {}

(* The counter never drifts from the guards that are alive.                *)
CountIsExact == count = Cardinality(guards)

(* The objection report lists every live guard's description, as often as  *)
(* there are guards with it, and nothing else.                             *)
ReportIsExact ==
  \A d \in Descs :
    Cardinality({i \in 1..Len(active) : active[i] = d}) = Cardinality({g \in guards : Desc[g] = d})

(* Nobody who waits for the consensus sleeps through it, though it may be  *)
(* reached and undone before they are polled.                              *)
NoConsensusIsMissed ==
  \A p \in Clients :
    fut[p] \in {"drained", "all_dropped"} /\ ~ready[p] => ~drained /\ p \in waiters

(* The consensus is what the guards say, and it reaches everybody.         *)
ConsensusIsSound == Consensus /\ NoConsensusIsMissed

(* The waits that end in this step do so while nobody objects.             *)
EndStep ==
  \A p \in Clients :
    fut[p] # "done" /\ fut'[p] = "done" =>
      guards = {} /\ (fut[p] \in {"drained", "all_dropped"} => raised_ever)

(* A wait for the event ends only in a state in which somebody has         *)
(* objected and nobody does; wait_all_dropped also where nobody ever has.  *)
EndsInConsensus == [][EndStep]_regVars
=============================================================================
