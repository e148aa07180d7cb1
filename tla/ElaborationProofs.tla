-------------------------- MODULE ElaborationProofs -------------------------
(* The elaboration of a test and what follows it use the analysis bus as   *)
(* module AnalysisBus says, so what is proved of the bus holds in every    *)
(* test, whatever its tree, its overrides and its connections.             *)
EXTENDS Elaboration, TrafficProofs

(* Steps in which nothing on the bus changes.                              *)
Aside == UNCHANGED <<phase, bound, subs, joined, stack, heard, source>>

LEMMA AsideIsAllowed == Aside => [BusNext]_busVars
  BY Zenon DEF Aside, busVars, traffic

(* What a component's build calls, and the rest of a visit.                *)
LEMMA VisitsAreAside ==
  ASSUME NEW n
  PROVE  /\ \A ctx, offset, t : set_override(n, ctx, offset, t) => Aside
         /\ subscribe(n) \/ EndBuild(n) \/ EndConnect(n) => Aside
  BY Zenon DEF set_override, subscribe, EndBuild, EndConnect, wiring, traffic, Aside

(* The walks come one after the other, and the run phase after them; a     *)
(* test that is refused, or ended by a panic, does not come back.          *)
LEMMA TestsMoveOn ==
  ASSUME \/ StartBuild \/ StartConnect \/ check_connections
         \/ \E n \in Nodes : use_port(n)
         \/ \E n, owner \in Nodes, kind \in {"get", "publish", "subscribe"} : ConnectError(n, owner, kind)
  PROVE  MovesOn
  <1>1. CASE StartBuild \/ StartConnect
    BY <1>1, Zenon DEF StartBuild, StartConnect, wiring, traffic, MovesOn, Early
  <1>2. CASE check_connections
    BY <1>2, Zenon DEF check_connections, traffic, MovesOn, Early
  <1>3. ASSUME NEW n \in Nodes, use_port(n) PROVE MovesOn
    BY <1>3, Zenon DEF use_port, wiring, traffic, MovesOn, Early
  <1>4. ASSUME NEW n \in Nodes, NEW owner \in Nodes, NEW kind, ConnectError(n, owner, kind)
        PROVE  MovesOn
    BY <1>4, Zenon DEF ConnectError, wiring, traffic, MovesOn, Early
  <1>5. QED BY <1>1, <1>2, <1>3, <1>4, ZenonT(60)

(* Connections and broadcasts are the bus's own steps.                     *)
LEMMA ConnectionsAreTheBuss ==
  ASSUME NEW n \in Nodes, NEW owner \in Nodes,
         sink_of(n, owner) \/ \E kind \in {"get", "publish"} : bind(n, owner, kind)
  PROVE  BusNext
  BY Zenon DEF sink_of, bind, BusNext

LEMMA BroadcastsAreTheBuss ==
  ASSUME (\E n \in Nodes : write(n)) \/ deliver \/ Return
  PROVE  BusNext
  BY Zenon DEF write, deliver, Return, BusNext

LEMMA ElabStep == ASSUME [ElabNext]_elabVars PROVE [BusNext]_busVars
  <1>1. CASE TestIsOver \/ UNCHANGED elabVars
    BY <1>1, AsideIsAllowed, ZenonT(60) DEF TestIsOver, elabVars, wiring, traffic, Aside
  <1>2. CASE StartBuild \/ StartConnect \/ check_connections
    BY <1>2, TestsMoveOn, ZenonT(60) DEF BusNext
  <1>3. CASE deliver \/ Return
    BY <1>3, BroadcastsAreTheBuss, ZenonT(60)
  <1>4. ASSUME NEW n \in Nodes,
               \/ \E ctx \in Contexts, offset \in Overridable, t \in Types : set_override(n, ctx, offset, t)
               \/ subscribe(n) \/ EndBuild(n) \/ EndConnect(n)
        PROVE  [BusNext]_busVars
    BY <1>4, VisitsAreAside, AsideIsAllowed, ZenonT(60)
  <1>5. ASSUME NEW n \in Nodes, use_port(n) \/ write(n)
        PROVE  [BusNext]_busVars
    BY <1>5, TestsMoveOn, BroadcastsAreTheBuss, ZenonT(60) DEF BusNext
  <1>6. ASSUME NEW n \in Nodes, NEW owner \in Nodes,
               \/ \E kind \in {"get", "publish"} : bind(n, owner, kind)
               \/ sink_of(n, owner)
               \/ \E kind \in {"get", "publish", "subscribe"} : ConnectError(n, owner, kind)
        PROVE  [BusNext]_busVars
    BY <1>6, TestsMoveOn, ConnectionsAreTheBuss, ZenonT(60) DEF BusNext
  <1>7. QED BY <1>1, <1>2, <1>3, <1>4, <1>5, <1>6, ZenonT(60) DEF ElabNext

(* Every behaviour of a test, from the build walk of build_all to the      *)
(* broadcasts of its run phase, is a behaviour of the bus.                 *)
THEOREM TestsUseTheBus == ElabSpec => BusSpec
  <1>1. ElabInit => BusInit
    BY Zenon DEF ElabInit
  <1>2. QED BY <1>1, ElabStep, PTL DEF ElabSpec, BusSpec

(* In every test, whatever its tree, its overrides and its connections: an *)
(* item whose PublishPort::write is over has been heard by every           *)
(* connection to its bus, once and in order.                               *)
THEOREM ItemsAreHeardInTests == ElabSpec => []EveryItemIsHeard
  BY TestsUseTheBus, ItemsAreHeard, PTL
=============================================================================
