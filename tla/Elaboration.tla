---------------------------- MODULE Elaboration ----------------------------
(***************************************************************************)
(* The elaboration of a component test (component.rs, factory.rs, port.rs, *)
(* analysis.rs, the exports of fifo.rs, and the code that                  *)
(* derive(Component) generates): the build walk with the factory, the      *)
(* connect walk, the sweep for unconnected ports, and then the broadcasts  *)
(* of the run phase over the wiring, module AnalysisBus.                   *)
(*                                                                         *)
(* A walk visits one component after the other; what the user's method     *)
(* calls while it is visited are actions of their own, and nothing else    *)
(* runs between them.  The override table is the ConfigDb, module Config,  *)
(* with one requested type as its field.  "get" stands for the ports that  *)
(* have to be connected (put, get, peek, seq_item); each component owns    *)
(* one FIFO or sequencer and one bus, which are known by its name.  A port *)
(* that a component binds by itself, with bind_iface, is left out.         *)
(***************************************************************************)
EXTENDS Config, AnalysisBus

CONSTANTS
  Root,
  Kids,          \* the child slots of each component, in order
  PathOf,        \* the path that the walk derives
  Types,         \* component types
  Requested,     \* the type that the root has and the slots ask for
  PortsOf,       \* the ports of each type: "get", "publish", "subscribe"
  Overridable,   \* offsets that overrides are installed for
  MaxOverrides,  \* bounds: overrides and connections in a test
  MaxConnects

ASSUME ElaborationAssumption ==
  /\ Root \in Nodes /\ Kids \in [Nodes -> Seq(Nodes)]
  /\ Requested \in Types /\ None \notin Types
  /\ PortsOf \in [Types -> SUBSET {"get", "publish", "subscribe"}]
  /\ {MaxOverrides, MaxConnects} \subseteq Nat

VARIABLES
  todo,        \* the visits that are left of the walk
  type,        \* what is in each slot: a type, or None
  made,        \* history: how the slot was filled, "new" or "create"
  known,       \* history: how many overrides there were by then
  to,          \* the type that each override in the log asks for
  subscribed,  \* components that have given their port a subscriber
  wired,       \* history: the connections, as [by, owner, kind]
  missing      \* what the sweep has reported

tree == <<type, made, known, to, subscribed>>
wiring == <<bound, subs, wired, joined, missing>>
elabVars == <<phase, todo, tree, wiring, traffic, configVars>>

Slots(n) == ToSet(Kids[n])
InTree == {n \in Nodes : type[n] # None}
Parent(c) == CHOOSE p \in Nodes : c \in Slots(p)

(* children_mut: the slots that are filled.                                *)
Children(n) == SelectSeq(Kids[n], LAMBDA c : type[c] # None)

(* A component has the port.                                               *)
HasPort(n, kind) == type[n] # None /\ kind \in PortsOf[type[n]]

(* A test that has not begun, with its root component made.                *)
ElabInit ==
  /\ BusInit /\ todo = <<>>
  /\ type = [n \in Nodes |-> IF n = Root THEN Requested ELSE None]
  /\ made = [n \in Nodes |-> "new"] /\ known = [n \in Nodes |-> 0]
  /\ to = <<>> /\ subscribed = {}
  /\ wired = <<>> /\ missing = {}
  /\ ConfigInit
-----------------------------------------------------------------------------
Visiting(walk, n) == phase = walk /\ todo # <<>> /\ Head(todo) = n

StartBuild ==
  /\ phase = "start"
  /\ phase' = "build" /\ todo' = <<Root>>
  /\ set_in_build
  /\ UNCHANGED <<tree, wiring, traffic>>

(* set_type_override has no context and the path *; set_inst_override has  *)
(* the one of the component that is built.                                 *)
set_override(n, ctx, offset, t) ==
  /\ Visiting("build", n) /\ Len(log) < MaxOverrides
  /\ \/ ctx = NoContext /\ offset = <<Star>>
     \/ ctx = PathOf[n]
  /\ set(ctx, offset)
  /\ to' = Append(to, t)
  /\ UNCHANGED <<phase, todo, type, made, known, subscribed, wiring, traffic>>

subscribe(n) ==
  /\ Visiting("build", n) /\ HasPort(n, "subscribe")
  /\ subscribed' = subscribed \cup {n}
  /\ UNCHANGED <<phase, todo, type, made, known, to, wiring, traffic, configVars>>

(* The type of the override that is in force at a path, or the requested   *)
(* one.                                                                    *)
lookup_override(path) == IF Exists(path) THEN to[get(path)] ELSE Requested

(* Mutant: every slot is looked up.                                        *)
Resolved_Always(c, how) == IF how = "none" THEN None ELSE lookup_override(PathOf[c])

(* RustdvComp::resolve of a slot that was left empty, or filled with       *)
(* new_comp or create_comp.                                                *)
Resolved(c, how) ==
  CASE how = "none"   -> None
    [] how = "new"    -> Requested
    [] how = "create" -> lookup_override(PathOf[c])

(* The rest of build_all: the slots that build has filled are resolved,    *)
(* and the walk goes down into the children.                               *)
EndBuild(n) ==
  /\ Visiting("build", n)
  /\ \E how \in [Slots(n) -> {"none", "new", "create"}] :
       /\ made' = [c \in Nodes |-> IF c \in Slots(n) THEN how[c] ELSE made[c]]
       /\ type' = [c \in Nodes |-> IF c \in Slots(n) THEN Resolved(c, how[c]) ELSE type[c]]
  /\ known' = [c \in Nodes |-> IF c \in Slots(n) THEN Len(log) ELSE known[c]]
  /\ todo' = SelectSeq(Kids[n], LAMBDA c : type'[c] # None) \o Tail(todo)
  /\ UNCHANGED <<phase, to, subscribed, wiring, traffic, configVars>>

(* Mutant: the parent before its children.                                 *)
ConnectOrder_TopDown ==
  LET TopDown[n \in Nodes] ==
        <<n>> \o FlattenSeq([i \in 1..Len(Children(n)) |-> TopDown[Children(n)[i]]])
  IN  TopDown[Root]

(* The order of connect_all: the children before their parent.             *)
ConnectOrder ==
  LET BottomUp[n \in Nodes] ==
        FlattenSeq([i \in 1..Len(Children(n)) |-> BottomUp[Children(n)[i]]]) \o <<n>>
  IN  BottomUp[Root]

StartConnect ==
  /\ phase = "build" /\ todo = <<>>
  /\ phase' = "connect" /\ todo' = ConnectOrder
  /\ set_in_build
  /\ UNCHANGED <<tree, wiring, traffic>>

(* The components whose ports n can name: its own, its children, and those *)
(* that are fields of a child which is itself a field (filled as "new").   *)
Reach(n) ==
  LET Within[m \in Nodes] ==
        Slots(m) \cup UNION {Within[c] : c \in {d \in Slots(m) : made[d] = "new"}}
  IN  {n} \cup Within[n]

(* A call of connect on an export of n's own FIFO or bus, in n's connect.  *)
Connecting(n, owner, kind) ==
  /\ Visiting("connect", n) /\ owner \in Reach(n)
  /\ Len(wired) < MaxConnects

Wired(n, owner, kind) == wired' = Append(wired, [by |-> n, owner |-> owner, kind |-> kind])

(* PutExport, GetExport, PeekExport, PublishExport: write into the port,   *)
(* over what is there.                                                     *)
bind(n, owner, kind) ==
  /\ Connecting(n, owner, kind) /\ kind \in {"get", "publish"}
  /\ HasPort(owner, kind)
  /\ attach(n, owner, kind)
  /\ Wired(n, owner, kind)
  /\ UNCHANGED <<todo, tree, missing, configVars>>

(* SubscribeExport, TapExport: take the subscriber out of the port.        *)
sink_of(n, owner) ==
  /\ Connecting(n, owner, "subscribe")
  /\ HasPort(owner, "subscribe") /\ owner \in subscribed
  /\ join(n, owner)
  /\ Wired(n, owner, "subscribe")
  /\ UNCHANGED <<todo, tree, missing, configVars>>

(* NoSuchPort (an unbuilt slot, an override without the port) and          *)
(* NoSubscriber panic, and the test is over.                               *)
ConnectError(n, owner, kind) ==
  /\ Connecting(n, owner, kind)
  /\ ~HasPort(owner, kind) \/ (kind = "subscribe" /\ owner \notin subscribed)
  /\ phase' = "dead" /\ todo' = <<>>
  /\ UNCHANGED <<tree, wiring, traffic, configVars>>

EndConnect(n) ==
  /\ Visiting("connect", n)
  /\ todo' = Tail(todo)
  /\ UNCHANGED <<phase, tree, wiring, traffic, configVars>>

(* Mutant: the sweep does not go down.                                     *)
unconnected_ports_Top ==
  {n \in {Root} \cup ToSet(Children(Root)) : HasPort(n, "get") /\ bound[n]["get"] = None}

(* The components in the tree with a port that nobody connected.           *)
unconnected_ports ==
  LET Below[n \in Nodes] == {n} \cup UNION {Below[c] : c \in ToSet(Children(n))}
  IN  {n \in Below[Root] : HasPort(n, "get") /\ bound[n]["get"] = None}

(* check_connections; then the hierarchy is final, and the run phase       *)
(* follows.                                                                *)
check_connections ==
  /\ phase = "connect" /\ todo = <<>>
  /\ missing' = unconnected_ports
  /\ phase' = IF missing' = {} THEN "run" ELSE "refused"
  /\ UNCHANGED <<todo, tree, bound, subs, wired, joined, traffic, configVars>>
-----------------------------------------------------------------------------
(* A run body uses a port that has to be connected; iface panics if it is  *)
(* not.  What is behind the port is another module's.                      *)
use_port(n) ==
  /\ phase = "run" /\ stack = <<>> /\ HasPort(n, "get")
  /\ phase' = IF bound[n]["get"] = None THEN "dead" ELSE phase
  /\ UNCHANGED <<todo, tree, wiring, traffic, configVars>>

(* A run body, or a subscriber that is called, writes to its port or to    *)
(* its own bus.                                                            *)
write(n) ==
  /\ \/ HasPort(n, "publish") /\ publish(n)
     \/ n \in InTree /\ owner_write(n)
  /\ UNCHANGED <<todo, tree, wired, missing, configVars>>

(* The calls of a broadcast, and the returns from them.                    *)
deliver == broadcast /\ UNCHANGED <<todo, tree, wired, missing, configVars>>

Return == SinkReturns /\ UNCHANGED <<todo, tree, wired, missing, configVars>>

(* The test is over: nothing is left of it for the next one.               *)
TestIsOver ==
  /\ phase \in {"run", "refused", "dead"}
  /\ stack = <<>> \/ phase = "dead"
  /\ UNCHANGED elabVars

ElabNext ==
  \/ \E n \in Nodes :
       \/ \E ctx \in Contexts, offset \in Overridable, t \in Types : set_override(n, ctx, offset, t)
       \/ subscribe(n) \/ EndBuild(n)
       \/ \E owner \in Nodes :
            \/ \E kind \in {"get", "publish"} : bind(n, owner, kind)
            \/ sink_of(n, owner)
            \/ \E kind \in {"get", "publish", "subscribe"} : ConnectError(n, owner, kind)
       \/ EndConnect(n) \/ use_port(n) \/ write(n)
  \/ StartBuild \/ TestIsOver \/ StartConnect \/ check_connections \/ deliver \/ Return

ElabSpec == ElabInit /\ [][ElabNext]_elabVars
-----------------------------------------------------------------------------
(* The overrides that components above c have installed for just its path. *)
AskedFor(c) == {k \in Writes(PathOf[c]) : log[k].depth < depth_of(PathOf[c])}

(* The overrides that match c and were there when its slot was resolved.   *)
InForce(c) == {k \in 1..known[c] : glob_match(PathOf[c], log[k].glob)}

(* A slot of new_comp keeps its type.  One of create_comp has the type     *)
(* that the topmost component above asked for by its path, whatever else   *)
(* is asked for and whenever; or else one that an override asks for that   *)
(* matched when the slot was resolved, and its own only if there was none. *)
OverridesAreHonoured ==
  \A c \in InTree \ {Root} :
    IF made[c] = "new" THEN type[c] = Requested
    ELSE IF AskedFor(c) # {}
      THEN \E k \in AskedFor(c) :
             /\ type[c] = to[k]
             /\ \A j \in AskedFor(c) : log[k].depth < log[j].depth
                                         \/ (log[k].depth = log[j].depth /\ j <= k)
    ELSE IF InForce(c) # {} THEN \E k \in InForce(c) : type[c] = to[k]
    ELSE type[c] = Requested

(* Nothing runs unless every port that needs it is connected, in the whole *)
(* tree, and a test that is refused is told of all that are not.           *)
WiringIsComplete ==
  LET open == {n \in InTree : HasPort(n, "get") /\ \A k \in 1..Len(wired) :
                                  ~(wired[k].owner = n /\ wired[k].kind = "get")}
  IN  /\ phase = "run" => open = {}
      /\ phase = "refused" => missing = open /\ open # {}

(* n and the components under it.                                          *)
Under(n) ==
  LET Below[m \in Nodes] == {m} \cup UNION {Below[c] : c \in Slots(m)}
  IN  Below[n]

(* Of a component that connects its own port and one above that connects   *)
(* it too, the one above decides, and of two above the upper one.          *)
ParentsDecide ==
  phase = "run" =>
    \A k \in 1..Len(wired) :
      LET w == wired[k]
      IN  w.kind # "subscribe" => w.by \in Under(bound[w.owner][w.kind])
=============================================================================
