---------------------------- MODULE AnalysisBus ----------------------------
(***************************************************************************)
(* The analysis bus (analysis.rs, and PublishPort and SinkHandle of        *)
(* port.rs): subscribers are connected to a bus in the connect phase; in   *)
(* the run phase an item that is written goes to one after the other.  A   *)
(* subscriber that is called may write itself, so broadcasts nest.         *)
(*                                                                         *)
(* Each component owns one bus, which is known by its name.                *)
(***************************************************************************)
EXTENDS Naturals, Sequences

CONSTANTS
  Nodes,     \* components
  None,
  MaxPublished \* bound: items in a test

ASSUME BusAssumption == None \notin Nodes /\ MaxPublished \in Nat

VARIABLES
  phase,   \* "start", "build", "connect", "run", "refused", or "dead" after a panic
  bound,   \* "get" and "publish" ports: the component whose export they hold
  subs,    \* the subscribers of each bus
  joined,  \* history: for each bus, whose subscribers were connected to it, in order
  stack,   \* broadcasts in progress, the innermost last
  heard,   \* history: for each item, who it was delivered to, in order
  source   \* history: the bus that each item was written to

traffic == <<stack, heard, source>>
busVars == <<phase, bound, subs, joined, traffic>>

BusInit ==
  /\ phase = "start"
  /\ bound = [n \in Nodes |-> [kind \in {"get", "publish"} |-> None]]
  /\ subs = [n \in Nodes |-> <<>>] /\ joined = [n \in Nodes |-> <<>>]
  /\ stack = <<>> /\ heard = <<>> /\ source = <<>>

(* An export of n's FIFO or bus is written into a port of owner, over what *)
(* is there.                                                               *)
attach(n, owner, kind) ==
  /\ phase = "connect"
  /\ bound' = [bound EXCEPT ![owner][kind] = n]
  /\ UNCHANGED <<phase, subs, joined, traffic>>

(* Mutant: the bus keeps one subscriber, as a port keeps one interface.    *)
Joined_Last(n, owner) == [subs EXCEPT ![n] = <<owner>>]

(* The bus with one subscriber more.                                       *)
Joined(n, owner) == [subs EXCEPT ![n] = Append(@, owner)]

(* SubscribeExport, TapExport: the subscriber is added to the bus.         *)
join(n, owner) ==
  /\ phase = "connect"
  /\ subs' = Joined(n, owner)
  /\ joined' = [joined EXCEPT ![n] = Append(@, owner)]
  /\ UNCHANGED <<phase, bound, traffic>>

(* The innermost broadcast.                                                *)
Innermost == stack[Len(stack)]
TopIs(f) == [stack EXCEPT ![Len(stack)] = f]

(* A broadcast is begun by n's run body, or by n as a subscriber that is   *)
(* called in another.  Without a bus nothing happens.                      *)
Broadcasts(n, hub) ==
  /\ phase = "run" /\ Len(source) < MaxPublished
  /\ stack # <<>> => Innermost.now = n
  /\ source' = Append(source, hub)
  /\ heard' = Append(heard, <<>>)
  /\ stack' = IF hub = None THEN stack
              ELSE Append(stack, [item |-> Len(source) + 1, now |-> None,
                                  left |-> subs[hub]])
  /\ UNCHANGED <<phase, bound, subs, joined>>

(* PublishPort::write, which needs nobody to be connected.                 *)
publish(n) == Broadcasts(n, bound[n]["publish"])

(* AnalysisBus::write, by the owner of the bus.                            *)
owner_write(n) == Broadcasts(n, n)

(* The subscribers whose write is running: their state is borrowed.        *)
Borrowed == {stack[k].now : k \in 1..Len(stack)} \ {None}

(* The next subscriber is called; get_mut panics if it is running already. *)
broadcast ==
  /\ phase = "run" /\ stack # <<>>
  /\ Innermost.now = None /\ Innermost.left # <<>>
  /\ \/ /\ Head(Innermost.left) \in Borrowed
        /\ phase' = "dead" /\ UNCHANGED <<stack, heard>>
     \/ /\ Head(Innermost.left) \notin Borrowed
        /\ stack' = TopIs([Innermost EXCEPT !.now = Head(Innermost.left), !.left = Tail(Innermost.left)])
        /\ heard' = [heard EXCEPT ![Innermost.item] = Append(@, Head(Innermost.left))]
        /\ UNCHANGED phase
  /\ UNCHANGED <<bound, subs, joined, source>>

(* The subscriber returns, or the broadcast is over.                       *)
SinkReturns ==
  /\ phase = "run" /\ stack # <<>>
  /\ \/ Innermost.now # None /\ stack' = TopIs([Innermost EXCEPT !.now = None])
     \/ Innermost.now = None /\ Innermost.left = <<>> /\ stack' = SubSeq(stack, 1, Len(stack) - 1)
  /\ UNCHANGED <<phase, bound, subs, joined, heard, source>>

(* What the rest of the system does to the phase: it moves the test on,    *)
(* never back to the walks.                                                *)
Early == {"start", "build", "connect"}
MovesOn ==
  /\ phase \notin Early => phase' \notin Early
  /\ UNCHANGED <<bound, subs, joined, traffic>>

BusNext ==
  \/ \E n \in Nodes :
       \/ publish(n) \/ owner_write(n)
       \/ \E owner \in Nodes :
            join(n, owner) \/ \E kind \in {"get", "publish"} : attach(n, owner, kind)
  \/ broadcast \/ SinkReturns \/ MovesOn

BusSpec == BusInit /\ [][BusNext]_busVars
-----------------------------------------------------------------------------
(* When a write is over, every connection to its bus has heard the item    *)
(* once, in the order of the connections, whatever the subscribers have    *)
(* written meanwhile.                                                      *)
EveryItemIsHeard ==
  phase = "run" =>
    \A item \in 1..Len(source) :
      (\A k \in 1..Len(stack) : stack[k].item # item) =>
         heard[item] = IF source[item] = None THEN <<>> ELSE joined[source[item]]
=============================================================================
