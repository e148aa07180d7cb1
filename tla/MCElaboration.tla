--------------------------- MODULE MCElaboration ---------------------------
(* Finite instances of Config and of Elaboration for TLC: a test a with    *)
(* the children a.d and a.b, and a child a.b.c of the latter.  The         *)
(* characters are * = 1, . = 2, a = 3, b = 4, c = 5 and d = 6.             *)
EXTENDS Elaboration

CONSTANT Parts  \* the modules that are checked: "config", "factory", "wiring"

VARIABLE part

MCContexts == {NoContext, <<3>>, <<3, 2, 4>>}

(* *, c, b.c, b.*, *.c, *.b.* and the writer itself                        *)
MCOffsets ==
  {<<1>>, <<5>>, <<4, 2, 5>>, <<4, 2, 1>>, <<1, 2, 5>>, <<1, 2, 4, 2, 1>>, <<>>}

(* a, a.b and a.b.c                                                        *)
MCPaths == {<<3>>, <<3, 2, 4>>, <<3, 2, 4, 2, 5>>}

MCNodes == {"a", "b", "c", "d"}
MCKids == [n \in MCNodes |-> CASE n = "a" -> <<"d", "b">> [] n = "b" -> <<"c">> [] OTHER -> <<>>]
MCPathOf == [n \in MCNodes |-> CASE n = "a" -> <<3>> [] n = "b" -> <<3, 2, 4>>
                                 [] n = "c" -> <<3, 2, 4, 2, 5>> [] n = "d" -> <<3, 2, 6>>]

(* A variant has a port to be connected, and cannot publish.               *)
MCPortsOf == [t \in {"base", "variant"} |->
               IF t = "base" THEN {"publish", "subscribe"} ELSE {"get", "subscribe"}]

(* *, c, b.c and the writer itself                                         *)
MCOverridable == {<<1>>, <<5>>, <<4, 2, 5>>, <<>>}

(* Elaboration twice: overrides, with one connection and no broadcasts;    *)
(* and connections and broadcasts without the factory and without a.d.     *)
MCInit == part \in Parts /\ ElabInit

MCNext ==
  \/ part = "config" /\ ConfigNext /\ UNCHANGED <<part, phase, todo, tree, wiring, traffic>>
  \/ /\ part = "factory" /\ ElabNext /\ UNCHANGED part
     /\ Len(wired') <= 1 /\ subscribed' = {} /\ source' = <<>>
  \/ /\ part = "wiring" /\ ElabNext /\ UNCHANGED part
     /\ log' = <<>> /\ type'["d"] = None /\ \A n \in Nodes : made'[n] # "create"

MCSpec == MCInit /\ [][MCNext]_<<part, elabVars>>
=============================================================================
