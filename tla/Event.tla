------------------------------- MODULE Event --------------------------------
(***************************************************************************)
(* The manual-reset Event of rustdv-sim (sync.rs): set releases everyone   *)
(* who waits, a wait on a set event completes at once, and clear rearms    *)
(* it.  wait() is level-triggered: a waiter that was woken looks again.    *)
(* A client is a task that awaits the event; ready says that it will be    *)
(* polled.                                                                 *)
(***************************************************************************)
EXTENDS Naturals

CONSTANT Clients

VARIABLES
  is_set,   \* EventInner.is_set
  waiters,  \* EventInner.waiters: the clients whose wakers are stored
  fut,      \* "idle", "waiting" (an EventWait), "done"
  ready     \* the client will be polled

vars == <<is_set, waiters, fut, ready>>

Init ==
  /\ is_set = FALSE
  /\ waiters = {}
  /\ fut = [p \in Clients |-> "idle"]
  /\ ready = [p \in Clients |-> FALSE]

set ==
  /\ is_set' = TRUE
  /\ waiters' = {}
  /\ ready' = [p \in Clients |-> ready[p] \/ p \in waiters]
  /\ UNCHANGED fut

clear == is_set' = FALSE /\ UNCHANGED <<waiters, fut, ready>>

wait(p) ==
  /\ fut[p] # "waiting"
  /\ fut' = [fut EXCEPT ![p] = "waiting"]
  /\ ready' = [ready EXCEPT ![p] = TRUE]
  /\ UNCHANGED <<is_set, waiters>>

Poll(p) ==
  /\ fut[p] = "waiting"
  /\ ready' = [ready EXCEPT ![p] = FALSE]
  /\ IF is_set
       THEN fut' = [fut EXCEPT ![p] = "done"] /\ UNCHANGED waiters
       ELSE waiters' = waiters \cup {p} /\ UNCHANGED fut
  /\ UNCHANGED is_set

Drop(p) ==
  /\ fut[p] = "waiting"
  /\ fut' = [fut EXCEPT ![p] = "idle"]
  /\ UNCHANGED <<is_set, waiters, ready>>

Next == set \/ clear \/ \E p \in Clients : wait(p) \/ Poll(p) \/ Drop(p)

Spec == Init /\ [][Next]_vars

(* The executor polls whoever is ready.                                    *)
Fairness == \A p \in Clients : WF_vars(ready[p] /\ Poll(p))
-----------------------------------------------------------------------------
(* An event that stays set releases every waiter.                          *)
SetReleasesAll == \A p \in Clients : (fut[p] = "waiting" /\ []is_set) ~> fut[p] # "waiting"
=============================================================================
