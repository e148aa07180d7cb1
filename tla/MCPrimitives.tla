---------------------------- MODULE MCPrimitives ----------------------------
(***************************************************************************)
(* The synchronisation objects that tasks wait on, for model checking: a   *)
(* behaviour exercises one of them, named by part, and leaves the others   *)
(* as they were made.                                                      *)
(***************************************************************************)
EXTENDS Lock, Buffers

CONSTANT Parts

VARIABLES part, is_set, eWaiters, eFut, eReady

E == INSTANCE Event WITH waiters <- eWaiters, fut <- eFut, ready <- eReady

eVars == <<is_set, eWaiters, eFut, eReady>>

MCInit ==
  /\ part \in Parts /\ tapped = (part = "fifo")
  /\ Init /\ E!Init /\ F!FInit /\ C!Init

MCNext ==
  \/ part = "lock" /\ Next /\ UNCHANGED <<part, tapped, eVars, qVars, tVars, cVars>>
  \/ part = "event" /\ E!Next /\ UNCHANGED <<part, tapped, vars, qVars, tVars, cVars>>
  \/ part = "queue" /\ F!QNext /\ UNCHANGED <<part, tapped, vars, eVars, tVars, cVars>>
  \/ part = "fifo" /\ F!FNext /\ UNCHANGED <<part, tapped, vars, eVars, cVars>>
  \/ part = "channel" /\ C!Next /\ UNCHANGED <<part, tapped, vars, eVars, qVars, tVars>>

MCVars == <<part, tapped, vars, eVars, qVars, tVars, cVars>>

MCSpec == MCInit /\ [][MCNext]_MCVars

(* Each object's tasks are polled as fairly as its own module says; in a   *)
(* part that is not exercised there is nobody to poll.                     *)
MCFairSpec == MCSpec /\ Fairness /\ E!Fairness /\ F!QFairness /\ C!Fairness
-----------------------------------------------------------------------------
(* Whoever waits is served: for the lock, for an event that stays set, for *)
(* items or space unless others snatch them away, and receivers whose      *)
(* senders are gone.                                                       *)
WaitersAreServed ==
  WaiterIsServed /\ E!SetReleasesAll /\ F!WaitingEnds /\ C!ReceiversLearnOfDisconnect
=============================================================================
